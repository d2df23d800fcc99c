---------------------------- MODULE EnrollmentProofs ----------------------------
(***************************************************************************)
(* What one process does by itself, for any number of logins, rotations    *)
(* and calls: it implements Enrollment, with every fault, and never sends  *)
(* an outdated token unless an answer was lost or a process crashed.       *)
(***************************************************************************)
EXTENDS SystemCredentialsProofs

\* Where the only process stands and what the file holds fit together: it announces
\* without credentials, calls with those in the file, and rewrites what it has read.
Course(r) ==
    /\ r.call = "announce" /\ r.at \in {"headers", "sent", "reply", "done"} => ~Parses(file)
    /\ r.call # "announce" /\ r.at \in {"headers", "sent", "reply"} =>
          Parses(file) /\ file.login = r.who
    /\ r.at = "trunc" =>
          /\ r.buf.login = r.who /\ r.call # "announce"
          /\ IF r.call = "create" THEN ~Parses(file) ELSE Parses(file) /\ file.login = r.who
    /\ r.at = "write" => ~Parses(file) /\ r.fd /\ r.call # "announce"
    /\ r.at \in {"auth", "headers", "sent", "reply"} => r.call # "create"
    /\ r.at = "auth" => r.call # "announce"

SoloInv == \A p \in Procs : Course(run[p])

\* The token of login l that the server would accept: none, or the last one it named.
Current(l, t) == t \in {NoToken, <<l, rot[l]>>}

\* Every token on its way is the last one of its login; the one in the file is, unless
\* a newer one is about to replace it.
UpToDate(r) ==
    /\ Parses(file) /\ r.at # "trunc" /\ (r.at = "reply" => r.reply = NoToken) =>
          Current(file.login, file.token)
    /\ r.at = "sent" => Current(r.who, r.sent)
    /\ r.at = "reply" => Current(r.who, r.reply)
    /\ r.at \in {"trunc", "write"} => Current(r.buf.login, r.buf.token)

TokenInv == past \cap {"lost", "crash"} = {} =>
                ~flagged /\ \A p \in Procs : UpToDate(run[p])

-----------------------------------------------------------------------------
\* Every step of a process is one of its actions, and leaves it with a proper record.
Acts(p) == Step(p) \/ Lose(p) \/ Crash(p) \/ \E c \in Commands : Start(p, c)

LEMMA SoloBecomes ==
  ASSUME TypeInv, NEW p \in Procs, NEW r, Become(p, r)
  PROVE  run'[p] = r
  BY DEF Become, TypeInv, TypeOK

LEMMA Exits ==
  ASSUME TypeInv, NEW p \in Procs, Exit(p)
  PROVE  run'[p] = Idle
  BY SoloBecomes DEF Exit

\* What the process is left with by the steps that do not end its command.
LEMMA Starts ==
  ASSUME TypeInv, NEW p \in Procs, NEW c \in Commands, Start(p, c)
  PROVE  run'[p].at \in {"check", "unlink"}
  <1>1. PICK n \in 0..MaxCalls :
          Become(p, [Idle EXCEPT !.at = IF c = "cleanup" THEN "unlink" ELSE "check",
                                 !.cmd = c, !.left = n])
    BY DEF Start
  <1> DEFINE r == [Idle EXCEPT !.at = IF c = "cleanup" THEN "unlink" ELSE "check",
                               !.cmd = c, !.left = n]
  <1>2. r.at \in {"check", "unlink"}
    BY DEF Idle
  <1> QED
    BY <1>1, <1>2, SoloBecomes

LEMMA NextCallIs ==
  ASSUME NEW r, RunOK(r)
  PROVE  NextProductCall(r).at = "auth" /\ NextProductCall(r).call \in {"product", "delete"}
  BY DEF NextProductCall, Fresh, RunOK, Runs

LEMMA Checks ==
  ASSUME TypeInv, NEW p \in Procs, IsRegistered(p)
  PROVE  \/ run'[p] = Idle
         \/ run'[p].at = "auth" /\ run'[p].call \in {"update", "product", "delete"}
         \/ run'[p].at = "headers" /\ run'[p].call = "announce" /\ ~Parses(file)
  <1> DEFINE s == run[p]
             u == [s EXCEPT !.call = "update", !.at = "auth"]
             a == [s EXCEPT !.call = "announce", !.at = "headers"]
  <1>1. u.at = "auth" /\ u.call = "update" /\ a.at = "headers" /\ a.call = "announce"
    BY RunIsOK DEF RunOK, Runs
  <1>2. \/ Exit(p) \/ Become(p, u) \/ Become(p, NextProductCall(s))
        \/ ~Parses(file) /\ Become(p, a)
    BY DEF IsRegistered, Announces
  <1>3. CASE Exit(p)
    BY <1>3, Exits
  <1>4. CASE Become(p, u)
    BY <1>1, <1>4, SoloBecomes
  <1>5. CASE Become(p, NextProductCall(s))
    <2>1. run'[p] = NextProductCall(s)
      BY <1>5, SoloBecomes
    <2> QED
      BY <2>1, RunIsOK, NextCallIs
  <1>6. CASE ~Parses(file) /\ Become(p, a)
    BY <1>1, <1>6, SoloBecomes
  <1> QED
    BY <1>2, <1>3, <1>4, <1>5, <1>6

LEMMA Authenticates ==
  ASSUME TypeInv, NEW p \in Procs, AddAuthHeader(p)
  PROVE  \/ run'[p] = Idle
         \/ /\ Parses(file) /\ run'[p].at = "headers" /\ run'[p].call = run[p].call
            /\ run'[p].who = file.login
  <1> DEFINE r == [run[p] EXCEPT !.who = file.login, !.at = "headers"]
  <1>1. r.at = "headers" /\ r.call = run[p].call /\ r.who = file.login
    BY RunIsOK DEF RunOK, Runs
  <1>2. CASE Parses(file) /\ Become(p, r)
    BY <1>1, <1>2, SoloBecomes
  <1>3. CASE Exit(p)
    BY <1>3, Exits
  <1> QED
    BY <1>2, <1>3 DEF AddAuthHeader

LEMMA Sends ==
  ASSUME TypeInv, NEW p \in Procs, AddHeaders(p)
  PROVE  /\ run'[p].at = "sent" /\ run'[p].call = run[p].call /\ run'[p].who = run[p].who
         /\ run'[p].sent = IF Parses(file) THEN file.token ELSE NoToken
  <1> DEFINE r == [run[p] EXCEPT !.sent = IF Parses(file) THEN file.token ELSE NoToken,
                                 !.at = "sent"]
  <1>1. /\ r.at = "sent" /\ r.call = run[p].call /\ r.who = run[p].who
        /\ r.sent = IF Parses(file) THEN file.token ELSE NoToken
    BY RunIsOK DEF RunOK, Runs
  <1> QED
    BY <1>1, SoloBecomes DEF AddHeaders

LEMMA AnswerGives ==
  ASSUME TypeInv, NEW p \in Procs, NEW k, NEW ok, NEW t, Answered(p, k, ok, t)
  PROVE  /\ run'[p].at = "reply" /\ run'[p].who = k /\ run'[p].ok = ok
         /\ run'[p].call = run[p].call /\ run'[p].reply = t
  <1> DEFINE r == [run[p] EXCEPT !.who = k, !.ok = ok, !.reply = t, !.sent = NoToken,
                                 !.at = "reply"]
  <1>1. /\ r.at = "reply" /\ r.who = k /\ r.ok = ok /\ r.call = run[p].call /\ r.reply = t
    BY RunIsOK DEF RunOK, Runs
  <1> QED
    BY <1>1, SoloBecomes DEF Answered

LEMMA Stores ==
  ASSUME TypeInv, NEW p \in Procs, HandleSystemToken(p)
  PROVE  /\ run'[p].call = run[p].call /\ run'[p].who = run[p].who /\ run'[p].ok = run[p].ok
         /\ \/ run'[p].at = "done" /\ Ignored(run[p])
            \/ /\ run'[p].at = "trunc" /\ ~Ignored(run[p])
               /\ run'[p].buf.login = file.login /\ run'[p].buf.token = run[p].reply
  <1> DEFINE s == run[p]
             b == [file EXCEPT !.token = s.reply]
             d == [s EXCEPT !.at = "done", !.reply = NoToken]
             t == [s EXCEPT !.at = "trunc", !.reply = NoToken, !.buf = b]
  <1>1. d.at = "done" /\ d.call = s.call /\ d.who = s.who /\ d.ok = s.ok
    BY RunIsOK DEF RunOK, Runs
  <1>2. t.at = "trunc" /\ t.call = s.call /\ t.who = s.who /\ t.ok = s.ok /\ t.buf = b
    BY RunIsOK DEF RunOK, Runs
  <1>3. CASE Ignored(s) /\ Become(p, d)
    BY <1>1, <1>3, SoloBecomes
  <1>4. CASE ~Ignored(s) /\ Become(p, t)
    <2>1. b.login = file.login /\ b.token = s.reply
      BY <1>4, ParsedFile DEF Ignored, Creds
    <2>2. run'[p] = t
      BY <1>4, SoloBecomes
    <2> HIDE DEF b
    <2> QED
      BY <1>2, <1>4, <2>1, <2>2
  <1> QED
    BY <1>3, <1>4 DEF HandleSystemToken

LEMMA Opens ==
  ASSUME TypeInv, NEW p \in Procs, OpenTruncate(p)
  PROVE  /\ run'[p].at = "write" /\ run'[p].fd
         /\ run'[p].call = run[p].call /\ run'[p].buf = run[p].buf
  <1> DEFINE r == [run[p] EXCEPT !.fd = TRUE, !.at = "write"]
  <1>1. r.at = "write" /\ r.fd /\ r.call = run[p].call /\ r.buf = run[p].buf
    BY RunIsOK DEF RunOK, Runs
  <1> QED
    BY <1>1, SoloBecomes DEF OpenTruncate

LEMMA Writes ==
  ASSUME TypeInv, NEW p \in Procs, WriteFile(p)
  PROVE  run'[p].at = "done" /\ run'[p].call = run[p].call
  <1> DEFINE r == [run[p] EXCEPT !.fd = FALSE, !.buf = Missing, !.at = "done"]
  <1>1. r.at = "done" /\ r.call = run[p].call
    BY RunIsOK DEF RunOK, Runs
  <1> QED
    BY <1>1, SoloBecomes DEF WriteFile

LEMMA Continues ==
  ASSUME TypeInv, NEW p \in Procs, Continue(p)
  PROVE  \/ run'[p] = Idle /\ (~run[p].ok \/ run[p].call # "announce")
         \/ /\ run[p].ok /\ run[p].call = "announce"
            /\ run'[p].at = "trunc" /\ run'[p].call = "create" /\ run'[p].who = run[p].who
            /\ run'[p].buf = [login |-> run[p].who, token |-> NoToken]
         \/ /\ run'[p].at = "auth" /\ run'[p].call \in {"product", "delete"}
            /\ run[p].call # "announce"
         \/ run'[p].at = "unlink" /\ run[p].call # "announce"
  <1> DEFINE s == run[p]
             new == [login |-> s.who, token |-> NoToken]
             c == [s EXCEPT !.call = "create", !.at = "trunc", !.buf = new]
             u == [s EXCEPT !.at = "unlink"]
  <1>1. c.at = "trunc" /\ c.call = "create" /\ c.who = s.who /\ c.buf = new
    BY RunIsOK DEF RunOK, Runs
  <1>2. u.at = "unlink"
    BY RunIsOK DEF RunOK, Runs
  <1>3. \/ Exit(p) /\ (~s.ok \/ s.call # "announce")
        \/ s.ok /\ s.call = "announce" /\ Become(p, c)
        \/ s.call # "announce" /\ Become(p, NextProductCall(s))
        \/ s.call # "announce" /\ Become(p, u)
    BY DEF Continue
  <1>4. CASE Exit(p) /\ (~s.ok \/ s.call # "announce")
    BY <1>4, Exits
  <1>5. CASE s.ok /\ s.call = "announce" /\ Become(p, c)
    <2>1. run'[p] = c
      BY <1>5, SoloBecomes
    <2> QED
      BY <1>1, <1>5, <2>1
  <1>6. CASE s.call # "announce" /\ Become(p, NextProductCall(s))
    <2>1. run'[p] = NextProductCall(s)
      BY <1>6, SoloBecomes
    <2> QED
      BY <1>6, <2>1, RunIsOK, NextCallIs
  <1>7. CASE s.call # "announce" /\ Become(p, u)
    BY <1>2, <1>7, SoloBecomes
  <1> QED
    BY <1>3, <1>4, <1>5, <1>6, <1>7

LEMMA Removes ==
  ASSUME TypeInv, NEW p \in Procs, RemoveFile(p) \/ Lose(p) \/ Crash(p)
  PROVE  run'[p] = Idle
  BY Exits DEF RemoveFile, Lose, Crash

-----------------------------------------------------------------------------
LEMMA SoloCourseStep ==
  ASSUME TypeInv, NEW p \in Procs, Course(run[p]), Acts(p)
  PROVE  Course(run[p])'
  <1> DEFINE s == run[p]
  <1>0. Idle.at = "idle"
    BY DEF Idle
  <1>1. CASE run'[p].at \in {"idle", "check", "unlink"}
    BY <1>1 DEF Course
  <1>2. ASSUME NEW c \in Commands, Start(p, c) PROVE Course(run[p])'
    BY <1>1, <1>2, Starts
  <1>3. CASE IsRegistered(p)
    <2>1. file' = file
      BY <1>3 DEF IsRegistered
    <2> QED
      BY <1>0, <1>1, <1>3, <2>1, Checks DEF Course, Parses
  <1>4. CASE AddAuthHeader(p)
    <2>1. file' = file /\ s.at = "auth"
      BY <1>4 DEF AddAuthHeader
    <2> QED
      BY <1>0, <1>1, <1>4, <2>1, Authenticates DEF Course, Parses
  <1>5. CASE AddHeaders(p)
    <2>1. file' = file /\ s.at = "headers"
      BY <1>5 DEF AddHeaders
    <2> QED
      BY <1>5, <2>1, Sends DEF Course, Parses
  <1>6. ASSUME NEW k, NEW ok, NEW t, Answered(p, k, ok, t), s.at = "sent",
               s.call = "announce" \/ k = s.who, file' = file
        PROVE  Course(run[p])'
    BY <1>6, AnswerGives DEF Course, Parses
  <1>7. CASE ServeAnnounce(p)
    <2>1. PICK k : \E t : Answered(p, k, TRUE, t)
      BY <1>7 DEF ServeAnnounce, Answer
    <2>2. PICK t : Answered(p, k, TRUE, t)
      BY <2>1
    <2> QED
      BY <1>6, <1>7, <2>2 DEF ServeAnnounce
  <1>8. CASE ServeSystem(p)
    <2>1. PICK ok, t : Answered(p, s.who, ok, t)
      BY <1>8 DEF ServeSystem, Answer
    <2> QED
      BY <1>6, <1>8, <2>1 DEF ServeSystem
  <1>9. CASE Refuse(p)
    BY <1>6, <1>9 DEF Refuse
  <1>10. CASE HandleSystemToken(p)
    <2>1. file' = file /\ s.at = "reply"
      BY <1>10 DEF HandleSystemToken
    <2> QED
      BY <1>10, <2>1, Stores DEF Course, Ignored, Parses
  <1>11. CASE OpenTruncate(p)
    <2>1. ~Parses(file') /\ s.at = "trunc"
      BY <1>11 DEF OpenTruncate, Parses
    <2> QED
      BY <1>11, <2>1, Opens DEF Course, Parses
  <1>12. CASE WriteFile(p)
    <2>1. s.at = "write"
      BY <1>12 DEF WriteFile
    <2> QED
      BY <1>12, <2>1, Writes DEF Course
  <1>13. CASE Continue(p)
    <2>1. file' = file /\ s.at = "done"
      BY <1>13 DEF Continue
    <2>2. CASE s.call = "announce" /\ run'[p].at = "trunc"
      <3>1. ~Parses(file)
        BY <2>1, <2>2 DEF Course
      <3>0. /\ run'[p].call = "create" /\ run'[p].who = s.who
            /\ run'[p].buf = [login |-> s.who, token |-> NoToken]
        BY <1>0, <1>13, <2>2, Continues
      <3>2. run'[p].buf.login = run'[p].who /\ run'[p].call = "create"
        BY <3>0
      <3> QED
        BY <2>1, <2>2, <3>1, <3>2 DEF Course, Parses
    <2>3. CASE run'[p].at = "auth" /\ run'[p].call \in {"product", "delete"}
      BY <2>3 DEF Course
    <2> QED
      BY <1>0, <1>1, <1>13, <2>2, <2>3, Continues
  <1>14. CASE RemoveFile(p) \/ Lose(p) \/ Crash(p)
    BY <1>0, <1>1, <1>14, Removes
  <1> QED
    BY <1>2, <1>3, <1>4, <1>5, <1>7, <1>8, <1>9, <1>10, <1>11, <1>12, <1>13, <1>14
    DEF Acts, Step

LEMMA InitSolo == Init => SoloInv
  BY DEF Init, SoloInv, Course, Idle

LEMMA NextSolo ==
  ASSUME NEW p, Procs = {p}, TypeInv, SoloInv, [Next]_vars
  PROVE  SoloInv'
  <1>1. CASE UNCHANGED vars
    BY <1>1 DEF vars, SoloInv, Course, Parses
  <1>2. CASE Next
    <2>1. p \in Procs /\ Acts(p)
      BY <1>2 DEF Next, Acts
    <2>2. Course(run[p])'
      BY <2>1, SoloCourseStep DEF SoloInv
    <2> QED
      BY <2>2 DEF SoloInv
  <1> QED
    BY <1>1, <1>2

-----------------------------------------------------------------------------
\* An answer names the token that the server has just made the current one.
LEMMA AnswerIsCurrent ==
  ASSUME TypeInv, NEW p \in Procs, NEW k \in Logins, NEW ok \in BOOLEAN, Answer(p, k, ok)
  PROVE  /\ run'[p].at = "reply" /\ run'[p].who = k
         /\ Current(k, run[p].reply)'
         /\ run'[p].reply = NoToken => rot' = rot
  <1>1. CASE Answered(p, k, ok, NoToken) /\ UNCHANGED rot
    BY <1>1, AnswerGives DEF Current
  <1>2. CASE rot' = [rot EXCEPT ![k] = @ + 1] /\ Answered(p, k, ok, <<k, rot[k] + 1>>)
    <2>1. rot'[k] = rot[k] + 1 /\ rot[k] \in Nat
      BY <1>2, BoundsAssumption DEF TypeInv, TypeOK
    <2>2. <<k, rot[k] + 1>> # NoToken
      BY <2>1, DistinctAssumption
    <2> QED
      BY <1>2, <2>1, <2>2, AnswerGives DEF Current
  <1> QED
    BY <1>1, <1>2 DEF Answer

LEMMA SoloTokenStep ==
  ASSUME TypeInv, NEW p \in Procs, Course(run[p]), UpToDate(run[p]), ~flagged, Acts(p),
         past' \cap {"lost", "crash"} = {}
  PROVE  UpToDate(run[p])' /\ ~flagged'
  <1> DEFINE s == run[p]
  <1>0. Idle.at = "idle"
    BY DEF Idle
  \* A step outside the calls that leaves the file and the server alone.
  <1>1. ASSUME rot' = rot, file' = file,
               run'[p].at \in {"idle", "check", "auth", "headers", "unlink", "done"},
               Parses(file) => Current(file.login, file.token)
        PROVE  UpToDate(run[p])'
    BY <1>1 DEF UpToDate, Current, Parses
  <1>2. CASE \E c \in Commands : Start(p, c)
    <2>1. rot' = rot /\ file' = file /\ flagged' = flagged /\ s.at = "idle"
      BY <1>2 DEF Start
    <2> QED
      BY <1>1, <1>2, <2>1, Starts DEF UpToDate
  <1>3. CASE IsRegistered(p)
    <2>1. rot' = rot /\ file' = file /\ flagged' = flagged /\ s.at = "check"
      BY <1>3 DEF IsRegistered
    <2> QED
      BY <1>0, <1>1, <1>3, <2>1, Checks DEF UpToDate
  <1>4. CASE AddAuthHeader(p)
    <2>1. rot' = rot /\ file' = file /\ flagged' = flagged /\ s.at = "auth"
      BY <1>4 DEF AddAuthHeader
    <2> QED
      BY <1>0, <1>1, <1>4, <2>1, Authenticates DEF UpToDate
  <1>5. CASE AddHeaders(p)
    <2>1. rot' = rot /\ file' = file /\ flagged' = flagged /\ s.at = "headers"
      BY <1>5 DEF AddHeaders
    <2>2. Parses(file) => Current(file.login, file.token)
      BY <2>1 DEF UpToDate
    <2>3. Parses(file) => s.who = file.login
      BY <2>1 DEF Course
    <2>4. Current(run'[p].who, run'[p].sent)
      BY <1>5, <2>2, <2>3, Sends DEF Current
    <2>5. run'[p].at = "sent"
      BY <1>5, Sends
    <2> QED
      BY <2>1, <2>2, <2>4, <2>5 DEF UpToDate, Current, Parses
  <1>6. CASE ServeAnnounce(p)
    <2>0. PICK yes \in BOOLEAN : yes = TRUE
      OBVIOUS
    <2>1. PICK k \in Logins : Answer(p, k, yes)
      BY <1>6, <2>0 DEF ServeAnnounce
    <2>2. file' = file /\ flagged' = flagged /\ ~Parses(file)
      BY <1>6 DEF ServeAnnounce, Course
    <2>3. run'[p].at = "reply" /\ run'[p].who = k /\ Current(k, run[p].reply)'
      BY <2>1, AnswerIsCurrent
    <2> QED
      BY <2>2, <2>3 DEF UpToDate, Parses, Current
  <1>7. CASE ServeSystem(p)
    <2>1. PICK ok \in BOOLEAN : Answer(p, s.who, ok)
      BY <1>7 DEF ServeSystem
    <2>2. s.at = "sent" /\ s.call # "announce" /\ file' = file /\ s.who \in Logins
      BY <1>7 DEF ServeSystem, TypeInv, TypeOK
    <2>3. Parses(file) /\ file.login = s.who /\ Current(s.who, s.sent)
      BY <2>2 DEF Course, UpToDate
    <2>4. ~flagged'
      BY <1>7, <2>3 DEF ServeSystem, Current
    <2>5. /\ run'[p].at = "reply" /\ run'[p].who = s.who /\ Current(s.who, run[p].reply)'
          /\ run'[p].reply = NoToken => rot' = rot
      BY <2>1, <2>2, AnswerIsCurrent
    <2>6. Current(file.login, file.token)
      BY <2>2, <2>3 DEF UpToDate
    <2> QED
      BY <2>2, <2>4, <2>5, <2>6 DEF UpToDate, Parses, Current
  <1>8. CASE Refuse(p)
    <2>1. rot' = rot /\ file' = file /\ flagged' = flagged /\ s.at = "sent"
      BY <1>8 DEF Refuse
    <2>2. Parses(file) => Current(file.login, file.token)
      BY <2>1 DEF UpToDate
    <2>0. PICK no \in BOOLEAN : no = FALSE
      OBVIOUS
    <2>4. Answered(p, s.who, no, NoToken)
      BY <1>8, <2>0 DEF Refuse
    <2>3. run'[p].at = "reply" /\ run'[p].reply = NoToken
      BY <2>4, AnswerGives
    <2> QED
      BY <2>1, <2>2, <2>3 DEF UpToDate, Parses, Current
  <1>9. CASE HandleSystemToken(p)
    <2>1. rot' = rot /\ file' = file /\ flagged' = flagged /\ s.at = "reply"
      BY <1>9 DEF HandleSystemToken
    <2>2. CASE run'[p].at = "done" /\ Ignored(s)
      BY <1>1, <2>1, <2>2 DEF UpToDate, Ignored
    <2>3. CASE /\ run'[p].at = "trunc" /\ ~Ignored(s)
               /\ run'[p].buf.login = file.login /\ run'[p].buf.token = s.reply
      <3>1. file.login = s.who
        BY <2>1, <2>3 DEF Course, Ignored
      <3>2. Current(run'[p].buf.login, run'[p].buf.token)
        BY <2>1, <2>3, <3>1 DEF UpToDate
      <3> QED
        BY <2>1, <2>3, <3>2 DEF UpToDate, Current
    <2> QED
      BY <1>9, <2>2, <2>3, <2>1, Stores
  <1>10. CASE OpenTruncate(p)
    <2>1. rot' = rot /\ ~Parses(file') /\ flagged' = flagged /\ s.at = "trunc"
      BY <1>10 DEF OpenTruncate, Parses
    <2>2. run'[p].at = "write" /\ run'[p].buf = s.buf
      BY <1>10, Opens
    <2> QED
      BY <2>1, <2>2 DEF UpToDate, Parses, Current
  <1>11. CASE WriteFile(p)
    <2>1. rot' = rot /\ flagged' = flagged /\ s.at = "write"
      BY <1>11 DEF WriteFile
    <2>2. file' = s.buf
      BY <1>11, <2>1 DEF WriteFile, Overlay, Course
    <2>3. Current(file'.login, file'.token)
      BY <2>1, <2>2 DEF UpToDate
    <2>4. run'[p].at = "done"
      BY <1>11, Writes
    <2> QED
      BY <2>1, <2>3, <2>4 DEF UpToDate, Current
  <1>12. CASE Continue(p)
    <2>1. rot' = rot /\ file' = file /\ flagged' = flagged /\ s.at = "done"
      BY <1>12 DEF Continue
    <2>2. Parses(file) => Current(file.login, file.token)
      BY <2>1 DEF UpToDate
    <2>3. CASE /\ s.call = "announce" /\ run'[p].at = "trunc"
               /\ run'[p].buf = [login |-> s.who, token |-> NoToken]
      BY <2>1, <2>3 DEF UpToDate, Current
    <2> QED
      BY <1>0, <1>1, <1>12, <2>1, <2>2, <2>3, Continues
  <1>13. CASE RemoveFile(p)
    <2>1. rot' = rot /\ ~Parses(file') /\ flagged' = flagged
      BY <1>13 DEF RemoveFile, Parses
    <2> QED
      BY <1>0, <1>13, <2>1, Removes DEF UpToDate, Parses
  <1>14. CASE Lose(p)
    <2>1. rot' = rot /\ file' = file /\ flagged' = flagged /\ s.at = "sent"
      BY <1>14 DEF Lose, InFlight, Remember
    <2> QED
      BY <1>0, <1>1, <1>14, <2>1, Removes DEF UpToDate
  <1>15. ~Crash(p)
    BY DEF Crash, Remember
  <1> QED
    BY <1>2, <1>3, <1>4, <1>5, <1>6, <1>7, <1>8, <1>9, <1>10, <1>11, <1>12, <1>13, <1>14,
       <1>15 DEF Acts, Step

LEMMA InitToken == Init => TokenInv
  BY DEF Init, TokenInv, UpToDate, Idle, Parses

LEMMA NextToken ==
  ASSUME NEW p, Procs = {p}, TypeInv, SoloInv, TokenInv, [Next]_vars
  PROVE  TokenInv'
  <1> SUFFICES ASSUME past' \cap {"lost", "crash"} = {}
               PROVE  ~flagged' /\ UpToDate(run[p])'
    BY DEF TokenInv
  <1>1. ~flagged /\ UpToDate(run[p]) /\ Course(run[p])
    BY PastGrows DEF TokenInv, SoloInv
  <1>2. CASE UNCHANGED vars
    BY <1>1, <1>2 DEF vars, UpToDate, Parses, Current
  <1>3. CASE Next
    <2>1. p \in Procs /\ Acts(p)
      BY <1>3 DEF Next, Acts
    <2> QED
      BY <1>1, <2>1, SoloTokenStep
  <1> QED
    BY <1>2, <1>3

\* A process alone on the machine: unless an answer was lost or the process crashed,
\* the server never sees an outdated token, however many calls it makes and however
\* often the server rotates, in answers that report an error too.
THEOREM TokensStayFresh ==
  ASSUME NEW p, Procs = {p}
  PROVE  Spec => []NoStaleToken
  <1>1. Spec => []TypeInv
    BY InitTypeInv, NextTypeInv, PTL DEF Spec
  <1>2. TypeInv /\ SoloInv /\ [Next]_vars => SoloInv'
    BY NextSolo
  <1>3. Spec => []SoloInv
    BY <1>1, <1>2, InitSolo, PTL DEF Spec
  <1>4. TypeInv /\ SoloInv /\ TokenInv /\ [Next]_vars => TokenInv'
    BY NextToken
  <1>5. Spec => []TokenInv
    BY <1>1, <1>3, <1>4, InitToken, PTL DEF Spec
  <1>6. TokenInv => NoStaleToken
    BY DEF TokenInv, NoStaleToken
  <1> QED
    BY <1>5, <1>6, PTL

-----------------------------------------------------------------------------
(***************************************************************************)
(* The only process implements Enrollment: answering its announcement is   *)
(* the offer, opening the file for the new login enrolls it, giving up     *)
(* before that withdraws it, and a removed file, or one that a crash cut   *)
(* short, forgets the login.  Every other step changes nothing of it.      *)
(***************************************************************************)
\* offer and enrolled of a single process.
OfferOf(p)    == IF Offered(p) THEN run[p].who ELSE NoLogin
EnrolledOf(p) == IF Parses(file) THEN file.login
                 ELSE IF Writing(p) THEN run[p].buf.login ELSE NoLogin

LEMMA OfferIs ==
  ASSUME NEW p, Procs = {p}
  PROVE  offer = OfferOf(p) /\ offer' = OfferOf(p)'
  <1>1. Offered(p) => (CHOOSE q \in Procs : Offered(q)) = p
    OBVIOUS
  <1>2. Offered(p)' => (CHOOSE q \in Procs : Offered(q)') = p
    OBVIOUS
  <1> QED
    BY <1>1, <1>2 DEF offer, OfferOf

LEMMA EnrolledIs ==
  ASSUME NEW p, Procs = {p}
  PROVE  enrolled = EnrolledOf(p) /\ enrolled' = EnrolledOf(p)'
  <1>1. Writing(p) => (CHOOSE q \in Procs : Writing(q)) = p
    OBVIOUS
  <1>2. Writing(p)' => (CHOOSE q \in Procs : Writing(q)') = p
    OBVIOUS
  <1> QED
    BY <1>1, <1>2 DEF enrolled, EnrolledOf

\* A step of p that is one of Enrollment, or none.
Maps(p) ==
    \/ OfferOf(p)' = OfferOf(p) /\ EnrolledOf(p)' = EnrolledOf(p) /\ issued' = issued
    \/ \E l \in Logins :
          /\ EnrolledOf(p) = NoLogin /\ EnrolledOf(p)' = NoLogin
          /\ l \notin issued /\ issued' = issued \cup {l} /\ OfferOf(p)' = l
    \/ /\ OfferOf(p) # NoLogin /\ EnrolledOf(p) = NoLogin /\ issued' = issued
       /\ EnrolledOf(p)' = OfferOf(p) /\ OfferOf(p)' = NoLogin
    \/ /\ OfferOf(p) # NoLogin /\ OfferOf(p)' = NoLogin /\ issued' = issued
       /\ EnrolledOf(p)' = EnrolledOf(p)
    \/ /\ EnrolledOf(p) # NoLogin /\ EnrolledOf(p)' = NoLogin /\ issued' = issued
       /\ OfferOf(p)' = OfferOf(p)

LEMMA SoloMaps ==
  ASSUME TypeInv, NEW p \in Procs, Course(run[p]), Acts(p)
  PROVE  Maps(p)
  <1> DEFINE s == run[p]
  <1>0. Idle.at = "idle"
    BY DEF Idle
  <1>a. RunOK(s)
    BY RunIsOK
  \* A step that leaves the file alone and neither offers nor writes stutters.
  <1>1. ASSUME issued' = issued, file' = file, ~Offered(p), ~Offered(p)', ~Writing(p),
               ~Writing(p)'
        PROVE  Maps(p)
    BY <1>1 DEF Maps, OfferOf, EnrolledOf, Parses
  <1>2. ASSUME NEW c \in Commands, Start(p, c) PROVE Maps(p)
    <2>1. s.at = "idle" /\ issued' = issued /\ file' = file
      BY <1>2 DEF Start
    <2> QED
      BY <1>1, <1>2, <2>1, Starts DEF Offered, Writing
  <1>3. CASE IsRegistered(p)
    <2>1. s.at = "check" /\ issued' = issued /\ file' = file
      BY <1>3 DEF IsRegistered
    <2> QED
      BY <1>0, <1>1, <1>3, <2>1, Checks DEF Offered, Writing
  <1>4. CASE AddAuthHeader(p)
    <2>1. s.at = "auth" /\ issued' = issued /\ file' = file
      BY <1>4 DEF AddAuthHeader
    <2> QED
      BY <1>0, <1>1, <1>4, <2>1, Authenticates DEF Offered, Writing
  <1>5. CASE AddHeaders(p)
    <2>1. s.at = "headers" /\ issued' = issued /\ file' = file
      BY <1>5 DEF AddHeaders
    <2> QED
      BY <1>1, <1>5, <2>1, Sends DEF Offered, Writing
  <1>6. CASE ServeAnnounce(p)
    <2>0. PICK yes \in BOOLEAN : yes = TRUE
      OBVIOUS
    <2>1. PICK k \in Logins : /\ k \notin issued /\ issued' = issued \cup {k}
                              /\ Answer(p, k, yes)
      BY <1>6, <2>0 DEF ServeAnnounce
    <2>2. PICK t : Answered(p, k, yes, t)
      BY <2>1 DEF Answer
    <2>3. /\ run'[p].at = "reply" /\ run'[p].who = k /\ run'[p].ok = yes
          /\ run'[p].call = s.call
      BY <2>2, AnswerGives
    <2>4. s.at = "sent" /\ s.call = "announce" /\ file' = file /\ ~Parses(file)
      BY <1>6 DEF ServeAnnounce, Course
    <2>5. Offered(p)' /\ ~Writing(p) /\ ~Writing(p)'
      BY <2>0, <2>3, <2>4 DEF Offered, Writing
    <2>6. OfferOf(p)' = k
      BY <2>3, <2>5 DEF OfferOf
    <2>7. EnrolledOf(p) = NoLogin /\ EnrolledOf(p)' = NoLogin
      BY <2>4, <2>5 DEF EnrolledOf, Parses
    <2> QED
      BY <2>1, <2>6, <2>7 DEF Maps
  <1>7. CASE ServeSystem(p)
    <2>1. PICK ok \in BOOLEAN : Answer(p, s.who, ok)
      BY <1>7 DEF ServeSystem
    <2>2. PICK t : Answered(p, s.who, ok, t)
      BY <2>1 DEF Answer
    <2>3. run'[p].at = "reply" /\ run'[p].call = s.call
      BY <2>2, AnswerGives
    <2>4. s.at = "sent" /\ s.call # "announce" /\ issued' = issued /\ file' = file
      BY <1>7 DEF ServeSystem
    <2> QED
      BY <1>1, <2>3, <2>4 DEF Offered, Writing
  <1>8. CASE Refuse(p)
    <2>0. PICK no \in BOOLEAN : no = FALSE
      OBVIOUS
    <2>1. Answered(p, s.who, no, NoToken) /\ s.at = "sent" /\ issued' = issued /\ file' = file
      BY <1>8, <2>0 DEF Refuse
    <2>2. run'[p].at = "reply" /\ run'[p].ok = no
      BY <2>1, AnswerGives
    <2> QED
      BY <1>1, <2>0, <2>1, <2>2 DEF Offered, Writing
  <1>9. CASE HandleSystemToken(p)
    <2>1. s.at = "reply" /\ issued' = issued /\ file' = file
      BY <1>9 DEF HandleSystemToken
    <2>2. ~Writing(p) /\ ~Writing(p)'
      BY <1>9, <2>1, Stores DEF Writing
    <2>3. Offered(p)' = Offered(p)
      <3>1. CASE run'[p].at = "done"
        BY <1>9, <2>1, <3>1, Stores DEF Offered
      <3>2. CASE run'[p].at = "trunc" /\ ~Ignored(s)
        <4>1. s.call # "announce" /\ s.call # "create"
          BY <2>1, <3>2 DEF Course, Ignored
        <4> QED
          BY <1>9, <2>1, <3>2, <4>1, Stores DEF Offered
      <3> QED
        BY <1>9, <3>1, <3>2, Stores
    <2>4. run'[p].who = s.who
      BY <1>9, Stores
    <2>5. OfferOf(p)' = OfferOf(p)
      BY <2>3, <2>4 DEF OfferOf
    <2>6. EnrolledOf(p)' = EnrolledOf(p)
      BY <2>1, <2>2 DEF EnrolledOf, Parses
    <2> QED
      BY <2>1, <2>5, <2>6 DEF Maps
  <1>10. CASE OpenTruncate(p)
    <2>1. s.at = "trunc" /\ issued' = issued /\ ~Parses(file')
      BY <1>10 DEF OpenTruncate, Parses
    <2>2. run'[p].at = "write" /\ run'[p].fd /\ run'[p].buf = s.buf
      BY <1>10, Opens
    <2>3. Writing(p)' /\ ~Writing(p) /\ ~Offered(p)'
      BY <2>1, <2>2 DEF Writing, Offered
    <2>4. EnrolledOf(p)' = s.buf.login /\ OfferOf(p)' = NoLogin
      BY <2>1, <2>2, <2>3 DEF EnrolledOf, OfferOf, Parses
    <2>5. s.buf.login = s.who /\ s.who \in Logins /\ s.call # "announce"
      BY <1>a, <2>1 DEF Course, RunOK, Creds
    <2>6. CASE s.call = "create"
      <3>1. OfferOf(p) = s.who /\ EnrolledOf(p) = NoLogin
        BY <2>1, <2>3, <2>6 DEF OfferOf, Offered, EnrolledOf, Course
      <3> QED
        BY <2>1, <2>4, <2>5, <3>1, DistinctAssumption DEF Maps
    <2>7. CASE s.call # "create"
      <3>1. OfferOf(p) = NoLogin
        BY <2>1, <2>7 DEF OfferOf, Offered
      <3>2. EnrolledOf(p) = s.who
        BY <2>1, <2>7 DEF EnrolledOf, Course
      <3> QED
        BY <2>1, <2>4, <2>5, <3>1, <3>2 DEF Maps
    <2> QED
      BY <2>6, <2>7
  <1>11. CASE WriteFile(p)
    <2>1. s.at = "write" /\ issued' = issued /\ ~Parses(file) /\ s.fd /\ s.call # "announce"
      BY <1>11 DEF WriteFile, Course
    <2>2. file' = s.buf /\ s.buf \in Creds
      BY <1>11, <1>a, <2>1 DEF WriteFile, Overlay, RunOK
    <2>3. Parses(file')
      BY <2>2, DistinctAssumption DEF Parses
    <2>4. run'[p].at = "done" /\ run'[p].call = s.call
      BY <1>11, Writes
    <2>5. Writing(p) /\ ~Offered(p) /\ ~Offered(p)'
      BY <2>1, <2>4 DEF Writing, Offered
    <2>6. EnrolledOf(p)' = EnrolledOf(p)
      BY <2>1, <2>2, <2>3, <2>5 DEF EnrolledOf, Parses
    <2>7. OfferOf(p)' = OfferOf(p)
      BY <2>5 DEF OfferOf
    <2> QED
      BY <2>1, <2>6, <2>7 DEF Maps
  <1>12. CASE Continue(p)
    <2>1. s.at = "done" /\ issued' = issued /\ file' = file
      BY <1>12 DEF Continue
    <2>2. CASE /\ s.ok /\ s.call = "announce" /\ run'[p].at = "trunc"
               /\ run'[p].call = "create" /\ run'[p].who = s.who
      <3>1. Offered(p) /\ Offered(p)' /\ ~Writing(p) /\ ~Writing(p)'
        BY <2>1, <2>2 DEF Offered, Writing
      <3>2. OfferOf(p)' = OfferOf(p)
        BY <2>2, <3>1 DEF OfferOf
      <3>3. EnrolledOf(p)' = EnrolledOf(p)
        BY <2>1, <3>1 DEF EnrolledOf, Parses
      <3> QED
        BY <2>1, <3>2, <3>3 DEF Maps
    <2>3. CASE run'[p].at \in {"idle", "auth", "unlink"} /\ (~s.ok \/ s.call # "announce")
      BY <1>1, <2>1, <2>3 DEF Offered, Writing
    <2> QED
      BY <1>0, <1>12, <2>2, <2>3, Continues
  <1>13. CASE RemoveFile(p)
    <2>1. s.at = "unlink" /\ issued' = issued /\ ~Parses(file')
      BY <1>13 DEF RemoveFile, Parses
    <2>2. ~Offered(p) /\ ~Offered(p)' /\ ~Writing(p) /\ ~Writing(p)'
      BY <1>0, <1>13, <2>1, Removes DEF Offered, Writing
    <2>3. OfferOf(p)' = OfferOf(p) /\ EnrolledOf(p)' = NoLogin
      BY <2>1, <2>2 DEF OfferOf, EnrolledOf, Parses
    <2> QED
      BY <2>1, <2>3 DEF Maps
  <1>14. CASE Lose(p) \/ Crash(p)
    <2>1. issued' = issued /\ file' = file
      BY <1>14 DEF Lose, Crash
    <2>2. ~Offered(p)' /\ ~Writing(p)'
      BY <1>0, <1>14, Removes DEF Offered, Writing
    <2>3. OfferOf(p)' = NoLogin
      BY <2>2 DEF OfferOf
    <2>4. CASE ~Writing(p)
      <3>1. EnrolledOf(p)' = EnrolledOf(p)
        BY <2>1, <2>2, <2>4 DEF EnrolledOf, Parses
      <3> QED
        BY <2>1, <2>3, <3>1 DEF Maps
    <2>5. CASE Writing(p)
      <3>1. ~Offered(p) /\ ~Parses(file)
        BY <2>5 DEF Writing, Offered, Course
      <3>2. OfferOf(p) = NoLogin /\ EnrolledOf(p)' = NoLogin
        BY <2>1, <2>2, <3>1 DEF OfferOf, EnrolledOf, Parses
      <3> QED
        BY <2>1, <2>3, <3>2 DEF Maps
    <2> QED
      BY <2>4, <2>5
  <1> QED
    BY <1>2, <1>3, <1>4, <1>5, <1>6, <1>7, <1>8, <1>9, <1>10, <1>11, <1>12, <1>13, <1>14
    DEF Acts, Step

LEMMA EnrInit ==
  ASSUME NEW p, Procs = {p}, Init
  PROVE  Enr!Init
  <1>1. ~Offered(p) /\ ~Writing(p) /\ ~Parses(file)
    BY DEF Init, Offered, Writing, Parses, Idle
  <1>2. offer = NoLogin
    BY <1>1, OfferIs DEF OfferOf
  <1>3. enrolled = NoLogin
    BY <1>1, EnrolledIs DEF EnrolledOf
  <1> QED
    BY <1>2, <1>3 DEF Init, Enr!Init

LEMMA EnrStep ==
  ASSUME NEW p, Procs = {p}, TypeInv, SoloInv, [Next]_vars
  PROVE  [Enr!Next]_(Enr!evars)
  <1>1. offer = OfferOf(p) /\ offer' = OfferOf(p)'
    BY OfferIs
  <1>2. enrolled = EnrolledOf(p) /\ enrolled' = EnrolledOf(p)'
    BY EnrolledIs
  <1>3. CASE UNCHANGED vars
    <2>1. OfferOf(p)' = OfferOf(p) /\ EnrolledOf(p)' = EnrolledOf(p) /\ issued' = issued
      BY <1>3 DEF vars, OfferOf, Offered, EnrolledOf, Writing, Parses
    <2> QED
      BY <1>1, <1>2, <2>1 DEF Enr!evars
  <1>4. CASE Next
    <2>1. p \in Procs /\ Acts(p) /\ Course(run[p])
      BY <1>4 DEF Next, Acts, SoloInv
    <2>2. Maps(p)
      BY <2>1, SoloMaps
    <2>3. CASE OfferOf(p)' = OfferOf(p) /\ EnrolledOf(p)' = EnrolledOf(p) /\ issued' = issued
      BY <1>1, <1>2, <2>3 DEF Enr!evars
    <2>4. ASSUME NEW l \in Logins,
                 EnrolledOf(p) = NoLogin, EnrolledOf(p)' = NoLogin,
                 l \notin issued, issued' = issued \cup {l}, OfferOf(p)' = l
          PROVE  Enr!Offer(l)
      BY <1>1, <1>2, <2>4 DEF Enr!Offer
    <2>5. CASE /\ OfferOf(p) # NoLogin /\ EnrolledOf(p) = NoLogin /\ issued' = issued
               /\ EnrolledOf(p)' = OfferOf(p) /\ OfferOf(p)' = NoLogin
      BY <1>1, <1>2, <2>5 DEF Enr!Next, Enr!Enroll
    <2>6. CASE /\ OfferOf(p) # NoLogin /\ OfferOf(p)' = NoLogin /\ issued' = issued
               /\ EnrolledOf(p)' = EnrolledOf(p)
      BY <1>1, <1>2, <2>6 DEF Enr!Next, Enr!Withdraw
    <2>7. CASE /\ EnrolledOf(p) # NoLogin /\ EnrolledOf(p)' = NoLogin /\ issued' = issued
               /\ OfferOf(p)' = OfferOf(p)
      BY <1>1, <1>2, <2>7 DEF Enr!Next, Enr!Forget
    <2>8. (\E l \in Logins : Enr!Offer(l)) => Enr!Next
      BY DEF Enr!Next
    <2> QED
      BY <2>2, <2>3, <2>4, <2>5, <2>6, <2>7, <2>8 DEF Maps
  <1> QED
    BY <1>3, <1>4

\* A process alone on the machine implements Enrollment, with every fault: one login
\* at a time, taken only when the server has just handed it out and never twice.
THEOREM ImplementsEnrollment ==
  ASSUME NEW p, Procs = {p}
  PROVE  Spec => EnrSpec
  <1>1. Init => Enr!Init
    BY EnrInit
  <1>2. Spec => []TypeInv
    BY InitTypeInv, NextTypeInv, PTL DEF Spec
  <1>3. TypeInv /\ SoloInv /\ [Next]_vars => SoloInv'
    BY NextSolo
  <1>4. Spec => []SoloInv
    BY <1>2, <1>3, InitSolo, PTL DEF Spec
  <1>5. TypeInv /\ SoloInv /\ [Next]_vars => [Enr!Next]_(Enr!evars)
    BY EnrStep
  <1> QED
    BY <1>1, <1>2, <1>4, <1>5, PTL DEF Spec, EnrSpec, Enr!Spec
===============================================================================
