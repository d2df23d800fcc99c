---------------------------- MODULE SUSEConnectProofs ----------------------------
(***************************************************************************)
(* What holds of SUSEConnect, its configuration, docker's file and the     *)
(* uptime log for any commands, servers, products and bounds.              *)
(***************************************************************************)
EXTENDS SUSEConnect, FiniteSetTheorems, TLAPS

\* What a step of a command acts on.
StepSet ==
    [op : {"announce", "readAuth", "removeAuth", "writeAuth", "activate", "labels", "delete",
           "clean", "status", "keepalive", "list", "truncate", "write"}, on : {None}]
    \cup [op : {"store", "setAuth"}, on : Login]
    \cup [op : {"deactivate"}, on : SUBSET Products]

TypeInv == TypeOK /\ todo \in Seq(StepSet)

\* As long as no write of a line is cut short, every line of the log, and every line that
\* is still to be written, is complete.
WholeLine == {l \in Line : l.colon /\ l.len = HoursPerDay}
WholeInv  == ~cut => ~failed /\ log \in Seq(WholeLine) /\ lines \in Seq(WholeLine)

-----------------------------------------------------------------------------
(* The uptime log.                                                          *)
LEMMA HourOK == ASSUME NEW t \in Nat
                PROVE  /\ Day(t) \in Nat /\ Hour(t) \in 0..(HoursPerDay - 1)
  BY UptimeAssumption DEF Day, Hour

LEMMA SortedOK ==
  ASSUME NEW S, IsFiniteSet(S), NEW s \in Sorted(S)
  PROVE  s \in Seq(S)
  BY FS_CardinalityType DEF Sorted

LEMMA LogFinite == ASSUME NEW S, NEW s \in Seq(S)
                   PROVE  IsFiniteSet(ToSet(s)) /\ ToSet(s) \subseteq S
  <1>1. s \in [1..Len(s) -> S]
    OBVIOUS
  <1>2. IsFiniteSet(1..Len(s))
    BY FS_Interval
  <1>3. s \in Surjection(1..Len(s), ToSet(s))
    BY <1>1 DEF Surjection, ToSet
  <1>4. IsFiniteSet(ToSet(s))
    BY <1>2, <1>3, FS_Surjection
  <1> QED
    BY <1>1, <1>4 DEF ToSet

\* The new log is made of lines of the old one, with one bit more.
LEMMA UpdateOK ==
  ASSUME UptimeTypeOK, NEW S \in SUBSET Line, ToSet(log) \subseteq S,
         \A l \in S, h \in 0..(HoursPerDay - 1) : [l EXCEPT !.hours = @ \cup {h}] \in S,
         [day |-> Day(now), colon |-> TRUE, len |-> HoursPerDay, hours |-> {}] \in S
  PROVE  LET new == updateUptimeLog(purgeOldUptimeLog(ToSet(log)))
         IN  IsFiniteSet(new) /\ new \subseteq S
  <1> DEFINE kept == purgeOldUptimeLog(ToSet(log))
             new  == updateUptimeLog(kept)
             line == [Today(kept) EXCEPT !.hours = @ \cup {Hour(now)}]
  <1>1. IsFiniteSet(kept) /\ kept \subseteq ToSet(log)
    BY LogFinite, FS_Subset DEF UptimeTypeOK, purgeOldUptimeLog
  <1>2. Today(kept) \in S
    BY <1>1 DEF Today
  <1>3. Hour(now) \in 0..(HoursPerDay - 1)
    BY HourOK DEF UptimeTypeOK
  <1>4. line \in S
    BY <1>2, <1>3
  <1>5. IsFiniteSet(kept \ {Today(kept)})
    BY <1>1, FS_RemoveElement
  <1>6. new = (kept \ {Today(kept)}) \cup {line}
    BY DEF updateUptimeLog
  <1>7. \A x : IsFiniteSet((kept \ {Today(kept)}) \cup {x})
    BY <1>5, FS_AddElement
  <1>8. IsFiniteSet(new)
    BY <1>6, <1>7
  <1> QED
    BY <1>1, <1>4, <1>6, <1>8

LEMMA TodayIsALine ==
  ASSUME UptimeTypeOK
  PROVE  [day |-> Day(now), colon |-> TRUE, len |-> HoursPerDay, hours |-> {}] \in WholeLine
  <1>1. Day(now) \in Nat
    BY HourOK DEF UptimeTypeOK
  <1> QED
    BY <1>1, UptimeAssumption DEF WholeLine, Line

LEMMA BitIsALine ==
  ASSUME NEW h \in 0..(HoursPerDay - 1)
  PROVE  /\ \A l \in Line : [l EXCEPT !.hours = @ \cup {h}] \in Line
         /\ \A l \in WholeLine : [l EXCEPT !.hours = @ \cup {h}] \in WholeLine
  BY DEF WholeLine, Line

LEMMA CutIsALine == ASSUME NEW l \in Line, NEW c \in Cuts(l) PROVE c \in Line
  <1>1. /\ l.day \in Nat /\ l.hours \subseteq 0..(HoursPerDay - 1) /\ l.colon \in BOOLEAN
        /\ 0 \in 0..HoursPerDay
    BY UptimeAssumption DEF Line
  <1>2. l = [day |-> l.day, colon |-> l.colon, len |-> l.len, hours |-> l.hours]
    BY DEF Line
  <1>3. CASE c = [l EXCEPT !.colon = FALSE, !.len = 0, !.hours = {}]
    <2>1. c = [day |-> l.day, colon |-> FALSE, len |-> 0, hours |-> {}]
      BY <1>2, <1>3
    <2> QED
      BY <1>1, <2>1 DEF Line
  <1>4. ASSUME NEW n \in 0..(HoursPerDay - 1),
               c = [l EXCEPT !.len = n, !.hours = {h \in @ : h < n}]
        PROVE  c \in Line
    <2>1. c = [day |-> l.day, colon |-> l.colon, len |-> n, hours |-> {h \in l.hours : h < n}]
      BY <1>2, <1>4
    <2>2. n \in 0..HoursPerDay
      BY UptimeAssumption
    <2> QED
      BY <1>1, <2>1, <2>2 DEF Line
  <1> QED
    BY <1>3, <1>4 DEF Cuts

LEMMA HoursAreNumbers == ASSUME NEW s \in Seq(Line) PROVE Hours(s) \subseteq Nat
  <1> SUFFICES ASSUME NEW i \in DOMAIN s, NEW h \in s[i].hours
               PROVE  HoursPerDay * s[i].day + h \in Nat
    BY DEF Hours
  <1>1. s[i] \in Line
    OBVIOUS
  <1>2. s[i].day \in Nat /\ h \in 0..(HoursPerDay - 1)
    BY <1>1 DEF Line
  <1> QED
    BY <1>2, UptimeAssumption

LEMMA TrackKeeps ==
  ASSUME UptimeTypeOK, WholeInv, Track
  PROVE  UptimeTypeOK' /\ WholeInv'
  <1> DEFINE kept == purgeOldUptimeLog(ToSet(log))
             new  == updateUptimeLog(kept)
             error == (\E i \in DOMAIN log : ~log[i].colon) \/ Panics(kept)
  <1>1. UNCHANGED <<now, log, ran, last, cut>>
    BY DEF Track
  <1>2. CASE error
    <2>1. cut
      <3>1. SUFFICES ASSUME ~cut PROVE FALSE
        OBVIOUS
      <3>2. log \in Seq(WholeLine)
        BY <3>1 DEF WholeInv
      <3>3. \A i \in DOMAIN log : log[i].colon
        BY <3>2 DEF WholeLine
      <3>4. kept \subseteq WholeLine
        BY <3>2, LogFinite DEF purgeOldUptimeLog
      <3>5. Today(kept).len = HoursPerDay
        BY <3>4 DEF Today, WholeLine
      <3>6. ~Panics(kept)
        BY <3>5, HourOK, UptimeAssumption DEF Panics, UptimeTypeOK
      <3> QED
        BY <1>2, <3>3, <3>6
    <2>2. failed' = TRUE /\ UNCHANGED <<tracker, stamp, lines>>
      BY <1>2 DEF Track
    <2> QED
      BY <1>1, <2>1, <2>2 DEF WholeInv, UptimeTypeOK
  <1>3. CASE ~error
    <2>3. /\ tracker' = "computed" /\ stamp' = now /\ lines' \in Sorted(new)
          /\ failed' = failed
      BY <1>3 DEF Track
    <2>4. IsFiniteSet(new) /\ new \subseteq Line
      <3>1. ToSet(log) \subseteq Line
        BY LogFinite DEF UptimeTypeOK
      <3> QED
        BY <3>1, UpdateOK, TodayIsALine, BitIsALine DEF WholeLine
    <2>5. ASSUME ~cut PROVE new \subseteq WholeLine
      <3>1. ToSet(log) \subseteq WholeLine /\ WholeLine \subseteq Line
        BY <2>5, LogFinite DEF WholeInv, WholeLine
      <3> QED
        BY <3>1, UpdateOK, TodayIsALine, BitIsALine
    <2>6. lines' \in Seq(new)
      BY <2>3, <2>4, SortedOK
    <2> HIDE DEF new
    <2>7. lines' \in Seq(Line) /\ (~cut => lines' \in Seq(WholeLine))
      BY <2>4, <2>5, <2>6
    <2> QED
      BY <1>1, <2>3, <2>7 DEF WholeInv, UptimeTypeOK
  <1> QED
    BY <1>2, <1>3

LEMMA UptimeKeeps ==
  ASSUME UptimeTypeOK, WholeInv,
         TrackerStep \/ Tick \/ KillTracker \/ OpenFails \/ WriteFails \/ LosePower
  PROVE  UptimeTypeOK' /\ WholeInv'
  <1>1. CASE Track
    BY <1>1, TrackKeeps
  <1>2. CASE Truncate
    BY <1>2 DEF Truncate, UptimeTypeOK, WholeInv
  <1>3. CASE WriteLine
    BY <1>3 DEF WriteLine, UptimeTypeOK, WholeInv
  <1>4. CASE EndOfRun
    BY <1>4 DEF EndOfRun, UptimeTypeOK, WholeInv
  <1>5. CASE Tick
    BY <1>5 DEF Tick, trackerVars, UptimeTypeOK, WholeInv
  <1>6. ASSUME NEW f \in Seq(Line), Gone(f), cut' \in BOOLEAN PROVE UptimeTypeOK'
    <2>1. Hours(f) \subseteq Nat
      BY <1>6, HoursAreNumbers
    <2>2. lines' \in Seq(Line) /\ log' \in Seq(Line) /\ tracker' = "idle"
      BY <1>6 DEF Gone
    <2>3. UNCHANGED <<now, stamp, failed>>
      BY <1>6 DEF Gone
    <2>4. ran' \subseteq Nat /\ last' \in Nat
      BY <1>6, <2>1 DEF Gone, UptimeTypeOK
    <2> QED
      BY <1>6, <2>2, <2>3, <2>4 DEF UptimeTypeOK
  <1>7. ASSUME Gone(log), UNCHANGED cut PROVE UptimeTypeOK' /\ WholeInv'
    BY <1>6, <1>7 DEF Gone, UptimeTypeOK, WholeInv
  <1>8. ASSUME tracker = "writes", lines # <<>>, cut' = TRUE,
               NEW c \in Cuts(Head(lines)), Gone(Append(log, c))
        PROVE  UptimeTypeOK' /\ WholeInv'
    <2>1. Head(lines) \in Line
      BY <1>8 DEF UptimeTypeOK
    <2>2. c \in Line
      BY <2>1, CutIsALine
    <2>3. Append(log, c) \in Seq(Line)
      BY <2>2 DEF UptimeTypeOK
    <2> QED
      BY <1>6, <1>8, <2>3 DEF WholeInv
  <1>9. CASE KillTracker \/ OpenFails
    BY <1>7, <1>9 DEF KillTracker, OpenFails
  <1>10. CASE WriteFails \/ LosePower
    BY <1>7, <1>8, <1>10 DEF WriteFails, LosePower
  <1> QED
    BY <1>1, <1>2, <1>3, <1>4, <1>5, <1>9, <1>10 DEF TrackerStep

-----------------------------------------------------------------------------
(* The types.                                                               *)
LEMMA FilesOK ==
  ASSUME TypeOK
  PROVE  /\ NewConfig \in File /\ Load \in File /\ toYAML \in File
         /\ \A c \in Command : ~Refused(c) => Merge(c) \in File
         /\ \A c \in Command : TypeOf(c) \in {"scc", "rmt", "unknown"}
  <1>1. NewConfig \in File
    BY ServersAssumption DEF NewConfig, File
  <1>2. Load \in File
    BY <1>1 DEF Load, TypeOK
  <1>3. cfg \in File
    BY DEF TypeOK
  <1>4. toYAML \in File
    BY <1>3 DEF toYAML, File
  <1>5. ASSUME NEW c \in Command, ~Refused(c) PROVE Merge(c) \in File
    <2>1. c.url \in Urls \cup {""} /\ c.language \in {"", "de"}
      BY <1>5 DEF Refused, Command
    <2>2. Load.url \in Urls /\ Load.language \in {"", "de"} /\ Load.agree \in BOOLEAN
      BY <1>2 DEF File
    <2> DEFINE url      == IF c.url = "" THEN Load.url ELSE c.url
               language == IF c.language = "" THEN Load.language ELSE c.language
               agree    == CASE c.agree = "yes" -> TRUE [] c.agree = "no" -> FALSE
                             [] c.agree = "unset" -> Load.agree
    <2>3. url \in Urls /\ language \in {"", "de"}
      BY <2>1, <2>2
    <2>4. agree \in BOOLEAN
      <3>1. c.agree \in {"unset", "yes", "no"}
        BY DEF Command
      <3> QED
        BY <2>2, <3>1
    <2>5. Merge(c) = [Load EXCEPT !.url = url, !.language = language, !.agree = agree]
      BY DEF Merge
    <2> HIDE DEF url, language, agree
    <2> QED
      BY <1>2, <2>3, <2>4, <2>5 DEF File
  <1>6. \A c \in Command : TypeOf(c) \in {"scc", "rmt", "unknown"}
    BY DEF TypeOf, LoadType
  <1> QED
    BY <1>1, <1>2, <1>4, <1>5, <1>6

\* The steps of a command are steps.
LEMMA DoOK ==
  /\ \A op \in {"announce", "readAuth", "removeAuth", "writeAuth", "activate", "labels", "delete",
                "clean", "status", "keepalive", "list", "truncate", "write"} :
        Just(op) \in Seq(StepSet)
  /\ \A l \in Login : Do("store", l) \in Seq(StepSet) /\ Do("setAuth", l) \in Seq(StepSet)
  /\ \A S \in SUBSET Products : Do("deactivate", S) \in Seq(StepSet)
  /\ <<>> \in Seq(StepSet)
  BY DEF Just, Do, StepSet

LEMMA JoinOK ==
  \A s, t \in Seq(StepSet) : s \o t \in Seq(StepSet)
  OBVIOUS

LEMMA StepsOK == ASSUME NEW c \in Command PROVE Steps(c) \in Seq(StepSet)
  <1>1. Save(c) \in Seq(StepSet)
    BY DoOK, JoinOK DEF Save
  <1>2. Leave \in Seq(StepSet)
    BY DoOK, JoinOK DEF Leave
  <1>3. c.product # "" => {c.product} \in SUBSET Products
    BY DEF Command
  <1>4. CASE c.cmd = "register"
    BY <1>1, <1>4, DoOK, JoinOK DEF Steps
  <1>5. CASE c.cmd = "deregister"
    <2>1. (IF c.product # "" THEN Do("deactivate", {c.product})
           ELSE Do("deactivate", Products \ {Base}) \o Leave) \in Seq(StepSet)
      BY <1>2, <1>3, DoOK, JoinOK
    <2> QED
      BY <1>1, <1>5, <2>1, JoinOK DEF Steps
  <1>6. CASE c.cmd = "cleanup"
    BY <1>1, <1>6, DoOK, JoinOK DEF Steps
  <1>7. CASE c.cmd = "status"
    BY <1>1, <1>7, DoOK, JoinOK DEF Steps
  <1>8. CASE c.cmd = "keepalive"
    BY <1>1, <1>8, DoOK, JoinOK DEF Steps
  <1>9. CASE c.cmd = "list"
    BY <1>9, DoOK DEF Steps
  <1> QED
    BY <1>4, <1>5, <1>6, <1>7, <1>8, <1>9 DEF Command

LEMMA InitOK == Init => TypeInv /\ WholeInv
  <1> SUFFICES ASSUME Init PROVE TypeInv /\ WholeInv
    OBVIOUS
  <1>1. plan \in Plans /\ file \in File \cup {None}
    BY PlansAssumption DEF Init
  <1>2. NewConfig \in File
    BY ServersAssumption DEF NewConfig, File
  <1>3. Load \in File
    BY <1>1, <1>2 DEF Load
  <1>4. cmd \in Commands
    BY CommandsAssumption DEF Init
  <1>5. /\ docker \in {Missing} \cup Logins(Login) /\ seen = Missing
        /\ entered \in Logins({}) /\ spilt \in BOOLEAN
    <2>1. \A S : Empty \in Logins(S) /\ [Empty EXCEPT !.others = Others] \in Logins(S)
      BY DEF Empty, Logins
    <2>2. docker \in {Missing, [Empty EXCEPT !.others = Others]} /\ seen = Missing
          /\ entered = Content(docker) /\ spilt = FALSE
      BY DEF Init, DockerInit
    <2>3. entered \in {Empty, [Empty EXCEPT !.others = Others]}
      BY <2>2 DEF Content, Readable
    <2> QED
      BY <2>1, <2>2, <2>3
  <1>6. UptimeTypeOK /\ WholeInv
    <2>1. \A S : <<>> \in Seq(S)
      OBVIOUS
    <2>2. UptimeInit
      BY DEF Init
    <2>3. failed \in BOOLEAN /\ cut \in BOOLEAN /\ ~failed
      BY <2>2 DEF UptimeInit
    <2> QED
      BY <2>1, <2>2, <2>3 DEF UptimeInit, UptimeTypeOK, WholeInv
  <1>7. 0 \in 0..plan.runs /\ 0 \in 0..plan.faults /\ 0 \in 0..MaxLogins
    BY <1>1, PlansAssumption, CommandsAssumption
  <1>8. installed \subseteq Products
    BY TreeAssumption DEF Init
  <1>9. {unsaved, saved, torn, leftover} \subseteq BOOLEAN
    BY DEF Init
  <1> QED
    BY <1>1, <1>3, <1>4, <1>5, <1>6, <1>7, <1>8, <1>9
    DEF Init, TypeInv, TypeOK, Nothing

\* What a step of a command does to its list of steps.
LEMMA AtOK ==
  ASSUME TypeInv, todo # <<>>
  PROVE  /\ Head(todo) \in StepSet /\ Tail(todo) \in Seq(StepSet) /\ exit = "running"
         /\ \A op \in {"store", "setAuth"} : At(op) => On \in Login
         /\ At("deactivate") => On \in SUBSET Products
  <1>1. Head(todo) \in StepSet /\ Tail(todo) \in Seq(StepSet)
    BY DEF TypeInv
  <1>2. exit = "running"
    BY DEF TypeInv, TypeOK
  <1> QED
    BY <1>1, <1>2 DEF At, On, StepSet

LEMMA ThenOK ==
  ASSUME TypeInv, todo # <<>>, NEW s \in Seq(StepSet), Then(s)
  PROVE  /\ todo' \in Seq(StepSet) /\ UNCHANGED <<cmd, cfg, exit, runs>>
         /\ exit' = "running"
  BY AtOK, JoinOK DEF Then

LEMMA EndOK ==
  ASSUME TypeInv, NEW how \in {"failed", "killed"}, End(how)
  PROVE  /\ todo' = <<>> /\ todo' \in Seq(StepSet) /\ exit' = how
         /\ UNCHANGED <<cmd, cfg, runs>> /\ unsaved' \in BOOLEAN
  <1>1. todo' = <<>> /\ exit' = how /\ UNCHANGED <<cmd, cfg, runs>>
    BY DEF End
  <1>2. unsaved' = (unsaved \/ cmd.url # "")
    BY DEF End
  <1>3. unsaved' \in BOOLEAN
    BY <1>2, Zenon
  <1> QED
    BY <1>1, <1>3, DoOK

LEMMA FaultyOK ==
  ASSUME TypeOK, Faulty
  PROVE  faults' \in 0..plan.faults
  BY PlansAssumption DEF Faulty, TypeOK

LEMMA AnsweredOK ==
  ASSUME TypeOK, Answered \/ Same PROVE server' \in {"scc", "rmt", "unknown"}
  BY DEF TypeOK, Answered, Same

LEMMA UptimeSame ==
  ASSUME UptimeTypeOK, WholeInv, UNCHANGED uptimeVars
  PROVE  UptimeTypeOK' /\ WholeInv'
  BY DEF UptimeTypeOK, WholeInv, uptimeVars, trackerVars

LEMMA HistorySame ==
  ASSUME TypeOK, UNCHANGED <<unsaved, saved, torn, leftover>>
  PROVE  {unsaved, saved, torn, leftover}' \subseteq BOOLEAN
  BY DEF TypeOK

\* The types of the variables the steps of a command change, in groups.
ServersOK ==
    /\ alive \subseteq Login /\ DOMAIN act = alive /\ \A l \in alive : act[l] \subseteq Products
    /\ labelled \subseteq alive /\ issued \in 0..MaxLogins
ControlOK ==
    /\ cmd \in Commands /\ cfg \in File /\ server \in {"scc", "rmt", "unknown"}
    /\ exit \in {"none", "running", "ok", "failed", "killed"} /\ (exit # "running" => todo = <<>>)
    /\ runs \in 0..plan.runs /\ todo \in Seq(StepSet)
SystemOK ==
    /\ plan \in Plans /\ file \in File \cup {None} /\ creds \in Login \cup {None}
    /\ installed \subseteq Products
OutputOK ==
    shown.kind \in {"nothing", "status", "tree", "packages", "groups"} /\ sent \subseteq Nat
DockerOK ==
    /\ docker \in {Missing, Broken, Emptied} \cup Logins(Login)
    /\ seen \in {Missing, Broken, Emptied} \cup Logins(Login)
    /\ entered \in Logins({}) /\ spilt \in BOOLEAN
HistoryOK ==
    /\ faults \in 0..plan.faults /\ admin \in File
    /\ {unsaved, saved, torn, leftover} \subseteq BOOLEAN

LEMMA Groups ==
  TypeInv <=> /\ ServersOK /\ ControlOK /\ SystemOK /\ OutputOK /\ DockerOK /\ HistoryOK
              /\ UptimeTypeOK
  BY DEF TypeInv, TypeOK, ServersOK, ControlOK, SystemOK, OutputOK, DockerOK, HistoryOK

LEMMA GroupsKept ==
  ASSUME ServersOK', ControlOK', SystemOK', OutputOK', DockerOK', HistoryOK', UptimeTypeOK'
  PROVE  TypeInv'
  BY DEF TypeInv, TypeOK, ServersOK, ControlOK, SystemOK, OutputOK, DockerOK, HistoryOK

\* A command goes on with more steps, or ends.
LEMMA ControlKept ==
  ASSUME TypeInv, todo # <<>>, UNCHANGED plan, Answered \/ Same,
         \/ \E s \in Seq(StepSet) : Then(s)
         \/ \E how \in {"failed", "killed"} : End(how)
  PROVE  ControlOK' /\ UNCHANGED cfg
  <1>1. server' \in {"scc", "rmt", "unknown"}
    BY AnsweredOK DEF TypeInv
  <1>2. CASE \E s \in Seq(StepSet) : Then(s)
    BY <1>1, <1>2, ThenOK, Groups DEF ControlOK
  <1>3. CASE \E how \in {"failed", "killed"} : End(how)
    BY <1>1, <1>3, EndOK, Groups DEF ControlOK
  <1> QED
    BY <1>2, <1>3

LEMMA HistoryKept ==
  ASSUME TypeInv, UNCHANGED plan, UNCHANGED <<admin, saved, torn, leftover>>,
         faults' = faults \/ Faulty,
         unsaved' = unsaved \/ \E how \in {"failed", "killed"} : End(how)
  PROVE  HistoryOK'
  <1>1. faults' \in 0..plan'.faults
    BY FaultyOK DEF TypeInv, TypeOK
  <1>2. unsaved' \in BOOLEAN
    BY EndOK DEF TypeInv, TypeOK
  <1> QED
    BY <1>1, <1>2 DEF TypeInv, TypeOK, HistoryOK

LEMMA ContentOK ==
  ASSUME NEW f \in {Missing, Broken, Emptied} \cup Logins(Login)
  PROVE  Content(f) \in Logins(Login)
  BY DEF Content, Readable, Empty, Logins

LEMMA OpenOK ==
  ASSUME TypeInv, OpenForWriting, seen' \in Logins(Login)
  PROVE  DockerOK'
  <1>1. spilt' \in BOOLEAN
    <2>1. spilt' = (spilt \/ docker # seen)
      BY DEF OpenForWriting
    <2> QED
      BY <2>1, Zenon
  <1>2. entered' \in Logins({}) /\ docker' = Emptied
    BY DEF OpenForWriting, TypeInv, TypeOK
  <1> QED
    BY <1>1, <1>2 DEF DockerOK

LEMMA DockerLoginsOK ==
  ASSUME TypeInv, NEW login
  PROVE  /\ login \in Login /\ setupRegistryAuthentication(login) => DockerOK'
         /\ removeRegistryAuthentication(login) => DockerOK'
  <1>1. Content(seen) \in Logins(Login)
    BY ContentOK DEF TypeInv, TypeOK
  <1>2. \A f \in Logins(Login) : [f EXCEPT !.suse = NoLogin] \in Logins(Login)
    BY DEF Logins
  <1>3. ASSUME login \in Login PROVE SetLogin(Content(seen), login) \in Logins(Login)
    BY <1>1, <1>3 DEF SetLogin, Logins
  <1>4. ASSUME Readable(seen) PROVE RemoveLogin(seen) \in Logins(Login)
    BY <1>2, <1>4 DEF RemoveLogin, Readable, TypeInv, TypeOK
  <1>5. ASSUME login \in Login, setupRegistryAuthentication(login) PROVE DockerOK'
    BY <1>3, <1>5, OpenOK DEF setupRegistryAuthentication
  <1>6. ASSUME removeRegistryAuthentication(login) PROVE DockerOK'
    <2>1. CASE Removes(login)
      BY <1>4, <1>6, <2>1, OpenOK DEF removeRegistryAuthentication, Removes
    <2>2. CASE ~Removes(login)
      BY <1>6, <2>2 DEF removeRegistryAuthentication, dockerVars, DockerOK, TypeInv, TypeOK
    <2> QED
      BY <2>1, <2>2
  <1> QED
    BY <1>5, <1>6

\* What a command activates is a product, and what is announced is a login.
LEMMA WantedOK == ASSUME TypeInv PROVE Wanted \subseteq Products
  <1>1. cmd.product \in Products \cup {""}
    BY CommandsAssumption DEF TypeInv, TypeOK, Command
  <1>2. Extensions[Base] \in Seq(Products)
    BY TreeAssumption
  <1>3. ToSet(Extensions[Base]) \subseteq Products
    BY <1>2 DEF ToSet
  <1> QED
    BY <1>1, <1>3, TreeAssumption DEF Wanted

LEMMA NewLoginOK ==
  ASSUME TypeInv, issued < MaxLogins
  PROVE  [n |-> issued + 1, url |-> cfg.url] \in Login /\ issued + 1 \in 0..MaxLogins
  <1>1. cfg.url \in Urls
    BY DEF TypeInv, TypeOK, File
  <1>2. issued + 1 \in 1..MaxLogins
    BY CommandsAssumption DEF TypeInv, TypeOK
  <1> QED
    BY <1>1, <1>2 DEF Login

\* The steps of a command keep the types.
LEMMA StepTyped ==
  ASSUME TypeInv, WholeInv, Step
  PROVE  TypeInv'
  <1>1. CASE announceOrUpdate
    <2>1. ServersOK'
      <3>1. CASE UNCHANGED servers
        BY <1>1, <3>1, Groups DEF announceOrUpdate, ServersOK, servers
      <3>2. CASE ~UNCHANGED servers
        <4> DEFINE login == [n |-> issued + 1, url |-> cfg.url]
        <4>1. /\ issued < MaxLogins
              /\ issued' = issued + 1 /\ alive' = alive \cup {login} /\ labelled' = labelled
              /\ act' = [l \in alive \cup {login} |-> IF l = login THEN {} ELSE act[l]]
          BY <1>1, <3>2 DEF announceOrUpdate
        <4>2. login \in Login /\ issued' \in 0..MaxLogins
          BY <4>1, NewLoginOK
        <4> HIDE DEF login
        <4> QED
          BY <4>1, <4>2, Groups DEF ServersOK
      <3> QED
        BY <3>1, <3>2
    <2>2. ControlOK'
      <3> DEFINE login == [n |-> issued + 1, url |-> cfg.url]
      <3>1. UNCHANGED plan /\ todo # <<>> /\ Answered
        BY <1>1 DEF announceOrUpdate, At, Refuse
      <3>2. Then(<<>>) \/ End("failed") \/ (issued < MaxLogins /\ Then(Do("store", login)))
        BY <1>1 DEF announceOrUpdate, Refuse
      <3>3. issued < MaxLogins => Do("store", login) \in Seq(StepSet)
        BY NewLoginOK, DoOK
      <3> HIDE DEF login
      <3> QED
        BY <3>1, <3>2, <3>3, ControlKept, DoOK
    <2>3. SystemOK'
      BY <1>1, Groups DEF announceOrUpdate, SystemOK, servers, system, output, history, dockerVars, Noted
    <2>4. OutputOK'
      BY <1>1, Groups DEF announceOrUpdate, OutputOK, servers, system, output, history, dockerVars, Noted
    <2>5. DockerOK'
      BY <1>1, Groups DEF announceOrUpdate, DockerOK, servers, system, output, history, dockerVars, Noted
    <2>6. HistoryOK'
      BY <1>1, HistoryKept DEF announceOrUpdate, At, Noted, Refuse, system, history
    <2>7. UptimeTypeOK'
      BY <1>1, UptimeSame DEF announceOrUpdate, TypeInv, TypeOK
    <2> QED
      BY <2>1, <2>2, <2>3, <2>4, <2>5, <2>6, <2>7, GroupsKept
  <1>2. CASE CreateCredentials
    <2>1. ServersOK'
      BY <1>2, Groups DEF CreateCredentials, ServersOK, servers, system, output, history, dockerVars, Noted
    <2>2. ControlOK'
      <3>1. On \in Login
        BY <1>2, AtOK DEF CreateCredentials, At
      <3>2. (IF server = "scc" THEN Just("readAuth") \o Do("setAuth", On) ELSE <<>>) \in Seq(StepSet)
        BY <3>1, DoOK, JoinOK
      <3> QED
        BY <1>2, <3>2, ControlKept DEF CreateCredentials, At
    <2>3. SystemOK'
      <3>1. On \in Login
        BY <1>2, AtOK DEF CreateCredentials, At
      <3> QED
        BY <1>2, <3>1, Groups DEF CreateCredentials, SystemOK
    <2>4. OutputOK'
      BY <1>2, Groups DEF CreateCredentials, OutputOK, servers, system, output, history, dockerVars, Noted
    <2>5. DockerOK'
      BY <1>2, Groups DEF CreateCredentials, DockerOK, servers, system, output, history, dockerVars, Noted
    <2>6. HistoryOK'
      BY <1>2, HistoryKept DEF CreateCredentials, At, Noted, Refuse, system, history
    <2>7. UptimeTypeOK'
      BY <1>2, UptimeSame DEF CreateCredentials, TypeInv, TypeOK
    <2> QED
      BY <2>1, <2>2, <2>3, <2>4, <2>5, <2>6, <2>7, GroupsKept
  <1>3. CASE LoadFrom
    <2>1. ServersOK'
      BY <1>3, Groups DEF LoadFrom, ServersOK, servers, system, output, history, dockerVars, Noted
    <2>2. ControlOK'
      BY <1>3, ControlKept, DoOK DEF LoadFrom, At, Same, Refuse, system
    <2>3. SystemOK'
      BY <1>3, Groups DEF LoadFrom, SystemOK, servers, system, output, history, dockerVars, Noted
    <2>4. OutputOK'
      BY <1>3, Groups DEF LoadFrom, OutputOK, servers, system, output, history, dockerVars, Noted
    <2>5. DockerOK'
      BY <1>3, Groups DEF LoadFrom, ReadDocker, DockerOK
    <2>6. HistoryOK'
      BY <1>3, HistoryKept DEF LoadFrom, At, Noted, Refuse, system, history
    <2>7. UptimeTypeOK'
      BY <1>3, UptimeSame DEF LoadFrom, TypeInv, TypeOK
    <2> QED
      BY <2>1, <2>2, <2>3, <2>4, <2>5, <2>6, <2>7, GroupsKept
  <1>4. CASE SetAuth
    <2>1. ServersOK'
      BY <1>4, Groups DEF SetAuth, ServersOK, servers, system, output, history, dockerVars, Noted
    <2>2. ControlOK'
      BY <1>4, ControlKept, DoOK DEF SetAuth, At, Same, Refuse, system
    <2>3. SystemOK'
      BY <1>4, Groups DEF SetAuth, SystemOK, servers, system, output, history, dockerVars, Noted
    <2>4. OutputOK'
      BY <1>4, Groups DEF SetAuth, OutputOK, servers, system, output, history, dockerVars, Noted
    <2>5. DockerOK'
      <3>1. CASE UNCHANGED dockerVars
        BY <3>1, Groups DEF dockerVars, DockerOK
      <3>2. CASE setupRegistryAuthentication(On)
        BY <1>4, <3>2, AtOK, DockerLoginsOK DEF SetAuth, At
      <3> QED
        BY <1>4, <3>1, <3>2 DEF SetAuth
    <2>6. HistoryOK'
      <3>1. faults' \in 0..plan'.faults
        BY <1>4, FaultyOK, Groups DEF SetAuth, GoesWrong, HistoryOK, TypeInv, TypeOK
      <3>2. leftover' \in BOOLEAN
        BY <1>4, Groups DEF SetAuth, GoesWrong, HistoryOK
      <3> QED
        BY <1>4, <3>1, <3>2, Groups DEF SetAuth, GoesWrong, HistoryOK
    <2>7. UptimeTypeOK'
      BY <1>4, UptimeSame DEF SetAuth, TypeInv, TypeOK
    <2> QED
      BY <2>1, <2>2, <2>3, <2>4, <2>5, <2>6, <2>7, GroupsKept
  <1>5. CASE RemoveAuth
    <2>1. ServersOK'
      BY <1>5, Groups DEF RemoveAuth, ServersOK, servers, system, output, history, dockerVars, Noted
    <2>2. ControlOK'
      BY <1>5, ControlKept, DoOK DEF RemoveAuth, At, Same, Refuse, system
    <2>3. SystemOK'
      BY <1>5, Groups DEF RemoveAuth, SystemOK, servers, system, output, history, dockerVars, Noted
    <2>4. OutputOK'
      BY <1>5, Groups DEF RemoveAuth, OutputOK, servers, system, output, history, dockerVars, Noted
    <2>5. DockerOK'
      <3>1. CASE UNCHANGED dockerVars
        BY <3>1, Groups DEF dockerVars, DockerOK
      <3>2. CASE removeRegistryAuthentication(creds)
        BY <3>2, DockerLoginsOK
      <3> QED
        BY <1>5, <3>1, <3>2 DEF RemoveAuth
    <2>6. HistoryOK'
      <3>1. faults' \in 0..plan'.faults
        BY <1>5, FaultyOK, Groups DEF RemoveAuth, GoesWrong, HistoryOK, TypeInv, TypeOK
      <3>2. leftover' \in BOOLEAN
        BY <1>5, Groups DEF RemoveAuth, GoesWrong, HistoryOK
      <3> QED
        BY <1>5, <3>1, <3>2, Groups DEF RemoveAuth, GoesWrong, HistoryOK
    <2>7. UptimeTypeOK'
      BY <1>5, UptimeSame DEF RemoveAuth, TypeInv, TypeOK
    <2> QED
      BY <2>1, <2>2, <2>3, <2>4, <2>5, <2>6, <2>7, GroupsKept
  <1>6. CASE RegisterProducts
    <2>1. ServersOK'
      <3>1. creds \in alive /\ Wanted \subseteq Products
        BY <1>6, WantedOK DEF RegisterProducts, Valid
      <3>2. \E S \in SUBSET Products : act' = [act EXCEPT ![creds] = @ \cup S]
        <4>1. ASSUME NEW p \in Wanted PROVE {p} \in SUBSET Products
          BY <3>1
        <4> QED
          BY <1>6, <3>1, <4>1 DEF RegisterProducts
      <3>3. UNCHANGED <<alive, labelled, issued>>
        BY <1>6 DEF RegisterProducts
      <3>4. ASSUME NEW S \in SUBSET Products, act' = [act EXCEPT ![creds] = @ \cup S]
            PROVE  DOMAIN act' = alive /\ \A l \in alive : act'[l] \subseteq Products
        BY <3>1, <3>4, Groups DEF ServersOK
      <3> QED
        BY <3>2, <3>3, <3>4, Groups DEF ServersOK
    <2>2. ControlOK'
      BY <1>6, ControlKept, DoOK DEF RegisterProducts, At, Same, Refuse, system
    <2>3. SystemOK'
      BY <1>6, WantedOK, Groups DEF RegisterProducts, SystemOK
    <2>4. OutputOK'
      BY <1>6, Groups DEF RegisterProducts, OutputOK, servers, system, output, history, dockerVars, Noted
    <2>5. DockerOK'
      BY <1>6, Groups DEF RegisterProducts, DockerOK, servers, system, output, history, dockerVars, Noted
    <2>6. HistoryOK'
      BY <1>6, HistoryKept DEF RegisterProducts, At, Noted, Refuse, system, history
    <2>7. UptimeTypeOK'
      BY <1>6, UptimeSame DEF RegisterProducts, TypeInv, TypeOK
    <2> QED
      BY <2>1, <2>2, <2>3, <2>4, <2>5, <2>6, <2>7, GroupsKept
  <1>7. CASE AssignAndCreateLabels
    <2>1. ServersOK'
      BY <1>7, Groups DEF AssignAndCreateLabels, Valid, ServersOK
    <2>2. ControlOK'
      BY <1>7, ControlKept, DoOK DEF AssignAndCreateLabels, At, Same, Refuse, system
    <2>3. SystemOK'
      BY <1>7, Groups DEF AssignAndCreateLabels, system, SystemOK
    <2>4. OutputOK'
      BY <1>7, Groups DEF AssignAndCreateLabels, OutputOK, servers, system, output, history, dockerVars, Noted
    <2>5. DockerOK'
      BY <1>7, Groups DEF AssignAndCreateLabels, DockerOK, servers, system, output, history, dockerVars, Noted
    <2>6. HistoryOK'
      BY <1>7, HistoryKept DEF AssignAndCreateLabels
    <2>7. UptimeTypeOK'
      BY <1>7, UptimeSame DEF AssignAndCreateLabels, TypeInv, TypeOK
    <2> QED
      BY <2>1, <2>2, <2>3, <2>4, <2>5, <2>6, <2>7, GroupsKept
  <1>8. CASE Deactivate
    <2>1. ServersOK'
      <3>1. UNCHANGED <<alive, labelled, issued>>
        BY <1>8 DEF Deactivate
      <3>2. act' = act \/ \E S : act' = [act EXCEPT ![creds] = @ \ S]
        BY <1>8 DEF Deactivate
      <3>3. ASSUME NEW S, act' = [act EXCEPT ![creds] = @ \ S]
            PROVE  DOMAIN act' = alive /\ \A l \in alive : act'[l] \subseteq Products
        BY <3>3, Groups DEF ServersOK
      <3> QED
        BY <3>1, <3>2, <3>3, Groups DEF ServersOK
    <2>2. ControlOK'
      <3>1. Answered \/ Same
        BY <1>8 DEF Deactivate, Refuse
      <3> QED
        BY <1>8, <3>1, ControlKept, DoOK DEF Deactivate, At, Refuse
    <2>3. SystemOK'
      BY <1>8, Groups DEF Deactivate, SystemOK, servers, system, output, history, dockerVars, Noted
    <2>4. OutputOK'
      BY <1>8, Groups DEF Deactivate, OutputOK, servers, system, output, history, dockerVars, Noted
    <2>5. DockerOK'
      BY <1>8, Groups DEF Deactivate, DockerOK, servers, system, output, history, dockerVars, Noted
    <2>6. HistoryOK'
      BY <1>8, HistoryKept DEF Deactivate, At, Noted, Refuse, system, history
    <2>7. UptimeTypeOK'
      BY <1>8, UptimeSame DEF Deactivate, TypeInv, TypeOK
    <2> QED
      BY <2>1, <2>2, <2>3, <2>4, <2>5, <2>6, <2>7, GroupsKept
  <1>9. CASE DeregisterSystem
    <2>1. ServersOK'
      BY <1>9, Groups DEF DeregisterSystem, ServersOK, servers, system, output, history, dockerVars, Noted
    <2>2. ControlOK'
      BY <1>9, ControlKept, DoOK DEF DeregisterSystem, At, Same, Refuse, system
    <2>3. SystemOK'
      BY <1>9, Groups DEF DeregisterSystem, SystemOK, servers, system, output, history, dockerVars, Noted
    <2>4. OutputOK'
      BY <1>9, Groups DEF DeregisterSystem, OutputOK, servers, system, output, history, dockerVars, Noted
    <2>5. DockerOK'
      BY <1>9, Groups DEF DeregisterSystem, DockerOK, servers, system, output, history, dockerVars, Noted
    <2>6. HistoryOK'
      BY <1>9, HistoryKept DEF DeregisterSystem, At, Noted, Refuse, system, history
    <2>7. UptimeTypeOK'
      BY <1>9, UptimeSame DEF DeregisterSystem, TypeInv, TypeOK
    <2> QED
      BY <2>1, <2>2, <2>3, <2>4, <2>5, <2>6, <2>7, GroupsKept
  <1>10. CASE Cleanup
    <2>1. ServersOK'
      BY <1>10, Groups DEF Cleanup, ServersOK, servers, system, output, history, dockerVars, Noted
    <2>2. ControlOK'
      BY <1>10, ControlKept, DoOK DEF Cleanup, At, Same, Refuse, system
    <2>3. SystemOK'
      BY <1>10, Groups DEF Cleanup, SystemOK, servers, system, output, history, dockerVars, Noted
    <2>4. OutputOK'
      BY <1>10, Groups DEF Cleanup, OutputOK, servers, system, output, history, dockerVars, Noted
    <2>5. DockerOK'
      BY <1>10, Groups DEF Cleanup, DockerOK, servers, system, output, history, dockerVars, Noted
    <2>6. HistoryOK'
      <3>1. leftover' \in BOOLEAN
        <4>1. leftover' = (leftover \/ cmd.cmd = "cleanup")
          BY <1>10 DEF Cleanup
        <4> QED
          BY <4>1, Zenon
      <3> QED
        BY <1>10, <3>1, Groups DEF Cleanup, HistoryOK
    <2>7. UptimeTypeOK'
      BY <1>10, UptimeSame DEF Cleanup, TypeInv, TypeOK
    <2> QED
      BY <2>1, <2>2, <2>3, <2>4, <2>5, <2>6, <2>7, GroupsKept
  <1>11. CASE GetProductStatuses
    <2>1. ServersOK'
      BY <1>11, Groups DEF GetProductStatuses, ServersOK, servers, system, output, history, dockerVars, Noted
    <2>2. ControlOK'
      BY <1>11, ControlKept, DoOK DEF GetProductStatuses, At, Same, Refuse, system
    <2>3. SystemOK'
      BY <1>11, Groups DEF GetProductStatuses, SystemOK, servers, system, output, history, dockerVars, Noted
    <2>4. OutputOK'
      <3>1. sent' = sent
        BY <1>11 DEF GetProductStatuses
      <3>2. CASE shown' = shown
        BY <3>1, <3>2, Groups DEF OutputOK
      <3>3. CASE \E r : shown' \in {[kind |-> "status", rows |-> r], [kind |-> "tree", rows |-> r]}
        BY <3>1, <3>3, Groups DEF OutputOK
      <3> QED
        BY <1>11, <3>2, <3>3 DEF GetProductStatuses
    <2>5. DockerOK'
      BY <1>11, Groups DEF GetProductStatuses, DockerOK, servers, system, output, history, dockerVars, Noted
    <2>6. HistoryOK'
      BY <1>11, HistoryKept DEF GetProductStatuses, At, Noted, Refuse, system, history
    <2>7. UptimeTypeOK'
      BY <1>11, UptimeSame DEF GetProductStatuses, TypeInv, TypeOK
    <2> QED
      BY <2>1, <2>2, <2>3, <2>4, <2>5, <2>6, <2>7, GroupsKept
  <1>12. CASE ListExtensions
    <2>1. ServersOK'
      BY <1>12, Groups DEF ListExtensions, ServersOK, servers, system, output, history, dockerVars, Noted
    <2>2. ControlOK'
      BY <1>12, ControlKept, DoOK DEF ListExtensions, At, Same, Refuse, system
    <2>3. SystemOK'
      BY <1>12, Groups DEF ListExtensions, SystemOK, servers, system, output, history, dockerVars, Noted
    <2>4. OutputOK'
      <3>1. sent' = sent
        BY <1>12 DEF ListExtensions
      <3>2. CASE shown' = shown
        BY <3>1, <3>2, Groups DEF OutputOK
      <3>3. CASE \E r : shown' \in {[kind |-> "status", rows |-> r], [kind |-> "tree", rows |-> r]}
        BY <3>1, <3>3, Groups DEF OutputOK
      <3> QED
        BY <1>12, <3>2, <3>3 DEF ListExtensions
    <2>5. DockerOK'
      BY <1>12, Groups DEF ListExtensions, DockerOK, servers, system, output, history, dockerVars, Noted
    <2>6. HistoryOK'
      BY <1>12, HistoryKept DEF ListExtensions, At, Noted, Refuse, system, history
    <2>7. UptimeTypeOK'
      BY <1>12, UptimeSame DEF ListExtensions, TypeInv, TypeOK
    <2> QED
      BY <2>1, <2>2, <2>3, <2>4, <2>5, <2>6, <2>7, GroupsKept
  <1>13. CASE SendKeepAlivePing
    <2>1. ServersOK'
      BY <1>13, Groups DEF SendKeepAlivePing, ServersOK, servers, system, output, history, dockerVars, Noted
    <2>2. ControlOK'
      BY <1>13, ControlKept, DoOK DEF SendKeepAlivePing, At, Same, Refuse, system
    <2>3. SystemOK'
      BY <1>13, Groups DEF SendKeepAlivePing, SystemOK, servers, system, output, history, dockerVars, Noted
    <2>4. OutputOK'
      BY <1>13, HoursAreNumbers, Groups DEF SendKeepAlivePing, OutputOK, UptimeTypeOK
    <2>5. DockerOK'
      BY <1>13, Groups DEF SendKeepAlivePing, DockerOK, servers, system, output, history, dockerVars, Noted
    <2>6. HistoryOK'
      BY <1>13, HistoryKept DEF SendKeepAlivePing, At, Noted, Refuse, system, history
    <2>7. UptimeTypeOK'
      BY <1>13, UptimeSame DEF SendKeepAlivePing, TypeInv, TypeOK
    <2> QED
      BY <2>1, <2>2, <2>3, <2>4, <2>5, <2>6, <2>7, GroupsKept
  <1>14. CASE SaveTruncates
    <2>1. ServersOK'
      BY <1>14, Groups DEF SaveTruncates, ServersOK, servers, system, output, history, dockerVars, Noted
    <2>2. ControlOK'
      BY <1>14, ControlKept, DoOK DEF SaveTruncates, At, Same, Refuse, system
    <2>3. SystemOK'
      BY <1>14, FilesOK, Groups DEF SaveTruncates, SystemOK, system, TypeInv
    <2>4. OutputOK'
      BY <1>14, Groups DEF SaveTruncates, OutputOK, servers, system, output, history, dockerVars, Noted
    <2>5. DockerOK'
      BY <1>14, Groups DEF SaveTruncates, DockerOK, servers, system, output, history, dockerVars, Noted
    <2>6. HistoryOK'
      BY <1>14, HistoryKept DEF SaveTruncates, At, Noted, Refuse, system, history
    <2>7. UptimeTypeOK'
      BY <1>14, UptimeSame DEF SaveTruncates, TypeInv, TypeOK
    <2> QED
      BY <2>1, <2>2, <2>3, <2>4, <2>5, <2>6, <2>7, GroupsKept
  <1>15. CASE SaveWrites
    <2>1. ServersOK'
      BY <1>15, Groups DEF SaveWrites, ServersOK, servers, system, output, history, dockerVars, Noted
    <2>2. ControlOK'
      BY <1>15, ControlKept, DoOK DEF SaveWrites, At, Same, Refuse, system
    <2>3. SystemOK'
      BY <1>15, FilesOK, Groups DEF SaveWrites, SystemOK, system, TypeInv
    <2>4. OutputOK'
      BY <1>15, Groups DEF SaveWrites, OutputOK, servers, system, output, history, dockerVars, Noted
    <2>5. DockerOK'
      BY <1>15, Groups DEF SaveWrites, DockerOK, servers, system, output, history, dockerVars, Noted
    <2>6. HistoryOK'
      BY <1>15, Groups DEF SaveWrites, HistoryOK, system
    <2>7. UptimeTypeOK'
      BY <1>15, UptimeSame DEF SaveWrites, TypeInv, TypeOK
    <2> QED
      BY <2>1, <2>2, <2>3, <2>4, <2>5, <2>6, <2>7, GroupsKept
  <1>16. CASE Finish
    <2>1. ServersOK'
      BY <1>16, Groups DEF Finish, ServersOK, servers, system, output, history, dockerVars, Noted
    <2>2. ControlOK'
      BY <1>16, Groups DEF Finish, ControlOK
    <2>3. SystemOK'
      BY <1>16, Groups DEF Finish, SystemOK, servers, system, output, history, dockerVars, Noted
    <2>4. OutputOK'
      BY <1>16, Groups DEF Finish, OutputOK, servers, system, output, history, dockerVars, Noted
    <2>5. DockerOK'
      BY <1>16, Groups DEF Finish, DockerOK, servers, system, output, history, dockerVars, Noted
    <2>6. HistoryOK'
      BY <1>16, Groups DEF Finish, HistoryOK, history
    <2>7. UptimeTypeOK'
      BY <1>16, UptimeSame DEF Finish, TypeInv, TypeOK
    <2> QED
      BY <2>1, <2>2, <2>3, <2>4, <2>5, <2>6, <2>7, GroupsKept
  <1>17. CASE WriteAuth
    <2>1. ServersOK'
      BY <1>17, Groups DEF WriteAuth, ServersOK, servers
    <2>2. ControlOK'
      BY <1>17, ControlKept, DoOK DEF WriteAuth, At, Same, system
    <2>3. SystemOK'
      BY <1>17, Groups DEF WriteAuth, SystemOK, system
    <2>4. OutputOK'
      BY <1>17, Groups DEF WriteAuth, OutputOK, output
    <2>5. DockerOK'
      BY <1>17, Groups DEF WriteAuth, WriteFile, WriteFileFails, DockerOK
    <2>6. HistoryOK'
      <3>1. faults' \in 0..plan'.faults
        BY <1>17, FaultyOK, Groups DEF WriteAuth, GoesWrong, HistoryOK, TypeInv, TypeOK
      <3>2. leftover' \in BOOLEAN
        BY <1>17, Groups DEF WriteAuth, GoesWrong, HistoryOK
      <3> QED
        BY <1>17, <3>1, <3>2, Groups DEF WriteAuth, HistoryOK
    <2>7. UptimeTypeOK'
      BY <1>17, UptimeSame DEF WriteAuth, TypeInv, TypeOK
    <2> QED
      BY <2>1, <2>2, <2>3, <2>4, <2>5, <2>6, <2>7, GroupsKept
  <1> QED
    BY <1>1, <1>2, <1>3, <1>4, <1>5, <1>6, <1>7, <1>8, <1>9, <1>10, <1>11, <1>12, <1>13, <1>14, <1>15, <1>16, <1>17
    DEF Step

\* So does the start of a command, and whatever may end it.
LEMMA StartTyped ==
  ASSUME TypeInv, NEW c \in plan.commands, Start(c)
  PROVE  TypeInv'
  <1>1. c \in Commands /\ c \in Command
    BY PlansAssumption, CommandsAssumption, Groups DEF SystemOK
  <1>2. ServersOK'
    BY Groups DEF Start, ServersOK, servers
  <1>3. ControlOK'
    <2>1. runs' \in 0..plan'.runs /\ plan' = plan
      BY Groups, PlansAssumption DEF Start, ControlOK, SystemOK
    <2>2. CASE Refused(c)
      BY <1>1, <2>1, <2>2, Groups, DoOK DEF Start, ControlOK
    <2>3. CASE ~Refused(c)
      BY <1>1, <2>1, <2>3, StepsOK, FilesOK DEF Start, ControlOK, TypeInv
    <2> QED
      BY <2>2, <2>3
  <1>4. SystemOK'
    BY Groups DEF Start, SystemOK, system
  <1>5. OutputOK'
    BY DEF Start, OutputOK, Nothing
  <1>6. DockerOK'
    BY Groups DEF Start, DockerOK
  <1>7. HistoryOK'
    BY Groups DEF Start, HistoryOK, history
  <1>8. UptimeTypeOK'
    BY Groups DEF Start, UptimeTypeOK, uptimeVars, trackerVars
  <1> QED
    BY <1>2, <1>3, <1>4, <1>5, <1>6, <1>7, <1>8, GroupsKept

LEMMA StopTyped ==
  ASSUME TypeInv, Fail \/ Kill
  PROVE  TypeInv'
  <1>1. /\ Faulty /\ Same /\ torn' = (torn \/ At("write"))
        /\ UNCHANGED <<plan, servers, file, system, output, admin, saved, leftover, docker,
                       seen, entered, uptimeVars>>
        /\ spilt' = spilt \/ spilt' = (spilt \/ At("writeAuth"))
    BY DEF Fail, Kill, dockerVars
  <1>2. PICK how \in {"failed", "killed"} : End(how)
    BY DEF Fail, Kill
  <1>3. ControlOK'
    BY <1>1, <1>2, EndOK, Groups DEF ControlOK, Same
  <1>4. HistoryOK'
    <2>1. torn' \in BOOLEAN
      BY <1>1, Zenon
    <2>2. unsaved' \in BOOLEAN
      BY <1>2, EndOK
    <2>3. faults' \in 0..plan'.faults
      BY <1>1, FaultyOK DEF TypeInv
    <2> QED
      BY <1>1, <2>1, <2>2, <2>3, Groups DEF HistoryOK
  <1>5. ServersOK' /\ SystemOK' /\ OutputOK'
    BY <1>1, Groups DEF ServersOK, SystemOK, OutputOK, servers, system, output
  <1>7. DockerOK'
    <2>1. spilt \in BOOLEAN
      BY Groups DEF DockerOK
    <2>2. spilt' \in BOOLEAN
      BY <1>1, <2>1, Zenon
    <2> QED
      BY <1>1, <2>2, Groups DEF DockerOK
  <1>6. UptimeTypeOK'
    BY <1>1, Groups DEF UptimeTypeOK, uptimeVars, trackerVars
  <1> QED
    BY <1>3, <1>4, <1>5, <1>6, <1>7, GroupsKept

\* And whatever happens beside the command.
Besides ==
    Tracker \/ TrackerEnds \/ TimePasses \/ KilledTracker \/ TrackerFails \/ PowerFails

LEMMA BesidesTyped ==
  ASSUME TypeInv, WholeInv, Besides
  PROVE  TypeInv' /\ WholeInv'
  <1>1. Beside /\ UNCHANGED <<admin, unsaved, saved, torn, leftover>>
    BY DEF Besides, Tracker, TrackerEnds, TimePasses, KilledTracker, TrackerFails, PowerFails, history
  <1>2. TrackerStep \/ Tick \/ KillTracker \/ OpenFails \/ WriteFails \/ LosePower
    BY DEF Besides, Tracker, TrackerEnds, TimePasses, KilledTracker, TrackerFails, PowerFails
  <1>3. UptimeTypeOK' /\ WholeInv'
    BY <1>2, UptimeKeeps, Groups
  <1>4. faults' = faults \/ Faulty
    BY DEF Besides, Tracker, TrackerEnds, TimePasses, KilledTracker, TrackerFails, PowerFails, history
  <1>5. HistoryOK'
    <2>1. faults' \in 0..plan'.faults
      BY <1>1, <1>4, FaultyOK, Groups DEF Beside, TypeInv, HistoryOK
    <2> QED
      BY <1>1, <2>1, Groups DEF HistoryOK
  <1>6. ServersOK' /\ SystemOK' /\ OutputOK' /\ DockerOK'
    BY <1>1, Groups
    DEF Beside, ServersOK, SystemOK, OutputOK, DockerOK, servers, system, output, dockerVars
  <1>7. ControlOK'
    BY <1>1, Groups DEF Beside, ControlOK, process
  <1> QED
    BY <1>3, <1>5, <1>6, <1>7, GroupsKept

LEMMA UserTyped ==
  ASSUME TypeInv, UserWithDocker
  PROVE  TypeInv'
  <1>1. UNCHANGED <<plan, servers, file, system, process, todo, output, history, uptimeVars>>
    BY DEF UserWithDocker
  <1>2. DockerOK'
    <2>1. Content(docker) \in Logins(Login) /\ entered \in Logins({})
      BY ContentOK, Groups DEF DockerOK
    <2>2. \A S : \A f \in Logins(S) : /\ [f EXCEPT !.suse = Manual] \in Logins(S)
                                      /\ \A r \in Others : [f EXCEPT !.others = @ \cup {r}] \in Logins(S)
      BY DEF Logins
    <2>3. ASSUME UserLogsIn PROVE spilt' \in BOOLEAN
      <3>1. spilt' = (spilt \/ docker = Emptied)
        BY <2>3 DEF UserLogsIn
      <3> QED
        BY <3>1, Zenon
    <2>4. CASE UserLogsIn
      <3>1. docker' \in Logins(Login) /\ entered' \in Logins({})
        <4>1. \/ \E r \in Others : /\ docker' = [Content(docker) EXCEPT !.others = @ \cup {r}]
                                   /\ entered' = [entered EXCEPT !.others = @ \cup {r}]
              \/ /\ docker' = [Content(docker) EXCEPT !.suse = Manual]
                 /\ entered' = [entered EXCEPT !.suse = Manual]
          BY <2>4 DEF UserLogsIn
        <4>2. ASSUME NEW S, NEW f \in Logins(S), NEW r \in Others
              PROVE  [f EXCEPT !.others = @ \cup {r}] \in Logins(S)
          BY <2>2
        <4>3. ASSUME NEW S, NEW f \in Logins(S) PROVE [f EXCEPT !.suse = Manual] \in Logins(S)
          BY <2>2
        <4>4. CASE docker' = [Content(docker) EXCEPT !.suse = Manual] /\ entered' = [entered EXCEPT !.suse = Manual]
          BY ONLY <2>1, <4>3, <4>4
        <4>5. ASSUME NEW r \in Others, docker' = [Content(docker) EXCEPT !.others = @ \cup {r}],
                     entered' = [entered EXCEPT !.others = @ \cup {r}]
              PROVE  docker' \in Logins(Login) /\ entered' \in Logins({})
          <5>1. [Content(docker) EXCEPT !.others = @ \cup {r}] \in Logins(Login)
            BY <2>1, <4>2
          <5>2. [entered EXCEPT !.others = @ \cup {r}] \in Logins({})
            BY <2>1, <4>2
          <5> QED
            BY <4>5, <5>1, <5>2
        <4> QED
          BY <4>1, <4>4, <4>5
      <3> QED
        BY <2>3, <2>4, <3>1, Groups DEF UserLogsIn, DockerOK
    <2>5. CASE UserBreaksFile
      BY <2>5, Groups DEF UserBreaksFile, DockerOK, Empty, Logins
    <2> QED
      BY <2>4, <2>5 DEF UserWithDocker
  <1>3. ServersOK' /\ ControlOK' /\ SystemOK' /\ OutputOK' /\ HistoryOK'
    BY <1>1, Groups DEF ServersOK, ControlOK, SystemOK, OutputOK, HistoryOK,
                        servers, system, process, output, history
  <1>4. UptimeTypeOK'
    BY <1>1, Groups DEF UptimeTypeOK, uptimeVars, trackerVars
  <1> QED
    BY <1>2, <1>3, <1>4, GroupsKept

LEMMA SearchTyped ==
  ASSUME TypeInv, SearchPackages
  PROVE  TypeInv'
  <1>1. UNCHANGED <<plan, servers, file, system, process, todo, sent, history, dockerVars,
                    uptimeVars>>
    BY DEF SearchPackages
  <1>2. OutputOK'
    <2>1. shown'.kind \in {"groups", "packages"}
      BY DEF SearchPackages
    <2> QED
      BY <1>1, <2>1, Groups DEF OutputOK
  <1>3. ServersOK' /\ ControlOK' /\ SystemOK' /\ DockerOK' /\ HistoryOK'
    BY <1>1, Groups DEF ServersOK, ControlOK, SystemOK, DockerOK, HistoryOK,
                        servers, system, process, history, dockerVars
  <1>4. UptimeTypeOK'
    BY <1>1, Groups DEF UptimeTypeOK, uptimeVars, trackerVars
  <1> QED
    BY <1>2, <1>3, <1>4, GroupsKept

LEMMA NothingTyped ==
  ASSUME TypeInv, UNCHANGED vars
  PROVE  TypeInv'
  BY DEF vars, servers, system, process, output, history, dockerVars, uptimeVars, trackerVars,
         TypeInv, TypeOK, UptimeTypeOK

LEMMA UptimeUntouched ==
  ASSUME \/ \E c \in plan.commands : Start(c)
         \/ Step \/ Fail \/ Kill \/ UserWithDocker \/ SearchPackages \/ UNCHANGED vars
  PROVE  UNCHANGED uptimeVars
  BY DEF Start, Step, announceOrUpdate, CreateCredentials, LoadFrom, SetAuth, RemoveAuth,
         WriteAuth, RegisterProducts, AssignAndCreateLabels, Deactivate, DeregisterSystem, Cleanup,
         GetProductStatuses, ListExtensions, SendKeepAlivePing, SaveTruncates, SaveWrites,
         Finish, Fail, Kill, UserWithDocker, SearchPackages, vars

LEMMA TypesKept ==
  ASSUME TypeInv, WholeInv, [Next]_vars
  PROVE  TypeInv' /\ WholeInv'
  <1>1. CASE Besides
    BY <1>1, BesidesTyped
  <1>2. CASE ~Besides
    <2>1. \/ \E c \in plan.commands : Start(c)
          \/ Step \/ Fail \/ Kill \/ UserWithDocker \/ SearchPackages \/ UNCHANGED vars
      BY <1>2 DEF Next, Besides
    <2>2. WholeInv'
      BY <2>1, UptimeUntouched, UptimeSame, Groups
    <2>3. TypeInv'
      BY <2>1, StartTyped, StepTyped, StopTyped, UserTyped, SearchTyped, NothingTyped
    <2> QED
      BY <2>2, <2>3
  <1> QED
    BY <1>1, <1>2

\* Every variable of SUSEConnect, its docker file and the uptime log keeps its type.
THEOREM TypeCorrect == Spec => []TypeOK
  <1>1. TypeInv /\ WholeInv /\ [Next]_vars => (TypeInv /\ WholeInv)'
    BY TypesKept
  <1>2. TypeInv => TypeOK
    BY DEF TypeInv
  <1> QED
    BY InitOK, <1>1, <1>2, PTL DEF Spec

\* However often the tracker is killed, finds no file to open or no room for a line, and
\* whatever SUSEConnect does meanwhile, a run of it fails over the log only after the
\* write of a line was cut short, by a power failure or a full disk: the lines of the log
\* are complete until then (readUptimeLogFile, writeUptimeLogsFile).
THEOREM KillLeavesWholeLines == Spec => []TrackerSurvivesKill
  <1>1. TypeInv /\ WholeInv /\ [Next]_vars => (TypeInv /\ WholeInv)'
    BY TypesKept
  <1>2. WholeInv => TrackerSurvivesKill
    BY DEF WholeInv, TrackerSurvivesKill
  <1> QED
    BY InitOK, <1>1, <1>2, PTL DEF Spec

-----------------------------------------------------------------------------
(* The docker configuration.                                                *)
\* While SUSEConnect has docker's file open, the file is empty, and the command holds the
\* logins of the user. At any other time the file has them, unless a write went wrong.
CalmStep == {s \in StepSet : s.op # "writeAuth"}
DockerInv ==
    /\ todo # <<>> => Tail(todo) \in Seq(CalmStep)
    /\ ~spilt => IF At("writeAuth") THEN docker = Emptied /\ Readable(seen) /\ Keeps(seen)
                 ELSE docker # Emptied /\ Keeps(docker)

LEMMA CalmSteps ==
  /\ \A op \in {"announce", "readAuth", "removeAuth", "activate", "labels", "delete",
                "clean", "status", "keepalive", "list", "truncate", "write"} :
        Just(op) \in Seq(CalmStep)
  /\ \A l \in Login : Do("store", l) \in Seq(CalmStep) /\ Do("setAuth", l) \in Seq(CalmStep)
  /\ \A S \in SUBSET Products : Do("deactivate", S) \in Seq(CalmStep)
  /\ <<>> \in Seq(CalmStep)
  BY DEF Just, Do, StepSet, CalmStep

LEMMA CalmJoin ==
  \A s, t \in Seq(CalmStep) : s \o t \in Seq(CalmStep)
  OBVIOUS

LEMMA CalmCommand == ASSUME NEW c \in Command PROVE Steps(c) \in Seq(CalmStep)
  <1>1. Save(c) \in Seq(CalmStep)
    BY CalmSteps, CalmJoin DEF Save
  <1>2. Leave \in Seq(CalmStep)
    BY CalmSteps, CalmJoin DEF Leave
  <1>3. c.product # "" => {c.product} \in SUBSET Products
    BY DEF Command
  <1>4. CASE c.cmd = "register"
    BY <1>1, <1>4, CalmSteps, CalmJoin DEF Steps
  <1>5. CASE c.cmd = "deregister"
    <2>1. (IF c.product # "" THEN Do("deactivate", {c.product})
           ELSE Do("deactivate", Products \ {Base}) \o Leave) \in Seq(CalmStep)
      BY <1>2, <1>3, CalmSteps, CalmJoin
    <2> QED
      BY <1>1, <1>5, <2>1, CalmJoin DEF Steps
  <1>6. CASE c.cmd \in {"cleanup", "status", "keepalive", "list"}
    BY <1>1, <1>6, CalmSteps, CalmJoin DEF Steps
  <1> QED
    BY <1>4, <1>5, <1>6 DEF Command

\* After steps none of which writes the file, the next one does not.
LEMMA CalmNext ==
  ASSUME NEW s \in Seq(CalmStep)
  PROVE  s # <<>> => Head(s).op # "writeAuth" /\ Tail(s) \in Seq(CalmStep)
  <1> SUFFICES ASSUME s # <<>> PROVE Head(s).op # "writeAuth" /\ Tail(s) \in Seq(CalmStep)
    OBVIOUS
  <1>1. Head(s) \in CalmStep /\ Tail(s) \in Seq(CalmStep)
    OBVIOUS
  <1> QED
    BY <1>1 DEF CalmStep

\* What leaves the logins alone: an action that neither opens nor writes the file.
LEMMA DockerRests ==
  ASSUME DockerInv, ~At("writeAuth"), todo' \in Seq(CalmStep), UNCHANGED <<docker, entered, spilt>>
  PROVE  DockerInv'
  <1>1. ~At("writeAuth")' /\ (todo' # <<>> => Tail(todo') \in Seq(CalmStep))
    BY CalmNext DEF At
  <1>2. Keeps(docker)' <=> Keeps(docker)
    BY DEF Keeps, Content, Readable
  <1> QED
    BY <1>1, <1>2 DEF DockerInv

LEMMA DockerIdles ==
  ASSUME DockerInv, UNCHANGED <<todo, dockerVars>>
  PROVE  DockerInv'
  BY DEF DockerInv, dockerVars, At, Keeps, Content, Readable

LEMMA DockerGoesOn ==
  ASSUME TypeInv, DockerInv, todo # <<>>, ~At("writeAuth"), UNCHANGED <<docker, entered, spilt>>,
         NEW s \in Seq(CalmStep), Then(s)
  PROVE  DockerInv'
  <1>1. todo' \in Seq(CalmStep)
    BY CalmJoin DEF Then, DockerInv
  <1> QED
    BY <1>1, DockerRests

\* The command stops: while it has the file open, that is a write that went wrong.
LEMMA DockerStops ==
  ASSUME TypeInv, DockerInv, todo' = <<>>, UNCHANGED <<docker, entered>>,
         (spilt' = spilt /\ ~At("writeAuth")) \/ spilt' = (spilt \/ At("writeAuth"))
  PROVE  DockerInv'
  <1>1. CASE At("writeAuth")
    BY <1>1 DEF DockerInv
  <1>2. CASE ~At("writeAuth")
    <2>1. ~At("writeAuth")'
      BY DEF At
    <2>4. spilt \in BOOLEAN
      BY DEF TypeInv, TypeOK
    <2>5. spilt' <=> spilt
      BY <1>2, <2>4
    <2>2. Keeps(docker)' <=> Keeps(docker)
      BY DEF Keeps, Content, Readable
    <2> QED
      BY <1>2, <2>1, <2>2, <2>5 DEF DockerInv
  <1> QED
    BY <1>1, <1>2

\* The file is opened, and what is to be written holds the logins that were read.
LEMMA DockerOpens ==
  ASSUME TypeInv, DockerInv, todo # <<>>, ~At("writeAuth"),
         OpenForWriting, Then(Just("writeAuth")), seen' \in Logins(Login),
         seen'.others = Content(seen).others, Content(seen).suse = Manual => seen'.suse = Manual
  PROVE  DockerInv'
  <1>1. todo' = Just("writeAuth") \o Tail(todo) /\ Tail(todo) \in Seq(CalmStep)
    BY DEF Then, DockerInv
  <1>2. Just("writeAuth") = <<[op |-> "writeAuth", on |-> None]>>
    BY DEF Just, Do
  <1>3. todo' # <<>> /\ Head(todo').op = "writeAuth" /\ Tail(todo') = Tail(todo)
    <2>1. \A S : \A x, t : t \in Seq(S) => Head(<<x>> \o t) = x /\ Tail(<<x>> \o t) = t /\ <<x>> \o t # <<>>
      OBVIOUS
    <2> QED
      BY <1>1, <1>2, <2>1
  <1>4. At("writeAuth")' /\ docker' = Emptied /\ entered' = entered
    BY <1>3 DEF At, OpenForWriting
  <1>5. ~spilt' => ~spilt /\ docker = seen
    BY DEF OpenForWriting
  <1>6. Readable(seen')
    BY ValuesAssumption DEF Readable
  <1>7. Keeps(seen) => Keeps(seen)'
    <2>1. Content(seen') = seen'
      BY <1>6 DEF Content
    <2> QED
      BY <1>4, <2>1 DEF Keeps, Content, Readable
  <1>8. ~spilt' => Keeps(seen)'
    BY <1>5, <1>7 DEF DockerInv
  <1>9. Readable(seen)'
    BY <1>6 DEF Readable
  <1> QED
    BY <1>1, <1>3, <1>4, <1>8, <1>9 DEF DockerInv

LEMMA DockerSets ==
  ASSUME TypeInv, DockerInv, SetAuth
  PROVE  DockerInv'
  <1>1. todo # <<>> /\ ~At("writeAuth") /\ On \in Login
    BY AtOK DEF SetAuth, At
  <1>2. CASE Then(<<>>) /\ UNCHANGED dockerVars
    BY <1>1, <1>2, CalmSteps, DockerGoesOn DEF dockerVars
  <1>3. CASE setupRegistryAuthentication(On) /\ Then(Just("writeAuth"))
    <2>1. Content(seen) \in Logins(Login)
      BY ContentOK DEF TypeInv, TypeOK
    <2>2. seen' = SetLogin(Content(seen), On) /\ OpenForWriting
      BY <1>3 DEF setupRegistryAuthentication
    <2>3. /\ seen' \in Logins(Login) /\ seen'.others = Content(seen).others
          /\ Content(seen).suse = Manual => seen'.suse = Manual
      BY <1>1, <2>1, <2>2, ValuesAssumption DEF SetLogin, Logins
    <2> QED
      BY <1>1, <1>3, <2>2, <2>3, DockerOpens
  <1> QED
    BY <1>2, <1>3 DEF SetAuth

LEMMA DockerRemoves ==
  ASSUME TypeInv, DockerInv, RemoveAuth
  PROVE  DockerInv'
  <1>1. todo # <<>> /\ ~At("writeAuth") /\ creds \in Login \cup {None}
    BY DEF RemoveAuth, At, TypeInv, TypeOK
  <1>2. CASE UNCHANGED dockerVars /\ Then(<<>>)
    BY <1>1, <1>2, CalmSteps, DockerGoesOn DEF dockerVars
  <1>3. CASE removeRegistryAuthentication(creds) /\ Removes(creds) /\ Then(Just("writeAuth"))
    <2>1. seen \in Logins(Login) /\ Content(seen) = seen /\ seen.suse = creds
      BY <1>3 DEF Removes, Ours, Readable, Content, TypeInv, TypeOK
    <2>2. seen' = [seen EXCEPT !.suse = NoLogin] /\ OpenForWriting
      BY <1>3 DEF removeRegistryAuthentication, RemoveLogin
    <2>3. /\ seen' \in Logins(Login) /\ seen'.others = Content(seen).others
          /\ Content(seen).suse # Manual
      BY <1>1, <2>1, <2>2, ValuesAssumption DEF Logins
    <2> QED
      BY <1>1, <1>3, <2>2, <2>3, DockerOpens
  <1> QED
    BY <1>2, <1>3 DEF RemoveAuth, removeRegistryAuthentication

LEMMA DockerWrites ==
  ASSUME TypeInv, DockerInv, WriteAuth
  PROVE  DockerInv'
  <1>1. todo # <<>> /\ At("writeAuth") /\ Then(<<>>)
    BY DEF WriteAuth, At
  <1>2. todo' \in Seq(CalmStep)
    BY <1>1, CalmSteps, CalmJoin DEF Then, DockerInv
  <1>3. ~At("writeAuth")' /\ (todo' # <<>> => Tail(todo') \in Seq(CalmStep))
    BY <1>2, CalmNext DEF At
  <1>4. ~spilt' => docker' = seen /\ docker = Emptied /\ Readable(seen) /\ Keeps(seen) /\ entered' = entered
    BY <1>1 DEF WriteAuth, WriteFile, WriteFileFails, DockerInv
  <1>5. ~spilt' => docker' # Emptied /\ Keeps(docker)'
    BY <1>4 DEF Readable, Keeps, Content
  <1> QED
    BY <1>3, <1>5 DEF DockerInv

LEMMA DockerShared ==
  ASSUME TypeInv, DockerInv, UserWithDocker
  PROVE  DockerInv'
  <1>1. todo' = todo
    BY DEF UserWithDocker
  <1>2. At("writeAuth")' <=> At("writeAuth")
    BY <1>1 DEF At
  <1>3. CASE UserLogsIn
    <2>1. ~spilt' => ~spilt /\ docker # Emptied
      BY <1>3 DEF UserLogsIn
    <2>2. ~spilt' => ~At("writeAuth") /\ Keeps(docker)
      BY <2>1 DEF DockerInv
    <2>3. Content(docker) \in Logins(Login) /\ entered \in Logins({})
      BY ContentOK DEF TypeInv, TypeOK
    <2>4. docker' \in Logins(Login) /\ (Keeps(docker) => Keeps(docker)')
      <3>1. \A f \in Logins(Login) : f \notin {Missing, Broken, Emptied}
        BY ValuesAssumption
      <3>2. CASE docker' = [Content(docker) EXCEPT !.suse = Manual] /\ entered' = [entered EXCEPT !.suse = Manual]
        <4>1. /\ docker' \in Logins(Login) /\ docker'.suse = Manual /\ docker'.others = Content(docker).others
              /\ entered'.suse = Manual /\ entered'.others = entered.others
          BY <2>3, <3>2 DEF Logins
        <4>2. Content(docker)' = docker'
          BY <3>1, <4>1 DEF Content, Readable
        <4> QED
          BY <4>1, <4>2 DEF Keeps
      <3>3. ASSUME NEW r \in Others, docker' = [Content(docker) EXCEPT !.others = @ \cup {r}],
                   entered' = [entered EXCEPT !.others = @ \cup {r}]
            PROVE  docker' \in Logins(Login) /\ (Keeps(docker) => Keeps(docker)')
        <4>1. /\ docker' \in Logins(Login) /\ docker'.suse = Content(docker).suse
              /\ docker'.others = Content(docker).others \cup {r}
              /\ entered'.suse = entered.suse /\ entered'.others = entered.others \cup {r}
          BY <2>3, <3>3 DEF Logins
        <4>2. Content(docker)' = docker'
          BY <3>1, <4>1 DEF Content, Readable
        <4> QED
          BY <4>1, <4>2 DEF Keeps
      <3> QED
        BY <1>3, <3>2, <3>3 DEF UserLogsIn
    <2>5. docker' # Emptied
      BY <2>4, ValuesAssumption
    <2> QED
      BY <1>1, <1>2, <2>2, <2>4, <2>5 DEF DockerInv
  <1>4. CASE exit # "running" /\ UserBreaksFile
    <2>1. ~At("writeAuth")
      BY <1>4 DEF At, TypeInv, TypeOK
    <2>2. docker' = Broken /\ entered' = Empty
      BY <1>4 DEF UserBreaksFile
    <2>3. Keeps(docker)'
      BY <2>2, ValuesAssumption DEF Keeps, Empty
    <2>4. docker' # Emptied
      BY <2>2, ValuesAssumption
    <2> QED
      BY <1>1, <1>2, <2>1, <2>3, <2>4 DEF DockerInv
  <1> QED
    BY <1>3, <1>4 DEF UserWithDocker

\* The other steps of a command.
LEMMA DockerPasses ==
  ASSUME TypeInv, DockerInv, Step, ~SetAuth, ~RemoveAuth, ~WriteAuth
  PROVE  DockerInv'
  <1>1. CASE Finish
    BY <1>1, DockerIdles DEF Finish
  <1>2. CASE ~Finish
    <2>1. /\ todo # <<>> /\ ~At("writeAuth") /\ UNCHANGED <<docker, entered, spilt>>
      BY <1>2 DEF Step, At, announceOrUpdate, CreateCredentials, LoadFrom, ReadDocker,
         RegisterProducts, AssignAndCreateLabels, Deactivate, DeregisterSystem, Cleanup,
         GetProductStatuses, ListExtensions, SendKeepAlivePing, SaveTruncates, SaveWrites,
         dockerVars
    <2>2. \/ \E s \in Seq(CalmStep) : Then(s)
          \/ End("failed")
      <3>1. CASE announceOrUpdate
        <4> DEFINE login == [n |-> issued + 1, url |-> cfg.url]
        <4>1. Then(<<>>) \/ End("failed") \/ (issued < MaxLogins /\ Then(Do("store", login)))
          BY <3>1 DEF announceOrUpdate, Refuse
        <4>2. issued < MaxLogins => Do("store", login) \in Seq(CalmStep)
          BY NewLoginOK, CalmSteps
        <4> HIDE DEF login
        <4> QED
          BY <4>1, <4>2, CalmSteps
      <3>2. CASE CreateCredentials
        <4>1. On \in Login
          BY <3>2, AtOK DEF CreateCredentials, At
        <4>2. (IF server = "scc" THEN Just("readAuth") \o Do("setAuth", On) ELSE <<>>) \in Seq(CalmStep)
          BY <4>1, CalmSteps, CalmJoin
        <4> QED
          BY <3>2, <4>2 DEF CreateCredentials
      <3>3. CASE ~announceOrUpdate /\ ~CreateCredentials
        <4>1. Then(<<>>) \/ End("failed")
          BY <1>2, <3>3 DEF Step, LoadFrom, RegisterProducts, AssignAndCreateLabels, Deactivate,
             DeregisterSystem, Cleanup, GetProductStatuses, ListExtensions, SendKeepAlivePing,
             SaveTruncates, SaveWrites, Refuse
        <4> QED
          BY <4>1, CalmSteps
      <3> QED
        BY <3>1, <3>2, <3>3
    <2>3. CASE End("failed")
      <3>1. todo' = <<>>
        BY <2>3 DEF End
      <3> QED
        BY <2>1, <3>1, CalmSteps, DockerRests
    <2> QED
      BY <2>1, <2>2, <2>3, DockerGoesOn
  <1> QED
    BY <1>1, <1>2

LEMMA DockerStays ==
  ASSUME TypeInv, DockerInv, [Next]_vars
  PROVE  DockerInv'
  <1>1. CASE Step
    BY <1>1, DockerSets, DockerRemoves, DockerWrites, DockerPasses
  <1>2. ASSUME NEW c \in plan.commands, Start(c) PROVE DockerInv'
    <2>1. c \in Command
      BY PlansAssumption, CommandsAssumption, Groups DEF SystemOK
    <2>2. todo' \in Seq(CalmStep)
      BY <1>2, <2>1, CalmCommand, CalmSteps DEF Start
    <2>3. ~At("writeAuth")
      BY <1>2 DEF Start, At, TypeInv, TypeOK
    <2> QED
      BY <1>2, <2>2, <2>3, DockerRests DEF Start
  <1>3. CASE Fail
    BY <1>3, DockerStops DEF Fail, End, At, dockerVars
  <1>4. CASE Kill
    BY <1>4, DockerStops DEF Kill, End
  <1>5. CASE Besides \/ SearchPackages \/ UNCHANGED vars
    BY <1>5, DockerIdles DEF Besides, Tracker, TrackerEnds, TimePasses, KilledTracker,
       TrackerFails, PowerFails, Beside, SearchPackages, vars
  <1>6. CASE UserWithDocker
    BY <1>6, DockerShared
  <1> QED
    BY <1>1, <1>2, <1>3, <1>4, <1>5, <1>6 DEF Next, Besides

LEMMA DockerInitially == Init => DockerInv
  <1> SUFFICES ASSUME Init PROVE DockerInv
    OBVIOUS
  <1>1. todo = <<>> /\ ~At("writeAuth")
    BY DEF Init, At
  <1>2. docker # Emptied
    BY ValuesAssumption DEF Init, DockerInit, Empty, Logins
  <1>3. Keeps(docker)
    BY DEF Init, DockerInit, Keeps
  <1> QED
    BY <1>1, <1>2, <1>3 DEF DockerInv

\* Whatever docker's file held at first, whatever the user does with docker, and whenever a
\* command is killed, the logins the user made stay in the file, which is empty only while
\* a command has it open; except for a write of SUSEConnect that failed or was interrupted,
\* and a login made between its reading and its writing (setup- and
\* removeRegistryAuthentication, SaveTo).
THEOREM DockerIsShared == Spec => []DockerLoginsKept
  <1>1. TypeInv /\ WholeInv /\ [Next]_vars => (TypeInv /\ WholeInv)'
    BY TypesKept
  <1>2. TypeInv /\ DockerInv /\ [Next]_vars => DockerInv'
    BY DockerStays
  <1>3. DockerInv => DockerLoginsKept
    BY DEF DockerInv, DockerLoginsKept
  <1> QED
    BY InitOK, DockerInitially, <1>1, <1>2, <1>3, PTL DEF Spec

-----------------------------------------------------------------------------
(* The configuration.                                                       *)
\* A truncation is followed by the write; credentials are stored first or not at all.
Ordered(s) ==
    \A i \in 1..Len(s) :
        s[i].op # "store" /\ (s[i].op = "truncate" => i < Len(s) /\ s[i + 1].op = "write")
Shape == Ordered(todo) \/ (At("store") /\ On.url = cfg.url /\ Ordered(Tail(todo)))

\* The steps a command may begin with, before it knows that the server accepts its login.
FirstOps == {"announce", "store", "deactivate", "clean", "status", "keepalive", "list"}

\* What the settings and the server's name need of a command under way.
EndsInWrite(s) == s # <<>> /\ s[Len(s)].op = "write"
OnlyLists(s)   == \A i \in 1..Len(s) : s[i].op = "list"
Accepted       == Registered => creds.url = cfg.url
Agrees         == ~unsaved /\ ~torn /\ Registered => creds.url = Load.url
KeepsSettings ==
    ~torn => /\ ~At("write") => /\ Load.tracking = admin.tracking
                                /\ ~saved => Load.noRefresh = admin.noRefresh
             /\ exit = "running" => cfg.tracking = admin.tracking
KeepsUrl ==
    exit = "running" /\ cmd.url = "" =>
        /\ ~unsaved /\ ~torn => Accepted
        /\ ~torn /\ ~At("write") => Load.url = cfg.url
BringsUrl ==
    exit = "running" /\ cmd.url # "" =>
        \/ EndsInWrite(todo)
        \/ Agrees /\ OnlyLists(todo)
ConfigInv ==
    /\ Shape
    /\ todo # <<>> /\ Head(todo).op \notin FirstOps => Accepted
    /\ exit # "running" => Agrees
    /\ KeepsSettings /\ KeepsUrl /\ BringsUrl

\* What the steps do to the configuration, the credentials and the list of steps.
Settings == <<file, creds, admin, saved>>
Idles    == UNCHANGED <<Settings, cmd, cfg, exit, todo, unsaved, torn>>
Goes ==
    /\ todo # <<>> /\ Head(todo).op \notin {"truncate", "write"}
    /\ Then(<<>>) /\ UNCHANGED <<Settings, unsaved, torn>>
    /\ Head(todo).op \in FirstOps => Accepted
Begins ==
    /\ At("announce")
    /\ \E l \in Login : l.url = cfg.url /\ Then(Do("store", l))
    /\ UNCHANGED <<Settings, unsaved, torn>>
Stores ==
    /\ At("store") /\ creds' = On
    /\ \/ Then(<<>>)
       \/ Then(Just("readAuth") \o Do("setAuth", On))
    /\ UNCHANGED <<file, admin, saved, unsaved, torn>>
Opens ==
    /\ At("setAuth") \/ At("removeAuth")
    /\ Then(Just("writeAuth")) /\ UNCHANGED <<Settings, unsaved, torn>>
Cleans ==
    /\ At("clean") /\ creds' = None /\ Then(<<>>)
    /\ UNCHANGED <<file, admin, saved, unsaved, torn>>
Truncates ==
    /\ At("truncate") /\ Then(<<>>) /\ UNCHANGED <<creds, admin, saved, unsaved, torn>>
Writes ==
    /\ At("write") /\ Then(<<>>) /\ file' = toYAML /\ saved' = TRUE /\ unsaved' = FALSE
    /\ UNCHANGED <<creds, admin, torn>>
Stops ==
    /\ exit = "running" /\ UNCHANGED Settings
    /\ \E how \in {"failed", "killed"} : End(how)
    /\ IF At("write") THEN torn' = TRUE ELSE torn' = torn

LEMMA CommandKinds ==
  ASSUME TypeInv, Step
  PROVE  Goes \/ Begins \/ Stores \/ Opens \/ Cleans \/ Truncates \/ Writes \/ Stops \/ Finish
  <1>1. todo # <<>> => exit = "running"
    BY AtOK
  <1>2. Valid => Accepted
    BY DEF Valid, Accepted
  <1>3. CASE announceOrUpdate
    <2> DEFINE login == [n |-> issued + 1, url |-> cfg.url]
    <2>1. CASE issued < MaxLogins /\ ~Registered /\ Then(Do("store", login))
      <3>1. login \in Login /\ login.url = cfg.url
        BY <2>1, NewLoginOK
      <3> HIDE DEF login
      <3>2. At("announce") /\ UNCHANGED <<Settings, unsaved, torn>>
        BY <1>3, <2>1 DEF announceOrUpdate, At, Settings, system, Noted, Refuse, End
      <3> QED
        BY <2>1, <3>1, <3>2 DEF Begins
    <2>2. CASE Valid /\ Then(<<>>) /\ Noted
      BY <1>2, <1>3, <2>2 DEF announceOrUpdate, Goes, At, Settings, system, Noted
    <2>3. CASE Refuse
      BY <1>1, <1>3, <2>3 DEF announceOrUpdate, Stops, At, Settings, system, Refuse
    <2> QED
      BY <1>3, <2>1, <2>2, <2>3 DEF announceOrUpdate
  <1>4. CASE CreateCredentials
    BY <1>4 DEF CreateCredentials, Stores, At, Noted
  <1>5. CASE LoadFrom \/ WriteAuth \/ AssignAndCreateLabels \/ DeregisterSystem
    BY <1>5 DEF LoadFrom, WriteAuth, AssignAndCreateLabels, DeregisterSystem, Goes,
                FirstOps, At, Settings, system, Noted
  <1>11. CASE SetAuth \/ RemoveAuth
    <2>1. CASE Then(Just("writeAuth"))
      BY <1>11, <2>1 DEF SetAuth, RemoveAuth, Opens, Settings, system
    <2>2. CASE Then(<<>>)
      BY <1>11, <2>2 DEF SetAuth, RemoveAuth, Goes, FirstOps, At, Settings, system
    <2> QED
      BY <1>11, <2>1, <2>2 DEF SetAuth, RemoveAuth
  <1>6. CASE RegisterProducts \/ Deactivate
    <2>1. CASE Valid /\ Then(<<>>) /\ Noted
      BY <1>2, <1>6, <2>1 DEF RegisterProducts, Deactivate, Goes, At, Settings, Noted
    <2>2. CASE End("failed") /\ UNCHANGED <<admin, saved, torn>>
      BY <1>1, <1>6, <2>2 DEF RegisterProducts, Deactivate, Stops, At, Settings
    <2> QED
      BY <1>6, <2>1, <2>2 DEF RegisterProducts, Deactivate, Refuse
  <1>7. CASE Cleanup
    BY <1>7 DEF Cleanup, Cleans, At
  <1>8. CASE GetProductStatuses \/ ListExtensions \/ SendKeepAlivePing
    <2>1. CASE (Registered => Valid) /\ Then(<<>>) /\ Noted
      BY <1>2, <1>8, <2>1 DEF GetProductStatuses, ListExtensions, SendKeepAlivePing, Goes, At,
                              Settings, system, Noted, Accepted
    <2>2. CASE Refuse
      BY <1>1, <1>8, <2>2 DEF GetProductStatuses, ListExtensions, SendKeepAlivePing, Stops, At,
                              Settings, system, Refuse
    <2> QED
      BY <1>8, <2>1, <2>2 DEF GetProductStatuses, ListExtensions, SendKeepAlivePing
  <1>9. CASE SaveTruncates
    BY <1>9 DEF SaveTruncates, Truncates, At, system, Noted
  <1>10. CASE SaveWrites
    BY <1>10 DEF SaveWrites, Writes, At, system
  <1> QED
    BY <1>3, <1>4, <1>5, <1>6, <1>7, <1>8, <1>9, <1>10, <1>11 DEF Step

LEMMA Kinds ==
  ASSUME TypeInv, [Next]_vars
  PROVE  \/ \E c \in plan.commands : Start(c)
         \/ Idles \/ Goes \/ Begins \/ Stores \/ Opens \/ Cleans \/ Truncates \/ Writes \/ Stops
         \/ Finish
  <1>1. CASE Step
    BY <1>1, CommandKinds
  <1>2. CASE Fail \/ Kill
    <2>1. exit = "running"
      BY <1>2, AtOK DEF Fail, Kill
    <2>2. torn' = (torn \/ At("write")) /\ torn \in BOOLEAN
      BY <1>2 DEF Fail, Kill, TypeInv, TypeOK
    <2>3. IF At("write") THEN torn' = TRUE ELSE torn' = torn
      BY <2>2
    <2> QED
      BY <1>2, <2>1, <2>3 DEF Fail, Kill, Stops, Settings, system
  <1>3. CASE Besides
    BY <1>3 DEF Besides, Tracker, TrackerEnds, TimePasses, KilledTracker, TrackerFails, PowerFails, Beside,
                Idles, Settings, system, process, history
  <1>4. CASE UserWithDocker \/ SearchPackages \/ UNCHANGED vars
    BY <1>4 DEF UserWithDocker, SearchPackages, vars, Idles, Settings, system, process, history
  <1> QED
    BY <1>1, <1>2, <1>3, <1>4 DEF Next, Besides

\* Truncation and write stay next to each other, and the write stays last.
LEMMA OneStep ==
  /\ \A op : op \notin {"truncate", "store"} => Ordered(Just(op))
  /\ \A op, x : op \notin {"truncate", "store"} => Ordered(Do(op, x))
  /\ Ordered(<<>>) /\ Ordered(Just("truncate") \o Just("write"))
  <1>1. \A op, x : Len(Do(op, x)) = 1 /\ Do(op, x)[1].op = op
    BY DEF Do
  <1>2. \A op : Len(Just(op)) = 1 /\ Just(op)[1].op = op
    BY <1>1 DEF Just
  <1>3. Ordered(<<>>)
    BY DEF Ordered
  <1>4. Ordered(Just("truncate") \o Just("write"))
    <2> DEFINE s == Just("truncate") \o Just("write")
    <2>1. Len(s) = 2 /\ s[1].op = "truncate" /\ s[2].op = "write"
      BY DEF Just, Do
    <2> QED
      BY <2>1 DEF Ordered
  <1>5. ASSUME NEW s, Len(s) = 1, s[1].op \notin {"truncate", "store"} PROVE Ordered(s)
    BY <1>5 DEF Ordered
  <1>6. \A op, x : op \notin {"truncate", "store"} => Ordered(Do(op, x))
    BY <1>1, <1>5
  <1>7. \A op : op \notin {"truncate", "store"} => Ordered(Just(op))
    BY <1>2, <1>5
  <1> QED
    BY <1>3, <1>4, <1>6, <1>7

LEMMA JoinOrdered ==
  \A s, t \in Seq(StepSet) : Ordered(s) /\ Ordered(t) => Ordered(s \o t)
  <1> SUFFICES ASSUME NEW s \in Seq(StepSet), NEW t \in Seq(StepSet), Ordered(s), Ordered(t),
                      NEW i \in 1..Len(s \o t)
               PROVE  /\ (s \o t)[i].op # "store"
                      /\ (s \o t)[i].op = "truncate" =>
                            i < Len(s \o t) /\ (s \o t)[i + 1].op = "write"
    BY DEF Ordered
  <1>1. Len(s \o t) = Len(s) + Len(t)
    OBVIOUS
  <1>2. CASE i \in 1..Len(s)
    <2>1. (s \o t)[i] = s[i] /\ (i < Len(s) => (s \o t)[i + 1] = s[i + 1])
      BY <1>2
    <2>2. s[i].op # "store" /\ (s[i].op = "truncate" => i < Len(s) /\ s[i + 1].op = "write")
      BY <1>2 DEF Ordered
    <2> QED
      BY <1>1, <1>2, <2>1, <2>2
  <1>3. CASE i \notin 1..Len(s)
    <2> DEFINE j == i - Len(s)
    <2>1. j \in 1..Len(t) /\ t[j] = (s \o t)[i]
      BY <1>1, <1>3
    <2>2. t[j].op # "store" /\ (t[j].op = "truncate" => j < Len(t) /\ t[j + 1].op = "write")
      BY <2>1 DEF Ordered
    <2>3. j < Len(t) => (s \o t)[i + 1] = t[j + 1]
      BY <1>1, <1>3, <2>1
    <2> QED
      BY <1>1, <2>1, <2>2, <2>3
  <1> QED
    BY <1>2, <1>3

LEMMA FirstStep ==
  \A s \in Seq(StepSet) : /\ Len(s) \in Nat /\ (s = <<>> <=> Len(s) = 0)
                          /\ s # <<>> => Head(s) = s[1] /\ Tail(s) \in Seq(StepSet)
  OBVIOUS

LEMMA TailOrdered ==
  ASSUME NEW s \in Seq(StepSet), s # <<>>, Ordered(s)
  PROVE  /\ Ordered(Tail(s))
         /\ Head(s).op = "truncate" => Tail(s) # <<>> /\ Head(Tail(s)).op = "write"
  <1>1. Len(Tail(s)) = Len(s) - 1 /\ \A i \in 1..Len(Tail(s)) : Tail(s)[i] = s[i + 1]
    OBVIOUS
  <1>2. Ordered(Tail(s))
    BY <1>1 DEF Ordered
  <1>3. ASSUME Head(s).op = "truncate" PROVE Tail(s) # <<>> /\ Head(Tail(s)).op = "write"
    <2>1. 1 \in 1..Len(s) /\ s[1].op = "truncate"
      BY <1>3
    <2>2. 1 < Len(s) /\ s[2].op = "write"
      BY <2>1 DEF Ordered
    <2>3. Tail(s) # <<>> /\ Head(Tail(s)) = Tail(s)[1]
      <3>1. Tail(s) \in Seq(StepSet) /\ Len(Tail(s)) >= 1
        BY <1>1, <2>2
      <3>2. \A t \in Seq(StepSet) : Len(t) >= 1 => t # <<>> /\ Head(t) = t[1]
        OBVIOUS
      <3> QED
        BY <3>1, <3>2
    <2> QED
      BY <1>1, <2>2, <2>3
  <1> QED
    BY <1>2, <1>3

LEMMA JoinEnds ==
  \A s, t \in Seq(StepSet) : EndsInWrite(t) => EndsInWrite(s \o t)
  <1> SUFFICES ASSUME NEW s \in Seq(StepSet), NEW t \in Seq(StepSet), EndsInWrite(t)
               PROVE  EndsInWrite(s \o t)
    OBVIOUS
  <1>1. Len(t) >= 1 /\ Len(s \o t) = Len(s) + Len(t)
    BY DEF EndsInWrite
  <1>2. (s \o t)[Len(s) + Len(t)] = t[Len(t)]
    BY <1>1
  <1> QED
    BY <1>1, <1>2 DEF EndsInWrite

LEMMA TailEnds ==
  ASSUME NEW s \in Seq(StepSet), EndsInWrite(s)
  PROVE  EndsInWrite(Tail(s)) \/ (Tail(s) = <<>> /\ Head(s).op = "write")
  <1>1. /\ Len(s) \in Nat \ {0} /\ Len(Tail(s)) = Len(s) - 1 /\ Tail(s) \in Seq(StepSet)
        /\ s[Len(s)].op = "write" /\ \A i \in 1..Len(Tail(s)) : Tail(s)[i] = s[i + 1]
    BY DEF EndsInWrite
  <1>2. CASE Len(s) = 1
    <2>1. Tail(s) = <<>> /\ Head(s) = s[1]
      <3>1. Len(Tail(s)) = 0 /\ s # <<>>
        BY <1>1, <1>2
      <3> QED
        BY <1>1, <3>1, FirstStep
    <2> QED
      BY <1>1, <1>2, <2>1
  <1>3. CASE Len(s) > 1
    <2>1. Tail(s) # <<>> /\ Tail(s)[Len(Tail(s))] = s[Len(s)]
      BY <1>1, <1>3, FirstStep
    <2> QED
      BY <1>1, <2>1 DEF EndsInWrite
  <1> QED
    BY <1>1, <1>2, <1>3

LEMMA JoinAssoc ==
  \A s, t, u \in Seq(StepSet) : (s \o t) \o u = s \o (t \o u)
  <1> SUFFICES ASSUME NEW s \in Seq(StepSet), NEW t \in Seq(StepSet), NEW u \in Seq(StepSet)
               PROVE  (s \o t) \o u = s \o (t \o u)
    OBVIOUS
  <1> DEFINE a == (s \o t) \o u
             b == s \o (t \o u)
  <1>1. /\ a \in Seq(StepSet) /\ b \in Seq(StepSet)
        /\ Len(a) = Len(s) + Len(t) + Len(u) /\ Len(b) = Len(s) + Len(t) + Len(u)
    OBVIOUS
  <1>2. ASSUME NEW i \in 1..(Len(s) + Len(t) + Len(u)) PROVE a[i] = b[i]
    <2>1. CASE i \in 1..Len(s)
      BY <2>1
    <2>2. CASE i \in (Len(s) + 1)..(Len(s) + Len(t))
      BY <2>2
    <2>3. CASE i \in (Len(s) + Len(t) + 1)..(Len(s) + Len(t) + Len(u))
      BY <2>3
    <2> QED
      BY <2>1, <2>2, <2>3
  <1> HIDE DEF a, b
  <1>3. a = b
    BY <1>1, <1>2
  <1> QED
    BY <1>3 DEF a, b

LEMMA StepsOrdered ==
  ASSUME NEW c \in Command
  PROVE  /\ Ordered(Steps(c))
         /\ Steps(c) = <<>> \/ Head(Steps(c)).op \in FirstOps
         /\ c.url = "" \/ EndsInWrite(Steps(c)) \/ OnlyLists(Steps(c))
  <1>1. Save(c) \in Seq(StepSet) /\ Ordered(Save(c))
    BY DoOK, JoinOK, OneStep DEF Save
  <1>2. c.url # "" => EndsInWrite(Save(c))
    <2>1. EndsInWrite(Just("truncate") \o Just("write"))
      BY DEF EndsInWrite, Just, Do
    <2> QED
      BY <2>1 DEF Save, Saves
  <1>3. Leave \in Seq(StepSet) /\ Ordered(Leave)
    <2>1. \A op \in {"readAuth", "removeAuth", "delete", "clean"} :
              Just(op) \in Seq(StepSet) /\ Ordered(Just(op))
      BY DoOK, OneStep
    <2> DEFINE both(s) == s \in Seq(StepSet) /\ Ordered(s)
    <2>2. \A s, t : both(s) /\ both(t) => both(s \o t)
      BY JoinOK, JoinOrdered
    <2> HIDE DEF both
    <2>3. both(Just("readAuth")) /\ both(Just("removeAuth")) /\ both(Just("delete")) /\ both(Just("clean"))
      BY <2>1 DEF both
    <2>4. both(Leave)
      BY <2>2, <2>3 DEF Leave
    <2> QED
      BY <2>4 DEF both
  <1>4. ASSUME NEW op \in FirstOps \ {"store"}, NEW x, Do(op, x) \in Seq(StepSet), NEW t \in Seq(StepSet)
        PROVE  /\ Do(op, x) \o t # <<>> /\ Head(Do(op, x) \o t).op = op
               /\ Ordered(t) => Ordered(Do(op, x) \o t)
    <2>1. Do(op, x) \o t # <<>> /\ Head(Do(op, x) \o t).op = op
      BY DEF Do
    <2>2. Ordered(Do(op, x))
      BY OneStep DEF FirstOps
    <2> QED
      BY <1>4, <2>1, <2>2, JoinOrdered
  <1>5. CASE c.cmd = "register"
    <2> DEFINE more == Just("activate") \o (IF c.labels THEN Just("labels") ELSE <<>>) \o Save(c)
    <2>1. more \in Seq(StepSet) /\ Ordered(more) /\ (c.url # "" => EndsInWrite(more))
      <3> DEFINE l == IF c.labels THEN Just("labels") ELSE <<>>
      <3>1. l \in Seq(StepSet) /\ Ordered(l)
        BY DoOK, OneStep
      <3>2. Just("activate") \in Seq(StepSet) /\ Ordered(Just("activate"))
        BY DoOK, OneStep
      <3> HIDE DEF l
      <3>3. Just("activate") \o l \in Seq(StepSet) /\ Ordered(Just("activate") \o l)
        BY <3>1, <3>2, JoinOK, JoinOrdered
      <3>4. /\ (Just("activate") \o l) \o Save(c) \in Seq(StepSet)
            /\ Ordered((Just("activate") \o l) \o Save(c))
        BY <1>1, <3>3, JoinOK, JoinOrdered
      <3>5. c.url # "" => EndsInWrite((Just("activate") \o l) \o Save(c))
        BY <1>1, <1>2, <3>3, JoinEnds
      <3> QED
        BY <3>4, <3>5 DEF l
    <2>2. Steps(c) = Just("announce") \o more
      <3> DEFINE l == IF c.labels THEN Just("labels") ELSE <<>>
      <3>1. l \in Seq(StepSet)
        BY DoOK
      <3>2. Steps(c) = ((Just("announce") \o Just("activate")) \o l) \o Save(c)
        BY <1>5 DEF Steps
      <3> HIDE DEF l
      <3>3. Just("announce") \in Seq(StepSet) /\ Just("activate") \in Seq(StepSet)
        BY DoOK
      <3>4. Just("activate") \o l \in Seq(StepSet)
        BY <3>1, <3>3, JoinOK
      <3>5. (Just("announce") \o Just("activate")) \o l = Just("announce") \o (Just("activate") \o l)
        BY <3>1, <3>3, JoinAssoc
      <3>6. (Just("announce") \o (Just("activate") \o l)) \o Save(c)
            = Just("announce") \o ((Just("activate") \o l) \o Save(c))
        BY <1>1, <3>3, <3>4, JoinAssoc
      <3> QED
        BY <3>2, <3>5, <3>6 DEF l
    <2> HIDE DEF more
    <2>3. Just("announce") = Do("announce", None) /\ "announce" \in FirstOps \ {"store"}
      BY DEF Just, FirstOps
    <2>4. Just("announce") \in Seq(StepSet)
      BY DoOK
    <2>5. /\ Ordered(Just("announce") \o more)
          /\ Head(Just("announce") \o more).op = "announce"
      BY <1>4, <2>1, <2>3, <2>4
    <2>6. c.url # "" => EndsInWrite(Just("announce") \o more)
      BY <2>1, <2>4, JoinEnds
    <2> QED
      BY <2>2, <2>3, <2>5, <2>6
  <1>6. CASE c.cmd = "deregister"
    <2> DEFINE more == IF c.product # "" THEN Save(c) ELSE Leave \o Save(c)
    <2>1. more \in Seq(StepSet) /\ Ordered(more) /\ (c.url # "" => EndsInWrite(more))
      BY <1>1, <1>2, <1>3, DoOK, JoinOK, OneStep, JoinOrdered, JoinEnds
    <2>2. PICK S \in SUBSET Products : Steps(c) = Do("deactivate", S) \o more
      <3>1. CASE c.product # ""
        <4>1. Steps(c) = Do("deactivate", {c.product}) \o Save(c) /\ {c.product} \in SUBSET Products
          BY <1>6, <3>1 DEF Steps, Command
        <4> QED
          BY <3>1, <4>1
      <3>2. CASE c.product = ""
        <4>1. Steps(c) = (Do("deactivate", Products \ {Base}) \o Leave) \o Save(c)
          BY <1>6, <3>2 DEF Steps
        <4>2. Products \ {Base} \in SUBSET Products
          OBVIOUS
        <4>3. Do("deactivate", Products \ {Base}) \in Seq(StepSet)
          BY <4>2, DoOK
        <4>4. Steps(c) = Do("deactivate", Products \ {Base}) \o (Leave \o Save(c))
          BY <1>1, <1>3, <4>1, <4>3, JoinAssoc
        <4> QED
          BY <3>2, <4>2, <4>4
      <3> QED
        BY <3>1, <3>2
    <2> HIDE DEF more
    <2>3. Do("deactivate", S) \in Seq(StepSet) /\ "deactivate" \in FirstOps \ {"store"}
      BY DoOK DEF FirstOps
    <2>4. /\ Ordered(Do("deactivate", S) \o more)
          /\ Head(Do("deactivate", S) \o more).op = "deactivate"
      BY <1>4, <2>1, <2>3
    <2>5. c.url # "" => EndsInWrite(Do("deactivate", S) \o more)
      BY <2>1, <2>3, JoinEnds
    <2> QED
      BY <2>2, <2>3, <2>4, <2>5
  <1>7. CASE c.cmd = "cleanup" \/ c.cmd = "status" \/ (c.cmd = "keepalive" /\ ~c.suma)
    <2>1. PICK op \in {"clean", "status", "keepalive"} : Steps(c) = Just(op) \o Save(c)
      BY <1>7 DEF Steps
    <2>2. Just(op) = Do(op, None) /\ op \in FirstOps \ {"store"}
      BY DEF Just, FirstOps
    <2>3. Just(op) \in Seq(StepSet)
      BY DoOK
    <2>4. Ordered(Just(op) \o Save(c)) /\ Head(Just(op) \o Save(c)).op = op
      BY <1>1, <1>4, <2>2, <2>3
    <2>5. c.url # "" => EndsInWrite(Just(op) \o Save(c))
      BY <1>1, <1>2, <2>3, JoinEnds
    <2> QED
      BY <2>1, <2>2, <2>4, <2>5
  <1>8. CASE c.cmd = "keepalive" /\ c.suma
    <2>1. Steps(c) = <<>>
      BY <1>8 DEF Steps
    <2>2. OnlyLists(<<>>)
      BY DEF OnlyLists
    <2> QED
      BY <2>1, <2>2, OneStep
  <1>9. CASE c.cmd = "list"
    <2>1. Steps(c) = Just("list")
      BY <1>9 DEF Steps
    <2>2. /\ Len(Just("list")) = 1 /\ Just("list")[1].op = "list"
          /\ Head(Just("list")) = Just("list")[1] /\ "list" \in FirstOps
      BY DEF Just, Do, FirstOps
    <2>3. Ordered(Just("list"))
      BY <2>2, OneStep
    <2>4. OnlyLists(Just("list"))
      BY <2>2 DEF OnlyLists
    <2> QED
      BY <2>1, <2>2, <2>3, <2>4
  <1> QED
    BY <1>5, <1>6, <1>7, <1>8, <1>9 DEF Command

-----------------------------------------------------------------------------
LEMMA Onward ==
  ASSUME TypeInv, Shape, todo # <<>>
  PROVE  /\ Tail(todo) \in Seq(StepSet) /\ Ordered(Tail(todo))
         /\ At("truncate") => Tail(todo) # <<>> /\ Head(Tail(todo)).op = "write"
         /\ At("store") => On.url = cfg.url
         /\ EndsInWrite(todo) => EndsInWrite(Tail(todo)) \/ (Tail(todo) = <<>> /\ At("write"))
         /\ OnlyLists(todo) => OnlyLists(Tail(todo)) /\ At("list")
  <1>1. todo \in Seq(StepSet) /\ Tail(todo) \in Seq(StepSet)
    BY AtOK DEF TypeInv
  <1>2. Len(todo) >= 1 /\ Head(todo) = todo[1]
    BY <1>1
  <1>3. Ordered(todo) => ~At("store")
    BY <1>2 DEF Ordered, At
  <1>4. Ordered(Tail(todo)) /\ (At("truncate") => Tail(todo) # <<>> /\ Head(Tail(todo)).op = "write")
    BY <1>1, TailOrdered DEF Shape, At
  <1>5. EndsInWrite(todo) => EndsInWrite(Tail(todo)) \/ (Tail(todo) = <<>> /\ At("write"))
    BY <1>1, TailEnds DEF At
  <1>6. ASSUME OnlyLists(todo) PROVE OnlyLists(Tail(todo)) /\ At("list")
    <2>1. Len(Tail(todo)) = Len(todo) - 1 /\ \A i \in 1..Len(Tail(todo)) : Tail(todo)[i] = todo[i + 1]
      BY <1>1
    <2> QED
      BY <1>1, <1>2, <1>6, <2>1 DEF OnlyLists, At
  <1> QED
    BY <1>1, <1>3, <1>4, <1>5, <1>6 DEF Shape

LEMMA Advance ==
  ASSUME TypeInv, todo # <<>>, Then(<<>>)
  PROVE  /\ todo' = Tail(todo) /\ exit = "running" /\ exit' = "running"
         /\ cmd' = cmd /\ cfg' = cfg
  BY AtOK DEF Then

LEMMA LoadSame ==
  ASSUME file' = file PROVE Load' = Load
  BY DEF Load

LEMMA ConfigGoes ==
  ASSUME TypeInv, ConfigInv, Goes
  PROVE  ConfigInv'
  <1>1. /\ todo # <<>> /\ ~At("write") /\ todo' = Tail(todo) /\ exit = "running"
        /\ exit' = "running" /\ UNCHANGED <<cmd, cfg, Settings, unsaved, torn>>
    BY Advance DEF Goes, At
  <1>2. Accepted /\ Accepted'
    BY <1>1 DEF ConfigInv, Goes, Accepted, Registered, Settings
  <1>3. Ordered(todo')
    BY <1>1, Onward DEF ConfigInv
  <1>4. Load' = Load /\ Agrees' = Agrees
    BY <1>1, LoadSame DEF Settings, Agrees, Registered
  <1>5. KeepsSettings'
    BY <1>1, <1>4 DEF ConfigInv, KeepsSettings, Settings
  <1>6. KeepsUrl'
    BY <1>1, <1>2, <1>4 DEF ConfigInv, KeepsUrl
  <1>7. BringsUrl'
    BY <1>1, <1>4, Onward DEF ConfigInv, BringsUrl
  <1> QED
    BY <1>1, <1>2, <1>3, <1>5, <1>6, <1>7 DEF ConfigInv, Shape

LEMMA PushStep ==
  ASSUME NEW x \in StepSet, NEW t \in Seq(StepSet)
  PROVE  <<x>> \o t # <<>> /\ Head(<<x>> \o t) = x /\ Tail(<<x>> \o t) = t
  <1>1. <<x>> \in Seq(StepSet) /\ Len(<<x>>) = 1
    OBVIOUS
  <1> DEFINE s == <<x>> \o t
  <1>2. s \in Seq(StepSet) /\ Len(s) = Len(t) + 1 /\ s[1] = x
        /\ \A i \in 1..Len(t) : s[i + 1] = t[i]
    BY <1>1
  <1> HIDE DEF s
  <1>3. s # <<>> /\ Head(s) = x
    BY <1>2
  <1>4. /\ Tail(s) \in Seq(StepSet) /\ Len(Tail(s)) = Len(t)
        /\ \A i \in 1..Len(t) : Tail(s)[i] = t[i]
    BY <1>2, <1>3
  <1>5. Tail(s) = t
    BY <1>4
  <1> QED
    BY <1>3, <1>5 DEF s

LEMMA ConfigBegins ==
  ASSUME TypeInv, ConfigInv, Begins
  PROVE  ConfigInv'
  <1>1. PICK l \in Login : l.url = cfg.url /\ Then(Do("store", l))
    BY DEF Begins
  <1>2. At("announce") /\ todo # <<>> /\ UNCHANGED <<Settings, unsaved, torn>>
    BY DEF Begins, At
  <1>3. Do("store", l) \in Seq(StepSet) /\ Do("store", l) = <<[op |-> "store", on |-> l]>>
    BY DoOK DEF Do
  <1>4. /\ exit = "running" /\ exit' = "running" /\ cmd' = cmd /\ cfg' = cfg
        /\ todo' = Do("store", l) \o Tail(todo)
    BY <1>1, <1>2, AtOK DEF Then
  <1>5. Tail(todo) \in Seq(StepSet) /\ Ordered(Tail(todo))
    BY <1>2, Onward DEF ConfigInv
  <1>6. /\ todo' # <<>> /\ Head(todo') = [op |-> "store", on |-> l]
        /\ Tail(todo') = Tail(todo)
    <2>1. [op |-> "store", on |-> l] \in StepSet
      BY DEF StepSet
    <2> QED
      BY <1>3, <1>4, <1>5, <2>1, PushStep
  <1>7. Shape'
    <2>1. Head(todo').op = "store" /\ Head(todo').on = l
      BY <1>6
    <2>2. l.url = cfg'.url
      BY <1>1, <1>4
    <2>3. Ordered(Tail(todo'))
      BY <1>5, <1>6
    <2> QED
      BY <1>6, <2>1, <2>2, <2>3 DEF Shape, At, On
  <1>8. Load' = Load /\ Agrees' = Agrees /\ Accepted' = Accepted /\ creds' = creds
    BY <1>2, <1>4, LoadSame DEF Settings, Agrees, Accepted, Registered
  <1>9. KeepsSettings' /\ KeepsUrl'
    BY <1>2, <1>4, <1>8 DEF ConfigInv, KeepsSettings, KeepsUrl, Settings, At
  <1>10. BringsUrl'
    <2>1. cmd.url # "" => EndsInWrite(Tail(todo))
      BY <1>2, <1>4, Onward DEF ConfigInv, BringsUrl, At
    <2> QED
      BY <1>3, <1>4, <1>5, <2>1, JoinEnds DEF BringsUrl
  <1> QED
    BY <1>4, <1>6, <1>7, <1>9, <1>10 DEF ConfigInv, FirstOps

LEMMA ConfigStores ==
  ASSUME TypeInv, ConfigInv, Stores
  PROVE  ConfigInv'
  <1> DEFINE more == Just("readAuth") \o Do("setAuth", On)
  <1>1. At("store") /\ creds' = On /\ UNCHANGED <<file, admin, saved, unsaved, torn>>
    BY DEF Stores
  <1>2. todo # <<>> /\ On \in Login /\ exit = "running"
    BY <1>1, AtOK DEF At
  <1>3. /\ Tail(todo) \in Seq(StepSet) /\ Ordered(Tail(todo)) /\ On.url = cfg.url
        /\ EndsInWrite(todo) => EndsInWrite(Tail(todo))
        /\ ~OnlyLists(todo)
    BY <1>1, <1>2, Onward DEF ConfigInv, At
  <1>4. more \in Seq(StepSet) /\ Ordered(more)
    <2>1. Just("readAuth") \in Seq(StepSet) /\ Do("setAuth", On) \in Seq(StepSet)
      BY <1>2, DoOK
    <2>2. Ordered(Just("readAuth")) /\ Ordered(Do("setAuth", On))
      BY OneStep
    <2> QED
      BY <2>1, <2>2, JoinOK, JoinOrdered
  <1>5. PICK s \in Seq(StepSet) : Ordered(s) /\ Then(s)
    BY <1>4, DoOK, OneStep DEF Stores
  <1> HIDE DEF more
  <1>6. /\ exit' = "running" /\ cmd' = cmd /\ cfg' = cfg /\ todo' = s \o Tail(todo)
    BY <1>2, <1>5 DEF Then
  <1>7. Ordered(todo') /\ (EndsInWrite(Tail(todo)) => EndsInWrite(todo'))
    BY <1>3, <1>5, <1>6, JoinOrdered, JoinEnds
  <1>8. Accepted' /\ Load' = Load
    BY <1>1, <1>3, <1>6, LoadSame DEF Accepted
  <1>9. KeepsSettings' /\ KeepsUrl'
    BY <1>1, <1>2, <1>6, <1>8 DEF ConfigInv, KeepsSettings, KeepsUrl, At
  <1>10. BringsUrl'
    BY <1>2, <1>3, <1>6, <1>7 DEF ConfigInv, BringsUrl
  <1> QED
    BY <1>6, <1>7, <1>8, <1>9, <1>10 DEF ConfigInv, Shape

LEMMA ConfigOpens ==
  ASSUME TypeInv, ConfigInv, Opens
  PROVE  ConfigInv'
  <1>1. (At("setAuth") \/ At("removeAuth")) /\ todo # <<>> /\ UNCHANGED <<Settings, unsaved, torn>>
    BY DEF Opens, At
  <1>2. Just("writeAuth") \in Seq(StepSet) /\ Ordered(Just("writeAuth"))
    BY DoOK, OneStep
  <1>3. /\ exit = "running" /\ exit' = "running" /\ cmd' = cmd /\ cfg' = cfg
        /\ todo' = Just("writeAuth") \o Tail(todo)
    BY <1>1, AtOK DEF Opens, Then
  <1>4. /\ Tail(todo) \in Seq(StepSet) /\ Ordered(Tail(todo))
        /\ EndsInWrite(todo) => EndsInWrite(Tail(todo))
        /\ ~OnlyLists(todo)
    BY <1>1, Onward DEF ConfigInv, At
  <1>5. Ordered(todo') /\ (EndsInWrite(Tail(todo)) => EndsInWrite(todo'))
    BY <1>2, <1>3, <1>4, JoinOrdered, JoinEnds
  <1>6. Accepted
    BY <1>1 DEF ConfigInv, At, FirstOps
  <1>7. Accepted' /\ Load' = Load
    BY <1>1, <1>3, <1>6, LoadSame DEF Accepted, Registered, Settings
  <1>8. KeepsSettings' /\ KeepsUrl'
    BY <1>1, <1>3, <1>7 DEF ConfigInv, KeepsSettings, KeepsUrl, Settings, At
  <1>9. BringsUrl'
    BY <1>3, <1>4, <1>5 DEF ConfigInv, BringsUrl
  <1> QED
    BY <1>3, <1>5, <1>7, <1>8, <1>9 DEF ConfigInv, Shape

LEMMA ConfigCleans ==
  ASSUME TypeInv, ConfigInv, Cleans
  PROVE  ConfigInv'
  <1>1. /\ At("clean") /\ creds' = None /\ UNCHANGED <<file, admin, saved, unsaved, torn>>
        /\ todo # <<>> /\ todo' = Tail(todo) /\ exit = "running"
        /\ exit' = "running" /\ UNCHANGED <<cmd, cfg>>
    BY Advance DEF Cleans, At
  <1>2. /\ Ordered(todo') /\ ~OnlyLists(todo)
        /\ EndsInWrite(todo) => EndsInWrite(todo')
    BY <1>1, Onward DEF ConfigInv, At
  <1>3. Accepted' /\ Load' = Load
    BY <1>1, LoadSame DEF Accepted, Registered
  <1>4. KeepsSettings' /\ KeepsUrl'
    BY <1>1, <1>3 DEF ConfigInv, KeepsSettings, KeepsUrl, At
  <1>5. BringsUrl'
    BY <1>1, <1>2 DEF ConfigInv, BringsUrl
  <1> QED
    BY <1>1, <1>2, <1>3, <1>4, <1>5 DEF ConfigInv, Shape

LEMMA ConfigTruncates ==
  ASSUME TypeInv, ConfigInv, Truncates
  PROVE  ConfigInv'
  <1>1. /\ At("truncate") /\ UNCHANGED <<creds, admin, saved, unsaved, torn>>
        /\ todo # <<>> /\ todo' = Tail(todo) /\ exit = "running"
        /\ exit' = "running" /\ UNCHANGED <<cmd, cfg>>
    BY Advance DEF Truncates, At
  <1>2. /\ Ordered(todo') /\ ~OnlyLists(todo) /\ At("write")'
        /\ EndsInWrite(todo) => EndsInWrite(todo')
    BY <1>1, Onward DEF ConfigInv, At
  <1>3. Accepted /\ Accepted'
    BY <1>1 DEF ConfigInv, FirstOps, At, Accepted, Registered
  <1>4. KeepsSettings' /\ KeepsUrl'
    BY <1>1, <1>2, <1>3 DEF ConfigInv, KeepsSettings, KeepsUrl, At
  <1>5. BringsUrl'
    BY <1>1, <1>2 DEF ConfigInv, BringsUrl
  <1> QED
    BY <1>1, <1>2, <1>3, <1>4, <1>5 DEF ConfigInv, Shape

LEMMA ConfigWrites ==
  ASSUME TypeInv, ConfigInv, Writes
  PROVE  ConfigInv'
  <1>1. /\ At("write") /\ UNCHANGED <<creds, admin, torn>> /\ saved' = TRUE
        /\ todo # <<>> /\ todo' = Tail(todo) /\ exit = "running"
        /\ exit' = "running" /\ UNCHANGED <<cmd, cfg>>
    BY Advance DEF Writes, At
  <1>2. /\ Ordered(todo') /\ ~OnlyLists(todo)
        /\ EndsInWrite(todo) => EndsInWrite(todo') \/ todo' = <<>>
    BY <1>1, Onward DEF ConfigInv, At
  <1>3. Accepted /\ Accepted'
    BY <1>1 DEF ConfigInv, FirstOps, At, Accepted, Registered
  <1>4. file' = toYAML /\ Load' = toYAML
    <2>1. toYAML \in File /\ None \notin File
      BY FilesOK, ValuesAssumption DEF TypeInv
    <2> QED
      BY <2>1 DEF Writes, Load
  <1>5. Load'.url = cfg.url /\ Load'.tracking = cfg.tracking
    <2>1. cfg \in File
      BY DEF TypeInv, TypeOK
    <2> QED
      BY <1>4, <2>1 DEF toYAML, File
  <1>6. Agrees'
    BY <1>1, <1>3, <1>5 DEF Agrees, Accepted, Registered
  <1>7. KeepsSettings' /\ KeepsUrl'
    BY <1>1, <1>3, <1>5 DEF ConfigInv, KeepsSettings, KeepsUrl
  <1>8. BringsUrl'
    <2>1. OnlyLists(<<>>)
      BY DEF OnlyLists
    <2> QED
      BY <1>1, <1>2, <1>6, <2>1 DEF ConfigInv, BringsUrl
  <1> QED
    BY <1>1, <1>2, <1>3, <1>7, <1>8 DEF ConfigInv, Shape

LEMMA ConfigStops ==
  ASSUME TypeInv, ConfigInv, Stops
  PROVE  ConfigInv'
  <1>1. /\ exit = "running" /\ exit' # "running" /\ todo' = <<>> /\ UNCHANGED <<Settings, cmd>>
        /\ unsaved' = (unsaved \/ cmd.url # "")
        /\ IF At("write") THEN torn' = TRUE ELSE torn' = torn
    BY DEF Stops, End
  <1>2. Load' = Load /\ Registered' = Registered /\ creds' = creds
    BY <1>1, LoadSame DEF Settings, Registered
  <1>3. Agrees'
    <2> SUFFICES ASSUME ~unsaved', ~torn', Registered PROVE creds.url = Load.url
      BY <1>2 DEF Agrees
    <2>1. cmd.url = "" /\ ~unsaved /\ ~At("write") /\ ~torn
      BY <1>1
    <2> QED
      BY <1>1, <2>1 DEF ConfigInv, KeepsUrl, Accepted
  <1>4. KeepsSettings'
    BY <1>1, <1>2 DEF ConfigInv, KeepsSettings, Settings
  <1>5. Ordered(todo')
    BY <1>1, OneStep
  <1> QED
    BY <1>1, <1>3, <1>4, <1>5 DEF ConfigInv, Shape, KeepsUrl, BringsUrl

LEMMA ConfigFinishes ==
  ASSUME TypeInv, ConfigInv, Finish
  PROVE  ConfigInv'
  <1>1. /\ exit = "running" /\ todo = <<>> /\ exit' = "ok"
        /\ UNCHANGED <<file, creds, admin, saved, unsaved, torn, cmd, cfg, todo>>
    BY DEF Finish, system, history
  <1>2. ~At("write") /\ ~EndsInWrite(todo)
    BY <1>1 DEF At, EndsInWrite
  <1>3. Load' = Load /\ Registered' = Registered
    BY <1>1, LoadSame DEF Registered
  <1>4. Agrees
    BY <1>1, <1>2 DEF ConfigInv, KeepsUrl, BringsUrl, Agrees, Accepted
  <1>5. Agrees'
    BY <1>1, <1>3, <1>4 DEF Agrees
  <1>6. KeepsSettings'
    BY <1>1, <1>2, <1>3 DEF ConfigInv, KeepsSettings
  <1>7. Ordered(todo')
    BY <1>1, OneStep
  <1> QED
    BY <1>1, <1>5, <1>6, <1>7 DEF ConfigInv, Shape, KeepsUrl, BringsUrl

LEMMA ConfigStarts ==
  ASSUME TypeInv, ConfigInv, NEW c \in plan.commands, Start(c)
  PROVE  ConfigInv'
  <1>1. /\ exit # "running" /\ todo = <<>> /\ cmd' = c
        /\ UNCHANGED <<file, creds, admin, saved, unsaved, torn>>
    BY DEF Start, TypeInv, TypeOK, system, history
  <1>2. Load' = Load /\ Registered' = Registered /\ Agrees' = Agrees /\ Agrees
    BY <1>1, LoadSame DEF Registered, Agrees, ConfigInv
  <1>3. c \in Command
    BY PlansAssumption, CommandsAssumption DEF TypeInv, TypeOK
  <1>4. ~At("write")
    BY <1>1 DEF At
  <1>5. CASE Refused(c)
    <2>1. exit' = "failed" /\ todo' = <<>>
      BY <1>5 DEF Start
    <2>2. KeepsSettings'
      BY <1>1, <1>2, <1>4, <2>1 DEF ConfigInv, KeepsSettings
    <2>3. Ordered(todo')
      BY <2>1, OneStep
    <2> QED
      BY <1>2, <2>1, <2>2, <2>3 DEF ConfigInv, Shape, KeepsUrl, BringsUrl
  <1>6. CASE ~Refused(c)
    <2>1. exit' = "running" /\ todo' = Steps(c) /\ cfg' = Merge(c)
      BY <1>6 DEF Start
    <2>2. /\ cfg'.tracking = Load.tracking /\ (c.url = "" => cfg'.url = Load.url)
      <3>1. Load \in File
        BY FilesOK DEF TypeInv
      <3> QED
        BY <2>1, <3>1 DEF Merge, File
    <2>3. /\ Ordered(todo') /\ (todo' # <<>> => Head(todo').op \in FirstOps)
          /\ cmd'.url # "" => EndsInWrite(todo') \/ OnlyLists(todo')
      BY <1>1, <1>3, <2>1, StepsOrdered
    <2>4. KeepsSettings'
      BY <1>1, <1>2, <1>4, <2>2 DEF ConfigInv, KeepsSettings
    <2>5. KeepsUrl'
      BY <1>1, <1>2, <2>2 DEF KeepsUrl, Agrees, Accepted
    <2>6. BringsUrl'
      BY <1>2, <2>3 DEF BringsUrl
    <2> QED
      BY <2>1, <2>3, <2>4, <2>5, <2>6 DEF ConfigInv, Shape
  <1> QED
    BY <1>5, <1>6

LEMMA ConfigIdles ==
  ASSUME ConfigInv, Idles
  PROVE  ConfigInv'
  <1>1. Load' = Load /\ UNCHANGED <<creds, admin, saved, cmd, cfg, exit, todo, unsaved, torn>>
    BY LoadSame DEF Idles, Settings
  <1>2. Agrees' = Agrees /\ Accepted' = Accepted /\ Shape' = Shape
    BY <1>1 DEF Agrees, Accepted, Shape, Registered, At, On
  <1>3. KeepsSettings' /\ KeepsUrl' /\ BringsUrl'
    BY <1>1, <1>2 DEF ConfigInv, KeepsSettings, KeepsUrl, BringsUrl, At
  <1> QED
    BY <1>1, <1>2, <1>3 DEF ConfigInv

LEMMA ConfigStays ==
  ASSUME TypeInv, ConfigInv, [Next]_vars
  PROVE  ConfigInv'
  BY Kinds, ConfigIdles, ConfigGoes, ConfigBegins, ConfigStores, ConfigOpens, ConfigCleans,
     ConfigTruncates, ConfigWrites, ConfigStops, ConfigFinishes, ConfigStarts

LEMMA ConfigInitially == Init => ConfigInv
  <1> SUFFICES ASSUME Init PROVE ConfigInv
    OBVIOUS
  <1>1. /\ todo = <<>> /\ exit = "none" /\ admin = Load /\ ~Registered
    BY DEF Init, Registered
  <1>2. Ordered(todo)
    BY <1>1, OneStep
  <1> QED
    BY <1>1, <1>2 DEF ConfigInv, Shape, Agrees, KeepsSettings, KeepsUrl, BringsUrl

\* What the administrator has set in the configuration outlives any commands, with any
\* options, that fail or die at any step but the one write of the file (Load, Save).
THEOREM SettingsKept == Spec => []SettingsSurvive
  <1>1. TypeInv /\ WholeInv /\ ConfigInv /\ [Next]_vars => (TypeInv /\ WholeInv /\ ConfigInv)'
    BY TypesKept, ConfigStays
  <1>2. ConfigInv => SettingsSurvive
    BY DEF ConfigInv, KeepsSettings, SettingsSurvive
  <1> QED
    BY InitOK, ConfigInitially, <1>1, <1>2, PTL DEF Spec

\* Between two commands the configuration names the server that knows the system,
\* unless a command that was to change it ended before its save (main, Save).
THEOREM ConfigAndServerAgree == Spec => []ConfigMatchesServer
  <1>1. TypeInv /\ WholeInv /\ ConfigInv /\ [Next]_vars => (TypeInv /\ WholeInv /\ ConfigInv)'
    BY TypesKept, ConfigStays
  <1>2. ConfigInv => ConfigMatchesServer
    BY DEF ConfigInv, Agrees, ConfigMatchesServer
  <1> QED
    BY InitOK, ConfigInitially, <1>1, <1>2, PTL DEF Spec

-----------------------------------------------------------------------------
(* The docker login of a system that is gone.                               *)
\* What the steps that touch the docker login come directly after, unless they are
\* next: a login is read before it is set or removed, removed before the system is
\* deleted, and the system deleted before Deregister cleans up.
Linked(s) ==
    \A i \in 1..Len(s) :
        /\ s[i].op \in {"announce", "store", "writeAuth"} => i = 1
        /\ s[i].op = "setAuth" => i = 1 \/ (i = 2 /\ s[1].op = "readAuth")
        /\ s[i].op = "removeAuth" => i = 1 \/ s[i - 1].op = "readAuth"
        /\ s[i].op = "delete" => i = 1 \/ s[i - 1].op \in {"removeAuth", "writeAuth"}
        /\ s[i].op = "clean" => i = 1 \/ s[i - 1].op = "delete"
SetsOnly(s, l) == \A i \in 1..Len(s) : s[i].op = "setAuth" => s[i].on = l

\* A login of docker's is ours if it is the one of the credentials file.
HoldsOurs(d) == Readable(d) /\ d.suse = creds
OnlyOurs(d)  == Readable(d) => d.suse \in {NoLogin, Manual, creds}
DeletesNext  == Tail(todo) # <<>> /\ Head(Tail(todo)).op = "delete"
LoginInv ==
    /\ Linked(todo) /\ SetsOnly(todo, creds)
    /\ At("store") => creds = None
    /\ ~leftover =>
        /\ OnlyOurs(docker)
        /\ At("setAuth") \/ At("writeAuth") => OnlyOurs(seen)
        /\ At("writeAuth") => ~HoldsOurs(docker)
        /\ At("writeAuth") /\ DeletesNext => ~HoldsOurs(seen)
        /\ At("removeAuth") /\ HoldsOurs(docker) => HoldsOurs(seen)
        /\ At("delete") \/ (At("clean") /\ cmd.cmd # "cleanup") => ~HoldsOurs(docker)

\* What may come next, and what is left of the order behind it.
LEMMA TailLinked ==
  ASSUME NEW s \in Seq(StepSet), s # <<>>, Linked(s)
  PROVE  /\ Linked(Tail(s))
         /\ \A l : SetsOnly(s, l) => SetsOnly(Tail(s), l)
         /\ Tail(s) # <<>> =>
              LET op == Head(Tail(s)).op IN
                /\ op \notin {"announce", "store", "writeAuth"}
                /\ op \in {"setAuth", "removeAuth"} => Head(s).op = "readAuth"
                /\ op = "delete" => Head(s).op \in {"removeAuth", "writeAuth"}
                /\ op = "clean" => Head(s).op = "delete"
  <1> DEFINE t == Tail(s)
  <1>1. /\ t \in Seq(StepSet) /\ Len(s) \in Nat \ {0} /\ Len(t) = Len(s) - 1 /\ Head(s) = s[1]
        /\ \A i \in 1..Len(t) : t[i] = s[i + 1] /\ i + 1 \in 1..Len(s)
    OBVIOUS
  <1> HIDE DEF t
  <1>2. ASSUME NEW i \in 1..Len(t)
        PROVE  /\ t[i].op \notin {"announce", "store", "writeAuth"}
               /\ t[i].op = "setAuth" => i = 1 /\ s[1].op = "readAuth"
               /\ t[i].op = "removeAuth" => s[i].op = "readAuth"
               /\ t[i].op = "delete" => s[i].op \in {"removeAuth", "writeAuth"}
               /\ t[i].op = "clean" => s[i].op = "delete"
    <2>1. t[i] = s[i + 1] /\ i + 1 \in 1..Len(s) /\ i + 1 # 1 /\ (i + 1) - 1 = i
          /\ (i + 1 = 2 => i = 1)
      BY <1>1
    <2>2. /\ s[i + 1].op \in {"announce", "store", "writeAuth"} => i + 1 = 1
          /\ s[i + 1].op = "setAuth" => i + 1 = 1 \/ (i + 1 = 2 /\ s[1].op = "readAuth")
          /\ s[i + 1].op = "removeAuth" => i + 1 = 1 \/ s[(i + 1) - 1].op = "readAuth"
          /\ s[i + 1].op = "delete" => i + 1 = 1 \/ s[(i + 1) - 1].op \in {"removeAuth", "writeAuth"}
          /\ s[i + 1].op = "clean" => i + 1 = 1 \/ s[(i + 1) - 1].op = "delete"
      BY <2>1 DEF Linked
    <2> QED
      BY <2>1, <2>2
  <1>3. ASSUME NEW i \in 1..Len(t), i # 1 PROVE s[i] = t[i - 1]
    <2>1. i - 1 \in 1..Len(t) /\ (i - 1) + 1 = i
      BY <1>1, <1>3
    <2> QED
      BY <1>1, <2>1
  <1>4. Linked(t)
    BY <1>2, <1>3 DEF Linked
  <1>5. ASSUME NEW l, SetsOnly(s, l) PROVE SetsOnly(t, l)
    BY <1>1, <1>5 DEF SetsOnly
  <1>6. ASSUME t # <<>>
        PROVE  /\ Head(t).op \notin {"announce", "store", "writeAuth"}
               /\ Head(t).op \in {"setAuth", "removeAuth"} => Head(s).op = "readAuth"
               /\ Head(t).op = "delete" => Head(s).op \in {"removeAuth", "writeAuth"}
               /\ Head(t).op = "clean" => Head(s).op = "delete"
    <2>1. 1 \in 1..Len(t) /\ Head(t) = t[1]
      BY <1>1, <1>6
    <2> QED
      BY <1>1, <1>2, <2>1
  <1> QED
    BY <1>4, <1>5, <1>6 DEF t

\* A login is set in the first two steps only, so that none is left behind a step that
\* changes the credentials.
LEMMA NoneIsSet ==
  ASSUME NEW s \in Seq(StepSet), s # <<>>, Linked(s), Head(s).op # "readAuth"
  PROVE  \A i \in 1..Len(Tail(s)) : Tail(s)[i].op # "setAuth"
  <1>1. /\ Len(s) \in Nat \ {0} /\ Len(Tail(s)) = Len(s) - 1 /\ Head(s) = s[1]
        /\ \A i \in 1..Len(Tail(s)) : Tail(s)[i] = s[i + 1] /\ i + 1 \in 1..Len(s)
    OBVIOUS
  <1> SUFFICES ASSUME NEW i \in 1..Len(Tail(s)) PROVE s[i + 1].op # "setAuth"
    BY <1>1
  <1>2. i + 1 \in 1..Len(s) /\ i + 1 # 1
    BY <1>1
  <1> QED
    BY <1>1, <1>2 DEF Linked

\* Steps that have nothing to do with the login or the system may follow.
Calm(s) ==
    \A i \in 1..Len(s) :
        s[i].op \notin {"announce", "store", "writeAuth", "setAuth", "removeAuth", "delete",
                        "clean"}
LEMMA JoinCalm ==
  \A s, t \in Seq(StepSet) : /\ Calm(s) /\ Calm(t) => Calm(s \o t)
                             /\ Linked(s) /\ Calm(t) => Linked(s \o t)
                             /\ Calm(s) => Linked(s)
  <1> SUFFICES ASSUME NEW s \in Seq(StepSet), NEW t \in Seq(StepSet)
               PROVE  /\ Calm(s) /\ Calm(t) => Calm(s \o t)
                      /\ Linked(s) /\ Calm(t) => Linked(s \o t)
                      /\ Calm(s) => Linked(s)
    OBVIOUS
  <1> DEFINE u == s \o t
  <1>1. /\ Len(s) \in Nat /\ Len(t) \in Nat /\ Len(u) = Len(s) + Len(t)
        /\ \A i \in 1..Len(s) : u[i] = s[i]
        /\ \A i \in 1..Len(t) : u[Len(s) + i] = t[i]
    OBVIOUS
  <1> HIDE DEF u
  <1>2. ASSUME NEW i \in 1..Len(u), i \notin 1..Len(s)
        PROVE  i - Len(s) \in 1..Len(t) /\ u[i] = t[i - Len(s)]
    <2>1. i - Len(s) \in 1..Len(t) /\ Len(s) + (i - Len(s)) = i
      BY <1>1, <1>2
    <2> QED
      BY <1>1, <2>1
  <1>3. Calm(s) /\ Calm(t) => Calm(u)
    BY <1>1, <1>2 DEF Calm
  <1>4. ASSUME Linked(s), Calm(t) PROVE Linked(u)
    <2> SUFFICES ASSUME NEW i \in 1..Len(u)
                 PROVE  /\ u[i].op \in {"announce", "store", "writeAuth"} => i = 1
                        /\ u[i].op = "setAuth" => i = 1 \/ (i = 2 /\ u[1].op = "readAuth")
                        /\ u[i].op = "removeAuth" => i = 1 \/ u[i - 1].op = "readAuth"
                        /\ u[i].op = "delete" => i = 1 \/ u[i - 1].op \in {"removeAuth", "writeAuth"}
                        /\ u[i].op = "clean" => i = 1 \/ u[i - 1].op = "delete"
      BY DEF Linked
    <2>1. CASE i \in 1..Len(s)
      <3>1. u[i] = s[i] /\ (i # 1 => i - 1 \in 1..Len(s)) /\ 1 \in 1..Len(s)
        BY <1>1, <2>1
      <3>2. u[1] = s[1] /\ (i # 1 => u[i - 1] = s[i - 1])
        BY <1>1, <3>1
      <3> QED
        BY <1>4, <2>1, <3>1, <3>2 DEF Linked
    <2>2. CASE i \notin 1..Len(s)
      <3>1. u[i].op \notin {"announce", "store", "writeAuth", "setAuth", "removeAuth", "delete",
                            "clean"}
        BY <1>2, <1>4, <2>2 DEF Calm
      <3> QED
        BY <3>1
    <2> QED
      BY <2>1, <2>2
  <1>5. Calm(s) => Linked(s)
    BY DEF Calm, Linked
  <1> QED
    BY <1>3, <1>4, <1>5 DEF u

LEMMA FourSteps ==
  ASSUME NEW b \in StepSet, NEW c \in StepSet, NEW d \in StepSet, NEW e \in StepSet
  PROVE  LET l == ((<<b>> \o <<c>>) \o <<d>>) \o <<e>>
         IN  Len(l) = 4 /\ l[1] = b /\ l[2] = c /\ l[3] = d /\ l[4] = e
  OBVIOUS
LEMMA StepBefore ==
  ASSUME NEW S, NEW s \in Seq(S), NEW x \in S
  PROVE  /\ <<x>> \o s \in Seq(S) /\ Len(<<x>> \o s) = Len(s) + 1
         /\ \A i \in 1..Len(s) : (<<x>> \o s)[i + 1] = s[i]
         /\ (<<x>> \o s)[1] = x
  OBVIOUS
LEMMA FiveSteps ==
  ASSUME NEW a \in StepSet, NEW b \in StepSet, NEW c \in StepSet, NEW d \in StepSet,
         NEW e \in StepSet
  PROVE  LET l == ((<<b>> \o <<c>>) \o <<d>>) \o <<e>>
             s == <<a>> \o l
         IN  /\ s \in Seq(StepSet) /\ Len(s) = 5
             /\ s[1] = a /\ s[2] = b /\ s[3] = c /\ s[4] = d /\ s[5] = e
  <1>1. PICK l : l = ((<<b>> \o <<c>>) \o <<d>>) \o <<e>>
    OBVIOUS
  <1>2. l \in Seq(StepSet) /\ Len(l) = 4 /\ l[1] = b /\ l[2] = c /\ l[3] = d /\ l[4] = e
    <2>1. Len(l) = 4 /\ l[1] = b /\ l[2] = c /\ l[3] = d /\ l[4] = e
      <3> HIDE <1>1
      <3>1. LET m == ((<<b>> \o <<c>>) \o <<d>>) \o <<e>>
            IN  Len(m) = 4 /\ m[1] = b /\ m[2] = c /\ m[3] = d /\ m[4] = e
        BY FourSteps
      <3> QED
        BY <1>1, <3>1, Zenon
    <2>2. <<b>> \in Seq(StepSet) /\ <<c>> \in Seq(StepSet) /\ <<d>> \in Seq(StepSet) /\ <<e>> \in Seq(StepSet)
      OBVIOUS
    <2>3. l \in Seq(StepSet)
      BY <1>1, <2>2, JoinOK
    <2> QED
      BY <2>1, <2>3
  <1>3. /\ <<a>> \o l \in Seq(StepSet) /\ Len(<<a>> \o l) = Len(l) + 1
        /\ \A i \in 1..Len(l) : (<<a>> \o l)[i + 1] = l[i]
        /\ (<<a>> \o l)[1] = a
    BY <1>2, StepBefore
  <1>4. /\ (<<a>> \o l)[1 + 1] = l[1] /\ (<<a>> \o l)[2 + 1] = l[2]
        /\ (<<a>> \o l)[3 + 1] = l[3] /\ (<<a>> \o l)[4 + 1] = l[4]
    BY <1>2, <1>3
  <1> QED
    BY <1>1, <1>2, <1>3, <1>4

\* Every command begins with its steps in this order, and sets no login by itself.
LEMMA StepsLinked ==
  ASSUME NEW c \in Command
  PROVE  /\ Linked(Steps(c)) /\ \A i \in 1..Len(Steps(c)) : Steps(c)[i].op # "setAuth"
         /\ Steps(c) # <<>> =>
              /\ Head(Steps(c)).op \notin {"store", "removeAuth", "writeAuth", "delete"}
              /\ Head(Steps(c)).op = "clean" => c.cmd = "cleanup"
  <1> DEFINE Good(s) == Linked(s) /\ \A i \in 1..Len(s) : s[i].op # "setAuth"
  <1>1. \A op \in {"activate", "labels", "status", "keepalive", "list"} :
            Just(op) \in Seq(StepSet) /\ Calm(Just(op)) /\ Just(op) # <<>> /\ Head(Just(op)).op = op
    BY DoOK DEF Just, Do, Calm
  <1>2. Save(c) \in Seq(StepSet) /\ Calm(Save(c))
    <2>1. Calm(<<>>) /\ <<>> \in Seq(StepSet)
      BY DEF Calm
    <2>2. Just("truncate") \in Seq(StepSet) /\ Calm(Just("truncate"))
      BY DoOK DEF Just, Do, Calm
    <2>3. Just("write") \in Seq(StepSet) /\ Calm(Just("write"))
      BY DoOK DEF Just, Do, Calm
    <2> QED
      BY <2>1, <2>2, <2>3, JoinOK, JoinCalm DEF Save
  <1>3. ASSUME NEW s \in Seq(StepSet), s # <<>>, Good(s), NEW t \in Seq(StepSet), Calm(t)
        PROVE  Good(s \o t) /\ s \o t # <<>> /\ Head(s \o t) = Head(s)
    <2> DEFINE u == s \o t
    <2>1. /\ u \in Seq(StepSet) /\ Len(u) = Len(s) + Len(t) /\ Len(s) \in Nat \ {0} /\ Len(t) \in Nat
          /\ \A i \in 1..Len(s) : u[i] = s[i]
          /\ \A i \in 1..Len(t) : u[Len(s) + i] = t[i]
      BY <1>3
    <2>2. Linked(u)
      BY <1>3, JoinCalm
    <2> HIDE DEF u
    <2>3. ASSUME NEW i \in 1..Len(u) PROVE u[i].op # "setAuth"
      <3>1. CASE i \in 1..Len(s)
        BY <1>3, <2>1, <3>1
      <3>2. CASE i \notin 1..Len(s)
        <4>1. i - Len(s) \in 1..Len(t) /\ Len(s) + (i - Len(s)) = i
          BY <2>1, <3>2
        <4>2. u[i] = t[i - Len(s)]
          BY <2>1, <4>1
        <4> QED
          BY <1>3, <4>1, <4>2 DEF Calm
      <3> QED
        BY <3>1, <3>2
    <2>4. u # <<>> /\ Head(u) = u[1] /\ Head(s) = s[1]
      BY <1>3, <2>1
    <2> QED
      BY <2>1, <2>2, <2>3, <2>4 DEF u
  <1>4. ASSUME NEW s \in Seq(StepSet), Len(s) = 1, s[1].op # "setAuth"
        PROVE  Good(s) /\ s # <<>> /\ Head(s) = s[1]
    <2>1. s # <<>> /\ Head(s) = s[1]
      BY <1>4, FirstStep
    <2>2. \A i \in 1..Len(s) : i = 1
      BY <1>4
    <2>3. Linked(s)
      BY <2>2 DEF Linked
    <2> QED
      BY <1>4, <2>1, <2>2, <2>3
  <1>5. ASSUME NEW op, NEW x, Do(op, x) \in Seq(StepSet), op # "setAuth"
        PROVE  Good(Do(op, x)) /\ Do(op, x) # <<>> /\ Head(Do(op, x)).op = op
    <2>1. Len(Do(op, x)) = 1 /\ Do(op, x)[1].op = op
      BY DEF Do
    <2> QED
      BY <1>4, <1>5, <2>1
  <1>6. ASSUME NEW op \in {"announce", "clean", "status", "keepalive", "list"}
        PROVE  /\ Just(op) \in Seq(StepSet) /\ Good(Just(op)) /\ Just(op) # <<>>
               /\ Head(Just(op)).op = op
    <2>1. Just(op) = Do(op, None) /\ Just(op) \in Seq(StepSet)
      BY DoOK DEF Just
    <2> QED
      BY <1>5, <2>1
  <1>7. ASSUME NEW S \in SUBSET Products
        PROVE  /\ Do("deactivate", S) \o Leave \in Seq(StepSet) /\ Good(Do("deactivate", S) \o Leave)
               /\ Do("deactivate", S) \o Leave # <<>>
               /\ Head(Do("deactivate", S) \o Leave).op = "deactivate"
    <2> DEFINE s == Do("deactivate", S) \o Leave
    <2>1. PICK a \in StepSet : Do("deactivate", S) = <<a>> /\ a.op = "deactivate"
      <3>1. [op |-> "deactivate", on |-> S] \in StepSet
        BY DEF StepSet
      <3> QED
        BY <3>1 DEF Do
    <2>2. \A op \in {"readAuth", "removeAuth", "delete", "clean"} :
              \E x \in StepSet : Just(op) = <<x>> /\ x.op = op
      <3>1. \A op \in {"readAuth", "removeAuth", "delete", "clean"} :
                [op |-> op, on |-> None] \in StepSet
        BY DEF StepSet
      <3> QED
        BY <3>1 DEF Just, Do
    <2>3. /\ s \in Seq(StepSet) /\ Len(s) = 5 /\ s[1].op = "deactivate" /\ s[2].op = "readAuth"
          /\ s[3].op = "removeAuth" /\ s[4].op = "delete" /\ s[5].op = "clean"
      <3>1. PICK b \in StepSet : Just("readAuth") = <<b>> /\ b.op = "readAuth"
        BY <2>2
      <3>2. PICK d \in StepSet : Just("removeAuth") = <<d>> /\ d.op = "removeAuth"
        BY <2>2
      <3>3. PICK e \in StepSet : Just("delete") = <<e>> /\ e.op = "delete"
        BY <2>2
      <3>4. PICK f \in StepSet : Just("clean") = <<f>> /\ f.op = "clean"
        BY <2>2
      <3>5. s = <<a>> \o (((<<b>> \o <<d>>) \o <<e>>) \o <<f>>)
        BY <2>1, <3>1, <3>2, <3>3, <3>4 DEF Leave
      <3> HIDE DEF s
      <3> QED
        BY <2>1, <3>1, <3>2, <3>3, <3>4, <3>5, FiveSteps
    <2> HIDE DEF s
    <2>4. s # <<>> /\ Head(s) = s[1]
      <3>1. s \in Seq(StepSet) /\ Len(s) # 0
        BY <2>3
      <3> QED
        BY <3>1, FirstStep
    <2>5. \A i \in 1..Len(s) : i \in {1, 2, 3, 4, 5} /\ s[i].op # "setAuth"
      BY <2>3
    <2>6. Linked(s)
      BY <2>3, <2>5 DEF Linked
    <2> QED
      BY <2>3, <2>4, <2>5, <2>6 DEF s
  <1> HIDE DEF Good
  <1>8. CASE c.cmd = "register"
    <2> DEFINE l == IF c.labels THEN Just("labels") ELSE <<>>
               more == (Just("activate") \o l) \o Save(c)
    <2>1. l \in Seq(StepSet) /\ Calm(l)
      BY <1>1 DEF Calm
    <2>2. Steps(c) = ((Just("announce") \o Just("activate")) \o l) \o Save(c)
      BY <1>8 DEF Steps
    <2> HIDE DEF l
    <2>3. LET s == Just("announce") \o Just("activate")
          IN  s \in Seq(StepSet) /\ Good(s) /\ s # <<>> /\ Head(s).op = "announce"
      BY <1>1, <1>3, <1>6, JoinOK
    <2>4. LET s == (Just("announce") \o Just("activate")) \o l
          IN  s \in Seq(StepSet) /\ Good(s) /\ s # <<>> /\ Head(s).op = "announce"
      BY <1>3, <2>1, <2>3, JoinOK
    <2>5. Good(Steps(c)) /\ Head(Steps(c)).op = "announce"
      BY <1>2, <1>3, <2>2, <2>4
    <2> QED
      BY <2>5 DEF Good
  <1>9. CASE c.cmd = "deregister"
    <2>1. PICK s \in Seq(StepSet) : /\ Good(s) /\ s # <<>> /\ Head(s).op = "deactivate"
                                    /\ Steps(c) = s \o Save(c)
      <3>1. CASE c.product # ""
        <4>1. Steps(c) = Do("deactivate", {c.product}) \o Save(c) /\ {c.product} \in SUBSET Products
          BY <1>9, <3>1 DEF Steps, Command
        <4>2. Do("deactivate", {c.product}) \in Seq(StepSet)
          BY <4>1, DoOK
        <4> QED
          BY <1>5, <4>1, <4>2
      <3>2. CASE c.product = ""
        <4>1. Steps(c) = (Do("deactivate", Products \ {Base}) \o Leave) \o Save(c)
          BY <1>9, <3>2 DEF Steps
        <4>2. Products \ {Base} \in SUBSET Products
          OBVIOUS
        <4> QED
          BY <1>7, <4>1, <4>2
      <3> QED
        BY <3>1, <3>2
    <2>2. Good(Steps(c)) /\ Head(Steps(c)).op = "deactivate"
      BY <1>2, <1>3, <2>1
    <2> QED
      BY <2>2 DEF Good
  <1>10. CASE c.cmd = "cleanup" \/ c.cmd = "status" \/ (c.cmd = "keepalive" /\ ~c.suma)
    <2>1. PICK op \in {"clean", "status", "keepalive"} :
              Steps(c) = Just(op) \o Save(c) /\ (op = "clean" => c.cmd = "cleanup")
      BY <1>10 DEF Steps
    <2>2. Good(Steps(c)) /\ Head(Steps(c)).op = op
      BY <1>2, <1>3, <1>6, <2>1
    <2> QED
      BY <2>1, <2>2 DEF Good
  <1>11. CASE c.cmd = "keepalive" /\ c.suma
    <2>1. Steps(c) = <<>>
      BY <1>11 DEF Steps
    <2> QED
      BY <2>1 DEF Linked
  <1>12. CASE c.cmd = "list"
    <2>1. Steps(c) = Just("list")
      BY <1>12 DEF Steps
    <2>2. Good(Steps(c)) /\ Head(Steps(c)).op = "list"
      BY <1>6, <2>1
    <2> QED
      BY <2>2 DEF Good
  <1> QED
    BY <1>8, <1>9, <1>10, <1>11, <1>12 DEF Command

\* What the steps do to docker's file and the credentials.
Access   == <<docker, creds, leftover>>
Rests    == UNCHANGED <<Access, seen, cmd, todo>>
Passes   ==
    /\ todo # <<>> /\ Head(todo).op \notin {"store", "readAuth", "setAuth", "removeAuth", "writeAuth", "clean"}
    /\ Then(<<>>) /\ UNCHANGED <<Access, seen>>
Enrolls  ==
    /\ At("announce") /\ creds = None /\ \E l \in Login : Then(Do("store", l))
    /\ UNCHANGED <<Access, seen>>
GivesUp  == todo' = <<>> /\ UNCHANGED Access

LEMMA LoginKinds ==
  ASSUME TypeInv, [Next]_vars
  PROVE  \/ \E c \in plan.commands : Start(c)
         \/ Rests \/ Passes \/ Enrolls \/ GivesUp
         \/ CreateCredentials \/ LoadFrom \/ SetAuth \/ RemoveAuth \/ WriteAuth \/ Cleanup
         \/ UserWithDocker
  <1>1. CASE announceOrUpdate
    <2> DEFINE login == [n |-> issued + 1, url |-> cfg.url]
    <2>1. At("announce") /\ UNCHANGED <<docker, seen, creds>>
      BY <1>1 DEF announceOrUpdate, system, dockerVars
    <2>2. CASE issued < MaxLogins /\ ~Registered /\ Then(Do("store", login)) /\ Noted
      <3>1. login \in Login
        BY <2>2, NewLoginOK
      <3> HIDE DEF login
      <3> QED
        BY <2>1, <2>2, <3>1 DEF Enrolls, Access, Registered, Noted
    <2>3. CASE Then(<<>>) /\ Noted
      BY <2>1, <2>3 DEF Passes, Access, Noted, At
    <2>4. CASE Refuse
      BY <2>1, <2>4 DEF GivesUp, Access, Refuse, End
    <2> QED
      BY <1>1, <2>2, <2>3, <2>4 DEF announceOrUpdate
  <1>2. CASE RegisterProducts \/ Deactivate
    <2>1. UNCHANGED <<docker, seen, creds>> /\ (At("activate") \/ At("deactivate"))
      BY <1>2 DEF RegisterProducts, Deactivate, dockerVars
    <2>2. CASE Then(<<>>) /\ Noted
      BY <2>1, <2>2 DEF Passes, Access, Noted, At
    <2>3. CASE End("failed") /\ UNCHANGED leftover
      BY <2>1, <2>3 DEF GivesUp, Access, End
    <2> QED
      BY <1>2, <2>2, <2>3 DEF RegisterProducts, Deactivate, Refuse
  <1>3. CASE GetProductStatuses \/ ListExtensions \/ SendKeepAlivePing
    <2>1. UNCHANGED <<docker, seen, creds>> /\ (At("status") \/ At("list") \/ At("keepalive"))
      BY <1>3 DEF GetProductStatuses, ListExtensions, SendKeepAlivePing, dockerVars, system
    <2>2. CASE Then(<<>>) /\ Noted
      BY <2>1, <2>2 DEF Passes, Access, Noted, At
    <2>3. CASE Refuse
      BY <2>1, <2>3 DEF GivesUp, Access, Refuse, End
    <2> QED
      BY <1>3, <2>2, <2>3 DEF GetProductStatuses, ListExtensions, SendKeepAlivePing
  <1>4. CASE AssignAndCreateLabels \/ DeregisterSystem \/ SaveTruncates \/ SaveWrites
    <2>1. UNCHANGED <<docker, seen, creds, leftover>> /\ Then(<<>>)
      BY <1>4 DEF AssignAndCreateLabels, DeregisterSystem, SaveTruncates, SaveWrites, dockerVars,
                  system, Noted
    <2>2. At("labels") \/ At("delete") \/ At("truncate") \/ At("write")
      BY <1>4 DEF AssignAndCreateLabels, DeregisterSystem, SaveTruncates, SaveWrites
    <2> QED
      BY <2>1, <2>2 DEF Passes, Access, At
  <1>5. CASE Finish \/ UNCHANGED vars \/ SearchPackages
    BY <1>5 DEF Finish, SearchPackages, vars, Rests, Access, dockerVars, system, history, process
  <1>6. CASE Besides
    BY <1>6 DEF Besides, Tracker, TrackerEnds, TimePasses, KilledTracker, TrackerFails, PowerFails, Beside,
                Rests, Access, dockerVars, system, history, process
  <1>7. CASE Fail \/ Kill
    BY <1>7 DEF Fail, Kill, End, GivesUp, Access, dockerVars, system
  <1> QED
    BY <1>1, <1>2, <1>3, <1>4, <1>5, <1>6, <1>7 DEF Next, Step, Besides

LEMMA NobodyElses ==
  ASSUME TypeInv
  PROVE  /\ creds \notin {NoLogin, Manual} /\ (docker = Emptied => ~Readable(docker))
         /\ Readable(docker) => docker \in Logins(Login)
         /\ Readable(seen) => seen \in Logins(Login)
         /\ \A d \in Logins(Login) : d.suse \in Login \cup {NoLogin, Manual} /\ d.suse # None
  BY ValuesAssumption DEF TypeInv, TypeOK, Readable, Logins

\* A step that leaves docker's file and the credentials alone: the next one is what the
\* order says.
LEMMA LoginPasses ==
  ASSUME TypeInv, LoginInv, Passes
  PROVE  LoginInv'
  <1>1. /\ todo # <<>> /\ todo \in Seq(StepSet) /\ todo' = Tail(todo) /\ cmd' = cmd
        /\ UNCHANGED <<docker, creds, leftover, seen>>
    BY Advance DEF Passes, Access, TypeInv
  <1>2. Linked(todo') /\ SetsOnly(todo', creds')
    BY <1>1, TailLinked DEF LoginInv
  <1>3. ~At("store")' /\ ~At("setAuth")' /\ ~At("removeAuth")' /\ ~At("writeAuth")'
    BY <1>1, TailLinked DEF LoginInv, At, Passes
  <1>4. ~At("delete")' /\ (At("clean")' => At("delete"))
    BY <1>1, TailLinked DEF LoginInv, At, Passes
  <1>5. OnlyOurs(docker)' = OnlyOurs(docker) /\ HoldsOurs(docker)' = HoldsOurs(docker)
    BY <1>1 DEF OnlyOurs, HoldsOurs
  <1> QED
    BY <1>1, <1>2, <1>3, <1>4, <1>5 DEF LoginInv

LEMMA LoginRests ==
  ASSUME LoginInv, Rests
  PROVE  LoginInv'
  <1>1. UNCHANGED <<docker, creds, leftover, seen, cmd, todo>>
    BY DEF Rests, Access
  <1> QED
    BY <1>1 DEF LoginInv, At, OnlyOurs, HoldsOurs, DeletesNext

LEMMA EmptyLinked == /\ Linked(<<>>) /\ \A l : SetsOnly(<<>>, l)
                     /\ \A i \in 1..Len(<<>>) : FALSE
  BY DEF Linked, SetsOnly

LEMMA LoginGivesUp ==
  ASSUME LoginInv, GivesUp
  PROVE  LoginInv'
  <1>1. todo' = <<>> /\ UNCHANGED <<docker, creds, leftover>>
    BY DEF GivesUp, Access
  <1>2. \A op : ~At(op)'
    BY <1>1 DEF At
  <1>3. OnlyOurs(docker)' = OnlyOurs(docker)
    BY <1>1 DEF OnlyOurs
  <1>4. Linked(todo') /\ SetsOnly(todo', creds')
    BY <1>1, EmptyLinked
  <1> QED
    BY <1>1, <1>2, <1>3, <1>4 DEF LoginInv

\* The steps put before the rest of a command.
LEMMA Pushed ==
  ASSUME NEW s \in Seq(StepSet), s # <<>>, Linked(s), Head(s).op \notin {"readAuth", "delete"},
         NEW x \in StepSet, x.op \in {"store", "setAuth", "writeAuth"},
         Head(s).op \in {"removeAuth", "writeAuth"} => x.op = "writeAuth"
  PROVE  LET u == <<x>> \o Tail(s)
         IN  /\ u \in Seq(StepSet) /\ u # <<>> /\ Head(u) = x /\ Linked(u)
             /\ \A i \in 2..Len(u) : u[i].op # "setAuth"
  <1> DEFINE u == <<x>> \o Tail(s)
  <1>1. /\ Len(s) \in Nat \ {0} /\ Tail(s) \in Seq(StepSet) /\ Len(Tail(s)) = Len(s) - 1
        /\ Head(s) = s[1] /\ \A i \in 1..Len(Tail(s)) : Tail(s)[i] = s[i + 1]
    OBVIOUS
  <1>2. u # <<>> /\ Head(u) = x
    BY <1>1, PushStep
  <1>3. /\ u \in Seq(StepSet) /\ Len(u) = Len(Tail(s)) + 1 /\ u[1] = x
        /\ \A i \in 1..Len(Tail(s)) : u[i + 1] = Tail(s)[i]
    BY <1>1, StepBefore
  <1> HIDE DEF u
  <1>4. Len(u) = Len(s)
    BY <1>1, <1>3
  <1>5. ASSUME NEW i \in 2..Len(u) PROVE u[i] = s[i] /\ i \in 1..Len(s) /\ i # 1
    <2>1. i - 1 \in 1..Len(Tail(s)) /\ (i - 1) + 1 = i
      BY <1>1, <1>4
    <2>2. u[(i - 1) + 1] = Tail(s)[i - 1] /\ Tail(s)[i - 1] = s[(i - 1) + 1]
      BY <1>1, <1>3, <2>1
    <2> QED
      BY <1>4, <2>1, <2>2
  <1>6. ASSUME NEW i \in 2..Len(u)
        PROVE  /\ u[i].op \notin {"announce", "store", "writeAuth", "setAuth"}
               /\ u[i].op = "removeAuth" => u[i - 1].op = "readAuth"
               /\ u[i].op = "delete" => u[i - 1].op \in {"removeAuth", "writeAuth"}
               /\ u[i].op = "clean" => u[i - 1].op = "delete"
    <2>1. /\ s[i].op \notin {"announce", "store", "writeAuth"}
          /\ s[i].op = "setAuth" => s[1].op = "readAuth"
          /\ s[i].op = "removeAuth" => s[i - 1].op = "readAuth"
          /\ s[i].op = "delete" => s[i - 1].op \in {"removeAuth", "writeAuth"}
          /\ s[i].op = "clean" => s[i - 1].op = "delete"
      BY <1>5 DEF Linked
    <2>2. i - 1 = 1 \/ i - 1 \in 2..Len(u)
      BY <1>4
    <2>3. CASE i - 1 = 1
      <3>1. /\ s[i - 1].op = Head(s).op /\ u[i - 1] = x /\ u[i].op = s[i].op
            /\ s[1].op = Head(s).op
        BY <1>1, <1>3, <1>5, <2>3
      <3> QED
        BY <2>1, <3>1
    <2>4. CASE i - 1 \in 2..Len(u)
      BY <1>1, <1>5, <2>1, <2>4
    <2> QED
      BY <2>2, <2>3, <2>4
  <1>7. \A i \in 1..Len(u) : i = 1 \/ i \in 2..Len(u)
    BY <1>3
  <1>8. Linked(u)
    BY <1>6, <1>7 DEF Linked
  <1> QED
    BY <1>2, <1>3, <1>6, <1>8 DEF u

LEMMA LoginEnrolls ==
  ASSUME TypeInv, LoginInv, Enrolls
  PROVE  LoginInv'
  <1>1. PICK l \in Login : Then(Do("store", l))
    BY DEF Enrolls
  <1>2. PICK x \in StepSet : Do("store", l) = <<x>> /\ x.op = "store"
    <2>1. [op |-> "store", on |-> l] \in StepSet
      BY DEF StepSet
    <2> QED
      BY <2>1 DEF Do
  <1>3. /\ todo # <<>> /\ todo \in Seq(StepSet) /\ Head(todo).op = "announce"
        /\ creds = None /\ UNCHANGED <<docker, creds, leftover>>
    BY DEF Enrolls, At, Access, TypeInv
  <1>4. todo' = <<x>> \o Tail(todo)
    BY <1>1, <1>2 DEF Then
  <1>5. /\ todo' \in Seq(StepSet) /\ todo' # <<>> /\ Head(todo') = x /\ Linked(todo')
        /\ \A i \in 2..Len(todo') : todo'[i].op # "setAuth"
    BY <1>2, <1>3, <1>4, Pushed DEF LoginInv
  <1>6. SetsOnly(todo', creds')
    <2>1. todo'[1].op = "store" /\ \A i \in 1..Len(todo') : i = 1 \/ i \in 2..Len(todo')
      BY <1>2, <1>5
    <2> QED
      BY <1>5, <2>1 DEF SetsOnly
  <1>7. \A op : op # "store" => ~At(op)'
    BY <1>2, <1>5 DEF At
  <1>8. OnlyOurs(docker)' = OnlyOurs(docker)
    BY <1>3 DEF OnlyOurs
  <1> QED
    BY <1>3, <1>5, <1>6, <1>7, <1>8 DEF LoginInv

LEMMA ReadBefore ==
  ASSUME NEW u \in Seq(StepSet), u # <<>>, Linked(u), Head(u).op = "setAuth",
         \A i \in 2..Len(u) : u[i].op # "setAuth",
         NEW r \in StepSet, r.op = "readAuth"
  PROVE  LET v == <<r>> \o u
         IN  Linked(v) /\ SetsOnly(v, Head(u).on) /\ v # <<>> /\ Head(v) = r
  <1> DEFINE v == <<r>> \o u
  <1>1. Len(u) \in Nat \ {0} /\ Head(u) = u[1]
    OBVIOUS
  <1>2. v # <<>> /\ Head(v) = r
    BY PushStep
  <1>3. v \in Seq(StepSet) /\ Len(v) = Len(u) + 1 /\ v[1] = r /\ \A i \in 1..Len(u) : v[i + 1] = u[i]
    BY StepBefore
  <1> HIDE DEF v
  <1>4. ASSUME NEW i \in 1..Len(v), i # 1
        PROVE  i - 1 \in 1..Len(u) /\ v[i] = u[i - 1] /\ (i # 2 => i - 1 # 1 /\ i - 1 \in 2..Len(u)
               /\ i - 2 \in 1..Len(u) /\ v[i - 1] = u[(i - 1) - 1])
    <2>1. i - 1 \in 1..Len(u) /\ (i - 1) + 1 = i
      BY <1>3, <1>4
    <2>2. v[i] = u[i - 1]
      BY <1>3, <2>1
    <2>3. ASSUME i # 2
          PROVE  /\ i - 1 # 1 /\ i - 1 \in 2..Len(u) /\ i - 2 \in 1..Len(u)
                 /\ (i - 2) + 1 = i - 1 /\ (i - 1) - 1 = i - 2
      BY <1>3, <1>4, <2>3
    <2> QED
      BY <1>3, <2>1, <2>2, <2>3
  <1>5. ASSUME NEW i \in 1..Len(v), i # 1
        PROVE  /\ v[i].op \notin {"announce", "store", "writeAuth"}
               /\ v[i].op = "setAuth" => i = 2 /\ v[i].on = Head(u).on
               /\ v[i].op = "removeAuth" => v[i - 1].op = "readAuth"
               /\ v[i].op = "delete" => v[i - 1].op \in {"removeAuth", "writeAuth"}
               /\ v[i].op = "clean" => v[i - 1].op = "delete"
    <2>1. CASE i = 2
      <3>1. v[2] = u[2 - 1]
        BY <1>4, <2>1
      <3>2. v[i] = Head(u)
        BY <1>1, <2>1, <3>1
      <3> QED
        BY <2>1, <3>2
    <2>2. CASE i # 2
      <3>1. PICK j \in 2..Len(u) : j = i - 1 /\ j \in 1..Len(u) /\ j # 1 /\ v[i] = u[j] /\ v[j] = u[j - 1]
        BY <1>4, <1>5, <2>2
      <3>2. /\ u[j].op \notin {"announce", "store", "writeAuth", "setAuth"}
            /\ u[j].op = "removeAuth" => u[j - 1].op = "readAuth"
            /\ u[j].op = "delete" => u[j - 1].op \in {"removeAuth", "writeAuth"}
            /\ u[j].op = "clean" => u[j - 1].op = "delete"
        BY <3>1 DEF Linked
      <3>3. /\ v[i].op \notin {"announce", "store", "writeAuth", "setAuth"}
            /\ v[i].op = "removeAuth" => v[j].op = "readAuth"
            /\ v[i].op = "delete" => v[j].op \in {"removeAuth", "writeAuth"}
            /\ v[i].op = "clean" => v[j].op = "delete"
        BY <3>1, <3>2
      <3> QED
        BY <3>1, <3>3
    <2> QED
      BY <2>1, <2>2
  <1>6. Linked(v)
    BY <1>3, <1>5 DEF Linked
  <1>7. SetsOnly(v, Head(u).on)
    BY <1>3, <1>5 DEF SetsOnly
  <1> QED
    BY <1>2, <1>6, <1>7 DEF v

\* New credentials are stored where there were none, so that docker's file names no
\* other system; their login is what will be set.
LEMMA LoginStores ==
  ASSUME TypeInv, LoginInv, CreateCredentials
  PROVE  LoginInv'
  <1>1. /\ At("store") /\ todo # <<>> /\ todo \in Seq(StepSet) /\ Head(todo).op = "store"
        /\ On \in Login /\ creds = None /\ creds' = On /\ UNCHANGED <<docker, leftover>>
    BY AtOK DEF CreateCredentials, At, LoginInv, TypeInv, dockerVars, Noted
  <1>2. ~leftover' => OnlyOurs(docker)'
    <2>1. ~leftover => OnlyOurs(docker)
      BY DEF LoginInv
    <2>2. Readable(docker) => docker.suse # None
      BY NobodyElses
    <2> QED
      BY <1>1, <2>1, <2>2 DEF OnlyOurs
  <1>3. CASE Then(<<>>)
    <2>1. todo' = Tail(todo)
      BY <1>1, <1>3, Advance
    <2>2. Linked(todo') /\ \A i \in 1..Len(todo') : todo'[i].op # "setAuth"
      BY <1>1, <2>1, TailLinked, NoneIsSet DEF LoginInv
    <2>3. /\ ~At("store")' /\ ~At("setAuth")' /\ ~At("removeAuth")' /\ ~At("writeAuth")'
          /\ ~At("delete")' /\ ~At("clean")'
      BY <1>1, <2>1, TailLinked DEF LoginInv, At
    <2>4. SetsOnly(todo', creds')
      BY <2>2 DEF SetsOnly
    <2> QED
      BY <1>2, <2>2, <2>3, <2>4 DEF LoginInv
  <1>4. CASE Then(Just("readAuth") \o Do("setAuth", On))
    <2>1. PICK r \in StepSet : Just("readAuth") = <<r>> /\ r.op = "readAuth"
      <3>1. [op |-> "readAuth", on |-> None] \in StepSet
        BY DEF StepSet
      <3> QED
        BY <3>1 DEF Just, Do
    <2>2. PICK x \in StepSet : Do("setAuth", On) = <<x>> /\ x.op = "setAuth" /\ x.on = On
      <3>1. [op |-> "setAuth", on |-> On] \in StepSet
        BY <1>1 DEF StepSet
      <3> QED
        BY <3>1 DEF Do
    <2>3. PICK u : u = <<x>> \o Tail(todo)
      OBVIOUS
    <2>4. todo' = <<r>> \o u
      <3>1. todo' = (<<r>> \o <<x>>) \o Tail(todo)
        BY <1>4, <2>1, <2>2 DEF Then
      <3>2. <<r>> \in Seq(StepSet) /\ <<x>> \in Seq(StepSet) /\ Tail(todo) \in Seq(StepSet)
        BY <1>1
      <3> QED
        BY <2>3, <3>1, <3>2, JoinAssoc
    <2>5. /\ u \in Seq(StepSet) /\ u # <<>> /\ Head(u) = x /\ Linked(u)
          /\ \A i \in 2..Len(u) : u[i].op # "setAuth"
      BY <1>1, <2>2, <2>3, Pushed DEF LoginInv
    <2>6. Linked(todo') /\ SetsOnly(todo', On) /\ todo' # <<>> /\ Head(todo') = r
      BY <2>1, <2>2, <2>4, <2>5, ReadBefore
    <2>7. \A op : op # "readAuth" => ~At(op)'
      BY <2>1, <2>6 DEF At
    <2> QED
      BY <1>1, <1>2, <2>6, <2>7 DEF LoginInv
  <1> QED
    BY <1>3, <1>4 DEF CreateCredentials

\* What is read is what docker's file holds.
LEMMA LoginReads ==
  ASSUME TypeInv, LoginInv, LoadFrom
  PROVE  LoginInv'
  <1>1. /\ todo # <<>> /\ todo \in Seq(StepSet) /\ todo' = Tail(todo) /\ Head(todo).op = "readAuth"
        /\ UNCHANGED <<docker, creds, leftover>> /\ seen' = docker
    BY Advance DEF LoadFrom, At, ReadDocker, TypeInv, system, Noted
  <1>2. Linked(todo') /\ SetsOnly(todo', creds')
    BY <1>1, TailLinked DEF LoginInv
  <1>3. ~At("store")' /\ ~At("writeAuth")' /\ ~At("delete")' /\ ~At("clean")'
    BY <1>1, TailLinked DEF LoginInv, At
  <1>4. OnlyOurs(docker)' = OnlyOurs(docker) /\ OnlyOurs(seen)' = OnlyOurs(docker)
    BY <1>1 DEF OnlyOurs
  <1>5. HoldsOurs(seen)' = HoldsOurs(docker)'
    BY <1>1 DEF HoldsOurs
  <1> QED
    BY <1>1, <1>2, <1>3, <1>4, <1>5 DEF LoginInv

\* Behind a step that has emptied docker's file the rest of the command is as it was.
LEMMA LoginOpens ==
  ASSUME TypeInv, LoginInv, At("setAuth") \/ At("removeAuth"), Then(Just("writeAuth"))
  PROVE  /\ Linked(todo') /\ At("writeAuth")' /\ \A op : op # "writeAuth" => ~At(op)'
         /\ \A l : SetsOnly(todo', l)
         /\ At("setAuth") => ~DeletesNext'
  <1>1. PICK x \in StepSet : Just("writeAuth") = <<x>> /\ x.op = "writeAuth"
    <2>1. [op |-> "writeAuth", on |-> None] \in StepSet
      BY DEF StepSet
    <2> QED
      BY <2>1 DEF Just, Do
  <1>2. /\ todo # <<>> /\ todo \in Seq(StepSet) /\ Head(todo).op \in {"setAuth", "removeAuth"}
        /\ todo' = <<x>> \o Tail(todo) /\ Tail(todo) \in Seq(StepSet)
    BY <1>1, FirstStep DEF At, TypeInv, Then
  <1>3. /\ todo' \in Seq(StepSet) /\ todo' # <<>> /\ Head(todo') = x /\ Linked(todo')
        /\ \A i \in 2..Len(todo') : todo'[i].op # "setAuth"
    BY <1>1, <1>2, Pushed DEF LoginInv
  <1>4. ASSUME NEW l PROVE SetsOnly(todo', l)
    <2>1. todo'[1].op = "writeAuth" /\ \A i \in 1..Len(todo') : i = 1 \/ i \in 2..Len(todo')
      BY <1>1, <1>3
    <2> QED
      BY <1>3, <2>1 DEF SetsOnly
  <1>5. ASSUME At("setAuth") PROVE ~DeletesNext'
    <2>1. Tail(todo') = Tail(todo)
      BY <1>2, PushStep
    <2>2. Tail(todo) # <<>> => Head(Tail(todo)).op # "delete"
      BY <1>2, <1>5, TailLinked DEF LoginInv, At
    <2> QED
      BY <2>1, <2>2 DEF DeletesNext
  <1> QED
    BY <1>1, <1>3, <1>4, <1>5 DEF At

\* The login that is set is the one of the credentials file.
LEMMA LoginSets ==
  ASSUME TypeInv, LoginInv, SetAuth
  PROVE  LoginInv'
  <1>1. /\ At("setAuth") /\ todo # <<>> /\ todo \in Seq(StepSet)
        /\ Head(todo).op = "setAuth" /\ creds' = creds
    BY DEF SetAuth, At, TypeInv, system
  <1>2. CASE GoesWrong /\ Then(<<>>)
    <2>1. leftover' = TRUE /\ todo' = Tail(todo)
      BY <1>1, <1>2, Advance DEF GoesWrong
    <2>2. Linked(todo') /\ SetsOnly(todo', creds') /\ ~At("store")'
      BY <1>1, <2>1, TailLinked DEF LoginInv, At
    <2> QED
      BY <2>1, <2>2 DEF LoginInv
  <1>3. CASE setupRegistryAuthentication(On) /\ Then(Just("writeAuth")) /\ UNCHANGED leftover
    <2>1. /\ Linked(todo') /\ At("writeAuth")' /\ (\A op : op # "writeAuth" => ~At(op)')
          /\ SetsOnly(todo', creds') /\ ~DeletesNext'
      BY <1>1, <1>3, LoginOpens
    <2>2. On = creds
      <3>1. 1 \in 1..Len(todo) /\ Head(todo) = todo[1]
        BY <1>1
      <3> QED
        BY <1>1, <3>1 DEF LoginInv, SetsOnly, On
    <2>3. docker' = Emptied /\ seen' = SetLogin(Content(seen), creds)
      BY <1>3, <2>2 DEF setupRegistryAuthentication, OpenForWriting
    <2>4. OnlyOurs(docker)' /\ ~HoldsOurs(docker)'
      BY <2>3 DEF OnlyOurs, HoldsOurs, Readable
    <2>5. ASSUME ~leftover' PROVE OnlyOurs(seen)'
      <3>1. OnlyOurs(seen)
        BY <1>1, <1>3, <2>5 DEF LoginInv
      <3>2. Content(seen) \in Logins(Login)
        BY NobodyElses DEF Content, Empty, Logins
      <3>3. Content(seen).suse \in {NoLogin, Manual, creds}
        BY <3>1 DEF OnlyOurs, Content, Empty
      <3>4. SetLogin(Content(seen), creds).suse \in {Content(seen).suse, creds}
        BY <3>2 DEF SetLogin, Logins
      <3> QED
        BY <1>1, <2>3, <3>3, <3>4 DEF OnlyOurs
    <2> QED
      BY <2>1, <2>4, <2>5 DEF LoginInv
  <1> QED
    BY <1>2, <1>3 DEF SetAuth

\* What is ours in docker's file was there when the file was read, and goes.
LEMMA LoginRemoves ==
  ASSUME TypeInv, LoginInv, RemoveAuth
  PROVE  LoginInv'
  <1>1. /\ At("removeAuth") /\ todo # <<>> /\ todo \in Seq(StepSet)
        /\ Head(todo).op = "removeAuth" /\ creds' = creds
    BY DEF RemoveAuth, At, TypeInv, system
  <1>2. Then(<<>>) =>
          /\ todo' = Tail(todo) /\ Linked(todo') /\ SetsOnly(todo', creds')
          /\ ~At("store")' /\ ~At("setAuth")' /\ ~At("removeAuth")' /\ ~At("writeAuth")'
          /\ ~At("clean")'
    <2> SUFFICES ASSUME Then(<<>>)
                 PROVE  /\ todo' = Tail(todo) /\ Linked(todo') /\ SetsOnly(todo', creds')
                        /\ ~At("store")' /\ ~At("setAuth")' /\ ~At("removeAuth")'
                        /\ ~At("writeAuth")' /\ ~At("clean")'
      OBVIOUS
    <2>1. todo' = Tail(todo)
      BY <1>1, Advance
    <2>2. Linked(todo') /\ SetsOnly(todo', creds')
      BY <1>1, <2>1, TailLinked DEF LoginInv
    <2>3. /\ ~At("store")' /\ ~At("setAuth")' /\ ~At("removeAuth")'
          /\ ~At("writeAuth")' /\ ~At("clean")'
      BY <1>1, <2>1, TailLinked DEF LoginInv, At
    <2> QED
      BY <2>1, <2>2, <2>3
  <1>3. CASE GoesWrong /\ Then(<<>>)
    BY <1>2, <1>3 DEF LoginInv, GoesWrong
  <1>4. CASE removeRegistryAuthentication(creds) /\ Removes(creds) /\ Then(Just("writeAuth"))
             /\ UNCHANGED leftover
    <2>1. /\ Linked(todo') /\ At("writeAuth")' /\ (\A op : op # "writeAuth" => ~At(op)')
          /\ SetsOnly(todo', creds')
      BY <1>1, <1>4, LoginOpens
    <2>2. docker' = Emptied /\ seen' = RemoveLogin(seen) /\ seen \in Logins(Login)
      BY <1>4, NobodyElses DEF removeRegistryAuthentication, Removes, OpenForWriting
    <2>3. OnlyOurs(docker)' /\ ~HoldsOurs(docker)'
      BY <2>2 DEF OnlyOurs, HoldsOurs, Readable
    <2>4. seen'.suse = NoLogin
      BY <2>2 DEF RemoveLogin, Logins
    <2>5. OnlyOurs(seen)' /\ ~HoldsOurs(seen)'
      BY <1>1, <2>4, NobodyElses DEF OnlyOurs, HoldsOurs
    <2> QED
      BY <2>1, <2>3, <2>5 DEF LoginInv
  <1>5. CASE removeRegistryAuthentication(creds) /\ ~Removes(creds) /\ Then(<<>>)
             /\ UNCHANGED leftover
    <2>1. docker' = docker /\ ~HoldsOurs(seen)
      BY <1>5 DEF removeRegistryAuthentication, Removes, HoldsOurs, Ours, dockerVars
    <2>2. ~leftover' => OnlyOurs(docker) /\ ~HoldsOurs(docker)
      BY <1>1, <1>5, <2>1 DEF LoginInv
    <2>3. ~leftover' => OnlyOurs(docker)' /\ ~HoldsOurs(docker)'
      BY <1>1, <2>1, <2>2 DEF OnlyOurs, HoldsOurs
    <2> QED
      BY <1>2, <1>5, <2>3 DEF LoginInv
  <1> QED
    BY <1>3, <1>4, <1>5 DEF RemoveAuth

\* What is written holds no other system's login, and none at all before the system is
\* deleted.
LEMMA LoginWrites ==
  ASSUME TypeInv, LoginInv, WriteAuth
  PROVE  LoginInv'
  <1>1. /\ At("writeAuth") /\ todo # <<>> /\ todo \in Seq(StepSet) /\ todo' = Tail(todo)
        /\ Head(todo).op = "writeAuth" /\ creds' = creds
    BY Advance DEF WriteAuth, At, TypeInv, system
  <1>2. Linked(todo') /\ SetsOnly(todo', creds')
    BY <1>1, TailLinked DEF LoginInv
  <1>3. /\ ~At("store")' /\ ~At("setAuth")' /\ ~At("removeAuth")' /\ ~At("writeAuth")'
        /\ ~At("clean")'
    BY <1>1, TailLinked DEF LoginInv, At
  <1>4. At("delete")' => DeletesNext
    BY <1>1 DEF At, DeletesNext
  <1>5. ASSUME ~leftover'
        PROVE  OnlyOurs(docker)' /\ (DeletesNext => ~HoldsOurs(docker)')
    <2>1. ~leftover /\ docker' = (IF docker = Emptied THEN seen ELSE docker)
      BY <1>5 DEF WriteAuth, WriteFile, GoesWrong
    <2>2. /\ OnlyOurs(docker) /\ OnlyOurs(seen) /\ ~HoldsOurs(docker)
          /\ DeletesNext => ~HoldsOurs(seen)
      BY <1>1, <2>1 DEF LoginInv
    <2>3. CASE docker' = seen
      BY <1>1, <2>2, <2>3 DEF OnlyOurs, HoldsOurs
    <2>4. CASE docker' = docker
      BY <1>1, <2>2, <2>4 DEF OnlyOurs, HoldsOurs
    <2> QED
      BY <2>1, <2>3, <2>4
  <1> QED
    BY <1>2, <1>3, <1>4, <1>5 DEF LoginInv

\* Deregister removes the credentials when docker's file holds none of them any more.
LEMMA LoginCleans ==
  ASSUME TypeInv, LoginInv, Cleanup
  PROVE  LoginInv'
  <1>1. /\ At("clean") /\ todo # <<>> /\ todo \in Seq(StepSet) /\ todo' = Tail(todo)
        /\ Head(todo).op = "clean" /\ creds' = None /\ docker' = docker
        /\ leftover' = (leftover \/ cmd.cmd = "cleanup")
    BY Advance DEF Cleanup, At, TypeInv, dockerVars
  <1>2. Linked(todo') /\ \A i \in 1..Len(todo') : todo'[i].op # "setAuth"
    BY <1>1, TailLinked, NoneIsSet DEF LoginInv
  <1>3. SetsOnly(todo', creds')
    BY <1>2 DEF SetsOnly
  <1>4. /\ ~At("store")' /\ ~At("setAuth")' /\ ~At("removeAuth")' /\ ~At("writeAuth")'
        /\ ~At("delete")' /\ ~At("clean")'
    BY <1>1, TailLinked DEF LoginInv, At
  <1>5. ASSUME ~leftover' PROVE OnlyOurs(docker)'
    <2>1. ~leftover /\ cmd.cmd # "cleanup"
      BY <1>1, <1>5
    <2>2. OnlyOurs(docker) /\ ~HoldsOurs(docker)
      BY <1>1, <2>1 DEF LoginInv
    <2> QED
      BY <1>1, <2>2 DEF OnlyOurs, HoldsOurs
  <1> QED
    BY <1>2, <1>3, <1>4, <1>5 DEF LoginInv

\* The user never enters the login of the system.
LEMMA LoginShared ==
  ASSUME TypeInv, LoginInv, UserWithDocker
  PROVE  LoginInv'
  <1>1. UNCHANGED <<creds, leftover, seen, cmd, todo>>
    BY DEF UserWithDocker, UserLogsIn, UserBreaksFile, system, history, process
  <1>2. Readable(docker') => docker'.suse \in {NoLogin, Manual} \/
                             (Readable(docker) /\ docker'.suse = docker.suse)
    <2>1. CASE UserBreaksFile
      BY <2>1 DEF UserBreaksFile, Readable
    <2>2. CASE UserLogsIn
      <3>1. PICK f : f = Content(docker)
        OBVIOUS
      <3>2. f \in Logins(Login) /\ (f.suse = NoLogin \/ (Readable(docker) /\ f.suse = docker.suse))
        BY <3>1, NobodyElses DEF Content, Empty, Logins
      <3>3. \/ \E r \in Others : docker' = [f EXCEPT !.others = @ \cup {r}]
            \/ docker' = [f EXCEPT !.suse = Manual]
        BY <2>2, <3>1 DEF UserLogsIn
      <3>4. docker'.suse \in {Manual, f.suse}
        BY <3>2, <3>3 DEF Logins
      <3> QED
        BY <3>2, <3>4
    <2> QED
      BY <2>1, <2>2 DEF UserWithDocker
  <1>3. OnlyOurs(docker) => OnlyOurs(docker)'
    BY <1>1, <1>2 DEF OnlyOurs
  <1>4. HoldsOurs(docker)' => HoldsOurs(docker)
    BY <1>1, <1>2, NobodyElses DEF HoldsOurs
  <1>5. OnlyOurs(seen)' = OnlyOurs(seen) /\ HoldsOurs(seen)' = HoldsOurs(seen)
    BY <1>1 DEF OnlyOurs, HoldsOurs
  <1>6. (\A op : At(op)' = At(op)) /\ DeletesNext' = DeletesNext
    BY <1>1 DEF At, DeletesNext
  <1> QED
    BY <1>1, <1>3, <1>4, <1>5, <1>6 DEF LoginInv

LEMMA LoginStarts ==
  ASSUME TypeInv, LoginInv, NEW c \in plan.commands, Start(c)
  PROVE  LoginInv'
  <1>1. UNCHANGED <<docker, creds, leftover>> /\ cmd' = c
    BY DEF Start, system, history
  <1>2. c \in Command
    BY PlansAssumption, CommandsAssumption DEF TypeInv, TypeOK
  <1>3. /\ Linked(todo') /\ (\A i \in 1..Len(todo') : todo'[i].op # "setAuth")
        /\ todo' # <<>> => /\ Head(todo').op \notin {"store", "removeAuth", "writeAuth", "delete"}
                           /\ Head(todo').op = "clean" => c.cmd = "cleanup"
    <2>1. CASE Refused(c)
      <3>1. todo' = <<>>
        BY <2>1 DEF Start
      <3> QED
        BY <3>1, EmptyLinked
    <2>2. CASE ~Refused(c)
      <3>1. todo' = Steps(c)
        BY <2>2 DEF Start
      <3> QED
        BY <1>2, <3>1, StepsLinked
    <2> QED
      BY <2>1, <2>2
  <1>4. SetsOnly(todo', creds')
    BY <1>3 DEF SetsOnly
  <1>5. ~At("setAuth")'
    <2> SUFFICES ASSUME todo' # <<>> PROVE Head(todo').op # "setAuth"
      BY DEF At
    <2>1. todo' \in Seq(StepSet)
      BY <1>2, StepsOK, DoOK DEF Start
    <2>2. 1 \in 1..Len(todo') /\ Head(todo') = todo'[1]
      BY <2>1
    <2> QED
      BY <1>3, <2>2
  <1>6. OnlyOurs(docker)' = OnlyOurs(docker)
    BY <1>1 DEF OnlyOurs
  <1>7. /\ ~At("store")' /\ ~At("removeAuth")' /\ ~At("writeAuth")' /\ ~At("delete")'
        /\ At("clean")' => c.cmd = "cleanup"
    BY <1>3 DEF At
  <1> QED
    BY <1>1, <1>3, <1>4, <1>5, <1>6, <1>7 DEF LoginInv

LEMMA LoginStays ==
  ASSUME TypeInv, LoginInv, [Next]_vars
  PROVE  LoginInv'
  BY LoginKinds, LoginStarts, LoginRests, LoginPasses, LoginEnrolls, LoginGivesUp, LoginStores,
     LoginReads, LoginSets, LoginRemoves, LoginWrites, LoginCleans, LoginShared

LEMMA LoginInitially == Init => LoginInv
  <1> SUFFICES ASSUME Init PROVE LoginInv
    OBVIOUS
  <1>1. todo = <<>>
    BY DEF Init
  <1>2. Linked(todo) /\ SetsOnly(todo, creds) /\ \A op : ~At(op)
    BY <1>1, EmptyLinked DEF At
  <1>3. Readable(docker) => docker.suse = NoLogin
    BY DEF Init, DockerInit, Readable, Empty
  <1> QED
    BY <1>2, <1>3 DEF LoginInv, OnlyOurs

\* A login of a system that docker's file holds when no command runs is the one of the
\* credentials file, whatever commands stopped at whatever step and whatever the user
\* did with docker meanwhile, but for a cleanup and a file that could not be written
\* (Deregister, announceOrUpdate, setup- and removeRegistryAuthentication).
THEOREM NoLoginOutlives == Spec => []NoRevokedLogin
  <1>1. TypeInv /\ WholeInv /\ LoginInv /\ [Next]_vars => (TypeInv /\ WholeInv /\ LoginInv)'
    BY TypesKept, LoginStays
  <1>2. LoginInv => NoRevokedLogin
    BY DEF LoginInv, OnlyOurs, NoRevokedLogin
  <1> QED
    BY InitOK, LoginInitially, <1>1, <1>2, PTL DEF Spec

-----------------------------------------------------------------------------
(* What the keepalive reports.                                              *)
\* The hours of a set of lines, and those of the days a run of the tracker keeps.
HoursOf(S) == UNION {{HoursPerDay * l.day + h : h \in l.hours} : l \in S}
Due == {t \in ran \cup {stamp} : Day(t) + KeepDays > Day(stamp)}

\* The log holds the recorded hours; while a run replaces it, what is written and what
\* is still to be written are together what the run will have recorded.
ReportInv ==
    /\ tracker # "writes" => Hours(log) = ran
    /\ tracker = "computed" => Hours(lines) = Due
    /\ tracker = "writes" => Hours(log) \cup Hours(lines) = Due

LEMMA Division ==
  ASSUME NEW n \in Nat \ {0}, NEW t \in Nat
  PROVE  t = n * (t \div n) + (t % n) /\ t % n \in 0..(n - 1) /\ t \div n \in Nat
  OBVIOUS

LEMMA Multiples ==
  ASSUME NEW n \in Nat \ {0}, NEW q \in Nat, NEW d \in Nat, q > d
  PROVE  n * q >= n * d + n
  <1>1. PICK k \in Nat : q = d + 1 + k
    <2>1. q - d - 1 \in Nat /\ q = d + 1 + (q - d - 1)
      OBVIOUS
    <2> QED
      BY <2>1
  <1>2. n * q = n * d + n + n * k
    BY <1>1
  <1>3. n * k >= 0
    OBVIOUS
  <1> QED
    BY <1>2, <1>3

\* An hour of a line belongs to the day of the line.
LEMMA DayOfHour ==
  ASSUME NEW d \in Nat, NEW h \in 0..(HoursPerDay - 1)
  PROVE  HoursPerDay * d + h \in Nat /\ Day(HoursPerDay * d + h) = d
  <1>1. ASSUME NEW n \in Nat \ {0}, NEW k \in 0..(n - 1) PROVE n * d + k \in Nat /\ (n * d + k) \div n = d
    <2> DEFINE t == n * d + k
               q == t \div n
               r == t % n
    <2>1. n * d \in Nat /\ t \in Nat
      OBVIOUS
    <2>2. t = n * q + r /\ r \in 0..(n - 1) /\ q \in Nat
      BY <2>1, Division
    <2> HIDE DEF q, r
    <2>3. ~(q > d)
      <3> SUFFICES ASSUME q > d PROVE FALSE
        OBVIOUS
      <3>1. n * q >= n * d + n
        BY <2>2, Multiples
      <3> QED
        BY <2>2, <3>1
    <2>4. ~(d > q)
      <3> SUFFICES ASSUME d > q PROVE FALSE
        OBVIOUS
      <3>1. n * d >= n * q + n
        BY <2>2, Multiples
      <3> QED
        BY <2>2, <3>1
    <2>5. q = d
      BY <2>2, <2>3, <2>4
    <2> QED
      BY <2>1, <2>5 DEF q
  <1> QED
    BY <1>1, UptimeAssumption DEF Day

LEMMA HourOfDay == ASSUME NEW t \in Nat PROVE t = HoursPerDay * Day(t) + Hour(t)
  BY Division, UptimeAssumption DEF Day, Hour

LEMMA HoursOfSeq == ASSUME NEW s \in Seq(Line) PROVE Hours(s) = HoursOf(ToSet(s))
  BY DEF Hours, HoursOf, ToSet

LEMMA HoursOfBoth == \A S, T : HoursOf(S \cup T) = HoursOf(S) \cup HoursOf(T)
  BY DEF HoursOf

LEMMA HoursEmpty == Hours(<<>>) = {}
  BY DEF Hours

\* Purging a log purges its hours.
LEMMA PurgeHours ==
  ASSUME NEW S \in SUBSET Line
  PROVE  HoursOf(purgeOldUptimeLog(S)) = {t \in HoursOf(S) : Day(t) + KeepDays > Day(now)}
  <1>1. ASSUME NEW l \in S, NEW h \in l.hours PROVE Day(HoursPerDay * l.day + h) = l.day
    <2>1. l.day \in Nat /\ h \in 0..(HoursPerDay - 1)
      BY DEF Line
    <2> QED
      BY <2>1, DayOfHour
  <1> QED
    BY <1>1 DEF HoursOf, purgeOldUptimeLog

\* An update adds the current hour and nothing else.
LEMMA UpdateHours ==
  ASSUME NEW S \in SUBSET Line, now \in Nat
  PROVE  HoursOf(updateUptimeLog(S)) = HoursOf(S) \cup {now}
  <1> DEFINE l    == Today(S)
             line == [l EXCEPT !.hours = @ \cup {Hour(now)}]
  <1>1. l.day = Day(now) /\ (l \in S \/ l.hours = {})
        /\ l = [day |-> l.day, colon |-> l.colon, len |-> l.len, hours |-> l.hours]
    BY DEF Today, Line
  <1> HIDE DEF l
  <1>2. line.day = l.day /\ line.hours = l.hours \cup {Hour(now)}
    BY <1>1
  <1> HIDE DEF line
  <1>3. \A x : HoursOf({x}) = {HoursPerDay * x.day + h : h \in x.hours}
    BY DEF HoursOf
  <1>4. HoursOf({line}) = HoursOf({l}) \cup {now}
    <2>1. now = HoursPerDay * Day(now) + Hour(now)
      BY HourOfDay
    <2> QED
      BY <1>1, <1>2, <1>3, <2>1
  <1>5. HoursOf((S \ {l}) \cup {line}) = HoursOf(S \ {l}) \cup HoursOf({line})
    BY HoursOfBoth
  <1>6. HoursOf(S \ {l}) \cup HoursOf({l}) = HoursOf(S)
    <2>1. CASE l \in S
      <3>1. S = (S \ {l}) \cup {l}
        BY <2>1
      <3> QED
        BY <3>1, HoursOfBoth
    <2>2. CASE l \notin S
      <3>1. S \ {l} = S /\ HoursOf({l}) = {}
        BY <1>1, <1>3, <2>2
      <3> QED
        BY <3>1
    <2> QED
      BY <2>1, <2>2
  <1>7. updateUptimeLog(S) = (S \ {l}) \cup {line}
    BY DEF updateUptimeLog, l, line
  <1> QED
    BY <1>4, <1>5, <1>6, <1>7

\* Lines in the order of their days are all the lines.
LEMMA SortedAll ==
  ASSUME NEW S \in SUBSET Line, IsFiniteSet(S), NEW s \in Sorted(S)
  PROVE  s \in Seq(Line) /\ ToSet(s) = S
  <1> DEFINE n == Cardinality(S)
  <1>1. n \in Nat /\ s \in [1..n -> S] /\ \A i, j \in 1..n : i < j => s[i].day < s[j].day
    BY FS_CardinalityType DEF Sorted
  <1> HIDE DEF n
  <1>2. \A i, j \in 1..n : s[i] = s[j] => i = j
    <2> SUFFICES ASSUME NEW i \in 1..n, NEW j \in 1..n, s[i] = s[j], i < j PROVE FALSE
      BY <1>1
    <2>1. s[i].day < s[j].day /\ s[i].day \in Nat
      BY <1>1 DEF Line
    <2> QED
      BY <2>1
  <1>3. s \in Injection(1..n, S)
    BY <1>1, <1>2 DEF Injection, IsInjective
  <1>4. Cardinality(1..n) = n
    BY <1>1, FS_Interval
  <1>5. s \in Surjection(1..n, S)
    BY <1>3, <1>4, FS_Injection DEF n
  <1>6. DOMAIN s = 1..n /\ \A x \in S : \E i \in 1..n : s[i] = x
    BY <1>1, <1>5 DEF Surjection
  <1>7. ToSet(s) = S
    BY <1>1, <1>6 DEF ToSet
  <1> QED
    BY <1>1, <1>7

\* A run computes what is due: the current hour and those of the days it keeps.
LEMMA ReportTracks ==
  ASSUME UptimeTypeOK, ReportInv, Track
  PROVE  ReportInv'
  <1> DEFINE kept  == purgeOldUptimeLog(ToSet(log))
             new   == updateUptimeLog(kept)
             error == (\E i \in DOMAIN log : ~log[i].colon) \/ Panics(kept)
  <1>1. UNCHANGED <<now, log, ran>>
    BY DEF Track
  <1>2. CASE error
    <2>1. UNCHANGED <<tracker, stamp, lines>>
      BY <1>2 DEF Track
    <2> QED
      BY <1>1, <2>1 DEF ReportInv, Due
  <1>3. CASE ~error
    <2>1. tracker = "idle" /\ tracker' = "computed" /\ stamp' = now /\ lines' \in Sorted(new)
      BY <1>3 DEF Track
    <2>2. Hours(log) = ran /\ log \in Seq(Line) /\ now \in Nat
      BY <2>1 DEF ReportInv, UptimeTypeOK
    <2>3. ToSet(log) \subseteq Line
      BY LogFinite DEF UptimeTypeOK
    <2>4. kept \subseteq Line
      BY <2>3 DEF purgeOldUptimeLog
    <2>5. IsFiniteSet(new) /\ new \subseteq Line
      BY <2>3, UpdateOK, TodayIsALine, BitIsALine DEF WholeLine
    <2>6. HoursOf(ToSet(log)) = ran
      BY <2>2, HoursOfSeq
    <2>7. HoursOf(kept) = {t \in ran : Day(t) + KeepDays > Day(now)}
      BY <2>3, <2>6, PurgeHours
    <2>8. HoursOf(new) = HoursOf(kept) \cup {now}
      BY <2>2, <2>4, UpdateHours
    <2> HIDE DEF new, kept
    <2>9. Hours(lines') = HoursOf(new)
      <3>1. lines' \in Seq(Line) /\ ToSet(lines') = new
        BY <2>1, <2>5, SortedAll
      <3> QED
        BY <3>1, HoursOfSeq
    <2>10. Day(now) + KeepDays > Day(now)
      BY <2>2, HourOK, UptimeAssumption
    <2>11. Due' = {t \in ran \cup {now} : Day(t) + KeepDays > Day(now)}
      BY <1>1, <2>1 DEF Due, Day
    <2>12. Hours(lines') = Due'
      BY <2>7, <2>8, <2>9, <2>10, <2>11
    <2>13. Hours(lines)' = Hours(lines') /\ Hours(log)' = Hours(log)
      BY <1>1 DEF Hours
    <2> QED
      BY <1>1, <2>1, <2>2, <2>12, <2>13 DEF ReportInv
  <1> QED
    BY <1>2, <1>3

\* A line that is written takes its hours from what is still to be written.
LEMMA HoursMove ==
  ASSUME NEW s \in Seq(Line), NEW t \in Seq(Line), t # <<>>
  PROVE  Hours(Append(s, Head(t))) \cup Hours(Tail(t)) = Hours(s) \cup Hours(t)
  <1>1. Head(t) \in Line /\ Tail(t) \in Seq(Line) /\ Append(s, Head(t)) \in Seq(Line)
    OBVIOUS
  <1>2. ToSet(Append(s, Head(t))) = ToSet(s) \cup {Head(t)}
    <2>1. \A i \in 1..Len(s) : Append(s, Head(t))[i] = s[i]
      OBVIOUS
    <2>2. Append(s, Head(t))[Len(s) + 1] = Head(t) /\ Len(Append(s, Head(t))) = Len(s) + 1
      OBVIOUS
    <2> QED
      BY <2>1, <2>2 DEF ToSet
  <1>3. ToSet(t) = {Head(t)} \cup ToSet(Tail(t))
    <2>1. Len(Tail(t)) = Len(t) - 1 /\ \A i \in 1..Len(Tail(t)) : Tail(t)[i] = t[i + 1]
      OBVIOUS
    <2>2. Len(t) \in Nat \ {0} /\ Head(t) = t[1] /\ DOMAIN t = 1..Len(t)
          /\ DOMAIN Tail(t) = 1..Len(Tail(t))
      OBVIOUS
    <2>3. \A i \in 1..Len(t) : i = 1 \/ (i - 1 \in 1..Len(Tail(t)) /\ Tail(t)[i - 1] = t[i])
      BY <2>1, <2>2
    <2>4. \A i \in 1..Len(Tail(t)) : i + 1 \in 1..Len(t)
      BY <2>1, <2>2
    <2>5. ToSet(t) \subseteq {Head(t)} \cup ToSet(Tail(t))
      <3> SUFFICES ASSUME NEW i \in 1..Len(t) PROVE t[i] \in {Head(t)} \cup ToSet(Tail(t))
        BY <2>2 DEF ToSet
      <3> QED
        BY <2>2, <2>3 DEF ToSet
    <2>6. ToSet(Tail(t)) \subseteq ToSet(t)
      <3> SUFFICES ASSUME NEW i \in 1..Len(Tail(t)) PROVE Tail(t)[i] \in ToSet(t)
        BY <2>2 DEF ToSet
      <3> QED
        BY <2>1, <2>2, <2>4 DEF ToSet
    <2>7. Head(t) \in ToSet(t)
      BY <2>2 DEF ToSet
    <2> QED
      BY <2>5, <2>6, <2>7
  <1> DEFINE H == HoursOf({Head(t)})
  <1>4. HoursOf(ToSet(Append(s, Head(t)))) = HoursOf(ToSet(s)) \cup H
    BY <1>2, HoursOfBoth
  <1>5. HoursOf(ToSet(t)) = H \cup HoursOf(ToSet(Tail(t)))
    BY <1>3, HoursOfBoth
  <1> HIDE DEF H
  <1> QED
    BY <1>1, <1>4, <1>5, HoursOfSeq

\* How a run may end early.
Ends == KillTracker \/ OpenFails \/ WriteFails \/ LosePower

LEMMA ReportGoesOn ==
  ASSUME UptimeTypeOK, ReportInv, TrackerStep \/ Tick \/ Ends
  PROVE  ReportInv'
  <1>0. \A s : s' = s => Hours(s)' = Hours(s)
    BY DEF Hours
  <1>1. CASE Track
    BY <1>1, ReportTracks
  <1>2. CASE Truncate
    <2>1. tracker = "computed" /\ tracker' = "writes" /\ log' = <<>>
          /\ UNCHANGED <<stamp, lines, ran>>
      BY <1>2 DEF Truncate
    <2>2. Hours(log)' = {} /\ Hours(lines)' = Hours(lines) /\ Due' = Due
      BY <2>1, HoursEmpty DEF Hours, Due, Day
    <2> QED
      BY <2>1, <2>2 DEF ReportInv
  <1>3. CASE WriteLine
    <2>1. /\ tracker = "writes" /\ tracker' = "writes" /\ lines # <<>>
          /\ log' = Append(log, Head(lines)) /\ lines' = Tail(lines) /\ UNCHANGED <<stamp, ran>>
      BY <1>3 DEF WriteLine
    <2>2. Hours(log') \cup Hours(lines') = Hours(log) \cup Hours(lines)
      BY <2>1, HoursMove DEF UptimeTypeOK
    <2>3. Due' = Due /\ Hours(log)' = Hours(log') /\ Hours(lines)' = Hours(lines')
      BY <2>1 DEF Due, Hours, Day
    <2> QED
      BY <2>1, <2>2, <2>3 DEF ReportInv
  <1>4. CASE EndOfRun
    <2>1. /\ tracker = "writes" /\ tracker' = "idle" /\ lines = <<>> /\ log' = log
          /\ ran' = Due
      BY <1>4 DEF EndOfRun, Due
    <2>2. Hours(log)' = Hours(log) /\ Hours(lines) = {}
      BY <2>1, HoursEmpty DEF Hours
    <2> QED
      BY <2>1, <2>2 DEF ReportInv
  <1>5. CASE Tick
    <2>1. UNCHANGED <<log, tracker, stamp, lines, ran>>
      BY <1>5 DEF Tick, trackerVars
    <2> QED
      BY <2>1 DEF ReportInv, Due, Hours, Day
  <1>6. ASSUME NEW f, Gone(f), tracker # "writes" => f = log PROVE ReportInv'
    <2>1. tracker' = "idle" /\ log' = f /\ Hours(log)' = Hours(log')
      BY <1>6 DEF Gone, Hours
    <2>2. ran' = Hours(f)
      BY <1>6 DEF Gone, ReportInv
    <2> QED
      BY <2>1, <2>2 DEF ReportInv
  <1>7. CASE KillTracker \/ OpenFails
    BY <1>6, <1>7 DEF KillTracker, OpenFails
  <1>8. CASE LosePower \/ WriteFails
    BY <1>6, <1>8 DEF LosePower, WriteFails
  <1> QED
    BY <1>1, <1>2, <1>3, <1>4, <1>5, <1>7, <1>8 DEF TrackerStep, Ends

LEMMA ReportStays ==
  ASSUME TypeInv, ReportInv, [Next]_vars
  PROVE  ReportInv'
  <1>1. CASE Besides
    <2>1. TrackerStep \/ Tick \/ Ends
      BY <1>1 DEF Besides, Tracker, TrackerEnds, TimePasses, KilledTracker, TrackerFails, PowerFails,
                  Ends
    <2> QED
      BY <2>1, ReportGoesOn DEF TypeInv, TypeOK
  <1>2. CASE ~Besides
    <2>1. UNCHANGED uptimeVars
      BY <1>2, UptimeUntouched DEF Next, Besides
    <2>2. UNCHANGED <<log, tracker, stamp, lines, ran>>
      BY <2>1 DEF uptimeVars, trackerVars
    <2> QED
      BY <2>2 DEF ReportInv, Due, Hours, Day
  <1> QED
    BY <1>1, <1>2

\* Only the keepalive takes the step at its head without ending the command.
LEMMA OnlyItPings ==
  ASSUME TypeInv, Next, Pings
  PROVE  SendKeepAlivePing /\ ~Refuse
  <1>1. todo # <<>> /\ Head(todo).op = "keepalive" /\ exit' = "running" /\ todo' # todo
    BY DEF Pings, At
  <1>2. exit = "running"
    BY <1>1 DEF TypeInv, TypeOK
  <1>3. ~Refuse /\ ~Fail /\ ~Kill
    BY <1>1 DEF Refuse, Fail, Kill, End
  <1>4. \A c \in plan.commands : ~Start(c)
    BY <1>2 DEF Start
  <1>5. ~(Besides \/ UserWithDocker \/ SearchPackages \/ Finish)
    BY <1>1 DEF Besides, Tracker, TrackerEnds, TimePasses, KilledTracker, TrackerFails, PowerFails, Beside,
                UserWithDocker, SearchPackages, Finish
  <1>6. SendKeepAlivePing
    BY <1>1, <1>3, <1>4, <1>5
    DEF Next, Besides, Step, At, announceOrUpdate, CreateCredentials, LoadFrom, SetAuth,
        RemoveAuth, WriteAuth, RegisterProducts, AssignAndCreateLabels, Deactivate,
        DeregisterSystem, Cleanup, GetProductStatuses, ListExtensions, SaveTruncates, SaveWrites
  <1> QED
    BY <1>3, <1>6

LEMMA ReportInitially == Init => ReportInv
  <1> SUFFICES ASSUME Init PROVE ReportInv
    OBVIOUS
  <1>1. log = <<>> /\ tracker = "idle" /\ ran = {}
    BY DEF Init, UptimeInit
  <1> QED
    BY <1>1, HoursEmpty DEF ReportInv

\* A keepalive reports exactly the recorded hours, however runs of the tracker were
\* killed, failed or were cut off by power failures before; while a run rewrites the log it may
\* report less, never an hour that was not recorded (makeSysInfoBody,
\* purgeOldUptimeLog, updateUptimeLog, writeUptimeLogsFile).
THEOREM ReportsTheHours == Spec => ReportWhole
  <1>1. TypeInv /\ WholeInv /\ ReportInv /\ [Next]_vars => (TypeInv /\ WholeInv /\ ReportInv)'
    BY TypesKept, ReportStays
  <1>2. TypeInv /\ ReportInv /\ [Next]_vars => [PingReports]_vars
    <2> SUFFICES ASSUME TypeInv, ReportInv, Next, Pings, cfg.tracking
                 PROVE  IF tracker # "writes" THEN sent' = ran ELSE sent' \subseteq ran \cup {stamp}
      BY DEF PingReports
    <2>1. sent' = Hours(log)
      BY OnlyItPings DEF SendKeepAlivePing
    <2>2. CASE tracker # "writes"
      BY <2>1, <2>2 DEF ReportInv
    <2>3. CASE tracker = "writes"
      <3>1. Hours(log) \subseteq Due
        BY <2>3 DEF ReportInv
      <3> QED
        BY <2>1, <2>3, <3>1 DEF Due
    <2> QED
      BY <2>2, <2>3
  <1> QED
    BY InitOK, ReportInitially, <1>1, <1>2, PTL DEF Spec, ReportWhole
===============================================================================
