------------------------------- MODULE UptimeLog -------------------------------
(***************************************************************************)
(* suse-uptime-tracker: a oneshot service that a timer starts every        *)
(* quarter of an hour. A run reads the whole log, forgets the days that    *)
(* are too old, notes the current hour, truncates the file and writes it   *)
(* again line by line. It may be killed between two writes; the machine    *)
(* may lose power in the middle of one, and the disk may be full. The      *)
(* keepalive of SUSEConnect reads the same file, without a lock, at any    *)
(* time.                                                                   *)
(***************************************************************************)
EXTENDS Naturals, Sequences, FiniteSets, SequencesExt

CONSTANTS
    HoursPerDay,  \* the length of a day's bit string
    KeepDays      \* the days the log goes back

ASSUME UptimeAssumption == HoursPerDay \in Nat \ {0} /\ KeepDays \in Nat \ {0}

VARIABLES
    now,      \* the hour, counted from some midnight
    log,      \* the lines of the log file
    tracker,  \* the tracker is "idle", has "computed" the new log, or "writes" it
    stamp,    \* the hour it computed it in
    lines,    \* the lines still to be written
    ran,      \* history: the hours recorded by runs, as far as they survived,
    last,     \* the hour of the last run,
    failed,   \* whether a run could not make sense of the log, or panicked over it,
    cut       \* and whether the write of a line was cut short

trackerVars == <<log, tracker, stamp, lines, ran, last, failed, cut>>
uptimeVars  == <<now, trackerVars>>

\* A line has its bit string up to len, and not even the colon if it was cut earlier.
Line    == [day : Nat, colon : BOOLEAN, len : 0..HoursPerDay, hours : SUBSET (0..(HoursPerDay - 1))]
Day(t)  == t \div HoursPerDay
Hour(t) == t % HoursPerDay
Hours(file) ==
    UNION {{HoursPerDay * file[i].day + h : h \in file[i].hours} : i \in DOMAIN file}

UptimeInit ==
    /\ now = 0 /\ log = <<>> /\ tracker = "idle" /\ stamp = 0 /\ lines = <<>>
    /\ ran = {} /\ last = 0 /\ failed = FALSE /\ cut = FALSE

-----------------------------------------------------------------------------
\* A day is kept if its midnight is after the moment KeepDays ago.
purgeDayTooMany(entries) == {l \in entries : l.day + KeepDays > Day(now) + 1} \* mutant
purgeOldUptimeLog(entries) == {l \in entries : l.day + KeepDays > Day(now)}

\* The line of the current day; a bit beyond its end makes the program panic.
Today(entries) ==
    IF \E l \in entries : l.day = Day(now) THEN CHOOSE l \in entries : l.day = Day(now)
    ELSE [day |-> Day(now), colon |-> TRUE, len |-> HoursPerDay, hours |-> {}]
Panics(entries) == Hour(now) >= Today(entries).len
updateUptimeLog(entries) ==
    (entries \ {Today(entries)})
    \cup {[Today(entries) EXCEPT !.hours = @ \cup {Hour(now)}]}

Sorted(S) ==
    {s \in [1..Cardinality(S) -> S] : \A i, j \in DOMAIN s : i < j => s[i].day < s[j].day}

\* A line without a colon is an error, in this run and in every later one.
Track ==
    /\ tracker = "idle"
    /\ LET kept == purgeOldUptimeLog(ToSet(log)) IN
        IF (\E i \in DOMAIN log : ~log[i].colon) \/ Panics(kept)
        THEN failed' = TRUE /\ UNCHANGED <<tracker, stamp, lines>>
        ELSE /\ tracker' = "computed" /\ stamp' = now
             /\ lines' \in Sorted(updateUptimeLog(kept))
             /\ UNCHANGED failed
    /\ UNCHANGED <<now, log, ran, last, cut>>

\* The file is opened with O_TRUNC.
Truncate ==
    /\ tracker = "computed"
    /\ tracker' = "writes" /\ log' = <<>>
    /\ UNCHANGED <<now, stamp, lines, ran, last, failed, cut>>

\* A whole line goes to the file at once, or the date and the bits do.
WriteInHalves ==                                                        \* mutant
    /\ tracker = "writes" /\ lines # <<>>
    /\ IF log = <<>> \/ Last(log).day # Head(lines).day
       THEN /\ log' = Append(log, [Head(lines) EXCEPT !.colon = FALSE, !.len = 0, !.hours = {}])
            /\ UNCHANGED lines
       ELSE log' = Append(Front(log), Head(lines)) /\ lines' = Tail(lines)
    /\ UNCHANGED <<now, tracker, stamp, ran, last, failed, cut>>
WriteLine ==
    /\ tracker = "writes" /\ lines # <<>>
    /\ log' = Append(log, Head(lines)) /\ lines' = Tail(lines)
    /\ UNCHANGED <<now, tracker, stamp, ran, last, failed, cut>>

EndOfRun ==
    /\ tracker = "writes" /\ lines = <<>>
    /\ tracker' = "idle" /\ last' = stamp
    /\ ran' = {t \in ran \cup {stamp} : Day(t) + KeepDays > Day(stamp)}
    /\ UNCHANGED <<now, log, stamp, lines, failed, cut>>

\* The tracker is gone, and with it what it had not written yet.
Gone(file) ==
    /\ tracker' = "idle" /\ lines' = <<>> /\ log' = file
    /\ IF tracker = "writes" THEN ran' = Hours(file) /\ last' = stamp
       ELSE UNCHANGED <<ran, last>>
    /\ UNCHANGED <<now, stamp, failed>>
KillTracker == tracker # "idle" /\ Gone(log) /\ UNCHANGED cut

\* What a power failure or a full disk may leave of the line that is being written;
\* without its newline alone the line is still whole.
Cuts(l) ==
    {[l EXCEPT !.colon = FALSE, !.len = 0, !.hours = {}]}
    \cup {[l EXCEPT !.len = n, !.hours = {h \in @ : h < n}] : n \in 0..(HoursPerDay - 1)}
LosePower ==
    /\ tracker = "writes" /\ lines # <<>> /\ cut' = TRUE
    /\ \E c \in Cuts(Head(lines)) : Gone(Append(log, c))

\* The error returns of writeUptimeLogsFile, with which the program ends: the file is
\* not opened, or nothing, or only a part, of the line can be written.
OpenFails  == tracker = "computed" /\ Gone(log) /\ UNCHANGED cut
WriteFails ==
    /\ tracker = "writes" /\ lines # <<>>
    /\ \/ Gone(log) /\ UNCHANGED cut
       \/ cut' = TRUE /\ \E c \in Cuts(Head(lines)) : Gone(Append(log, c))

Tick == now' = now + 1 /\ UNCHANGED trackerVars

TrackerStep == Track \/ Truncate \/ WriteLine \/ EndOfRun

-----------------------------------------------------------------------------
UptimeTypeOK ==
    /\ now \in Nat /\ log \in Seq(Line) /\ tracker \in {"idle", "computed", "writes"}
    /\ stamp \in Nat /\ lines \in Seq(Line) /\ ran \subseteq Nat /\ last \in Nat
    /\ failed \in BOOLEAN /\ cut \in BOOLEAN

\* A run of the tracker stumbles over the log only after the write of a line was cut
\* short, by a power failure or a full disk: one that is killed, or whose file cannot
\* be opened or be written at all, leaves whole lines, and never stops the following
\* runs (readUptimeLogFile, updateUptimeLog, writeUptimeLogsFile).
TrackerSurvivesKill == failed => cut
===============================================================================
