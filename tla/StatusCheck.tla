---------------------------- MODULE StatusCheck -----------------------------
(***************************************************************************)
(* pve-san-fenced --status beside the service whose status file it reads:  *)
(* a process of its own, with options of its own, that looks at the        *)
(* directory, the age and the content of the file one after the other.     *)
(*                                                                         *)
(* The service starts, validates its configuration, reports from two       *)
(* threads, hangs, dies and is started again; its runtime directory goes   *)
(* with it.  The status file is StatusTracker's, seen from the outside.    *)
(***************************************************************************)
EXTENDS Integers

CONSTANTS
  POLL,             \* the daemon's --poll-interval
  CheckerPolls,     \* the --poll-interval values that the checks are run with
  QUERIES,          \* the longest time that a poll takes when it does not hang
  MIN_AGE,          \* the 30 seconds below which no file is outdated
  Jumps,            \* by how much somebody sets the clock
  AgeCap            \* bound on all ages

Larger(m, n) == IF m > n THEN m ELSE n

\* The age from which on a check that knows of interval p calls the file outdated.
threshold(p) == Larger(MIN_AGE, 3 * p)

ASSUME CheckAssumption ==
  /\ {POLL, QUERIES, MIN_AGE, AgeCap} \subseteq Nat /\ Jumps \subseteq Int
  /\ POLL \in CheckerPolls /\ CheckerPolls \subseteq Nat \ {0}
  /\ \A p \in CheckerPolls : threshold(p) < AgeCap
  /\ QUERIES <= threshold(POLL)

VARIABLES
  runtime,      \* the file is in the unit's RuntimeDirectory
  directory,    \* the directory of the file exists
  service,      \* where the daemon is in its life
  issues,       \* the highest level of the issues of each reporter
  writer,       \* the writer thread, and the content on its way to the file
  file,         \* the status file with its age by the clock
  loop,         \* the monitoring loop
  check,        \* the check that runs, and what the latest one has answered
  history       \* what the properties compare the answer with

daemonVars == <<service, issues, writer, loop>>
statusVars == <<runtime, directory, daemonVars, file, check, history>>

Levels == {"OK", "WARNING", "CRITICAL"}
Aged == [level : Levels, age : -AgeCap .. AgeCap]
NoFile == [level |-> "None", age |-> 0]
NoWriter == [phase |-> "None", level |-> "OK"]

CheckTypeOK ==
  /\ runtime \in BOOLEAN /\ directory \in BOOLEAN
  /\ service \in {"Dead", "Starting", "Failing", "Up"}
  /\ issues \in [{"startup", "discovery", "loop"} -> Levels]
  /\ writer \in [phase : {"None", "Started", "Prepared", "Stuck"}, level : Levels]
  /\ file \in Aged \cup {NoFile}
  /\ file # NoFile => directory
  /\ loop \in [step : {"Sleeping", "Polling", "Hung"}, due : -AgeCap .. POLL, since : 0 .. AgeCap]
  /\ check \in [step : {"Idle", "Dated", "Read"}, poll : CheckerPolls,
                answer : Levels \cup {"None", "UNKNOWN", "NoDirectory"}]
  /\ history \in [renamed : 0 .. AgeCap, ok : 0 .. AgeCap, first : BOOLEAN,
                  clockSet : BOOLEAN, failed : BOOLEAN]

NoIssues == [i \in {"startup", "discovery", "loop"} |-> "OK"]
NoCheck == [step |-> "Idle", poll |-> POLL, answer |-> "None"]
NewLoop == [step |-> "Sleeping", due |-> 0, since |-> 0]

StatusInit ==
  /\ runtime \in BOOLEAN
  /\ directory = ~runtime
  /\ service = "Dead" /\ issues = NoIssues /\ writer = NoWriter /\ loop = NewLoop
  /\ file = NoFile
  /\ check = NoCheck
  /\ history = [renamed |-> AgeCap, ok |-> AgeCap, first |-> FALSE,
                clockSet |-> FALSE, failed |-> FALSE]
-----------------------------------------------------------------------------
Running == service \in {"Starting", "Failing", "Up"}

Highest(levels) == IF "CRITICAL" \in levels THEN "CRITICAL"
                   ELSE IF "WARNING" \in levels THEN "WARNING" ELSE "OK"

\* write_status_file with these issues.  It waits for the writer before.
Report(now) ==
  LET level == Highest({now[i] : i \in DOMAIN now})
  IN  /\ writer = NoWriter
      /\ issues' = now
      /\ writer' = [NoWriter EXCEPT !.phase = "Started", !.level = level]
      /\ history' = [history EXCEPT !.ok = IF level = "OK" THEN 0 ELSE @]

\* set_issue writes whether or not the issue is new, clear_issue if there was one.
SetLevel(reporter, level) ==
  IF level = "OK" /\ issues[reporter] = "OK" THEN UNCHANGED <<issues, writer, history>>
  ELSE Report([issues EXCEPT ![reporter] = level])
-----------------------------------------------------------------------------
(* The life of the service, which systemd restarts whenever it ends.       *)

StartService ==
  /\ service = "Dead"
  /\ service' = "Starting"
  /\ directory' = TRUE
  /\ history' = [history EXCEPT !.first = FALSE, !.failed = FALSE]
  /\ UNCHANGED <<runtime, issues, writer, loop, file, check>>

\* The first validation that fails ends the daemon; SysRq settings only warn.
Validate ==
  /\ service = "Starting"
  /\ \E level \in Levels :
       /\ service' = IF level = "CRITICAL" THEN "Failing" ELSE "Up"
       /\ Report([issues EXCEPT !["startup"] = level])
  /\ UNCHANGED <<runtime, directory, loop, file, check>>

\* The process ends, and systemd removes the runtime directory.
Ended ==
  /\ service' = "Dead"
  /\ issues' = NoIssues /\ writer' = NoWriter /\ loop' = NewLoop
  /\ directory' = ~runtime
  /\ file' = IF runtime THEN NoFile ELSE file
  /\ UNCHANGED <<runtime, check, history>>

exit_with_flush == service = "Failing" /\ writer = NoWriter /\ Ended

StopsOrCrashes == Running /\ Ended

\* Mutant: the loop sleeps for another interval after each tick.
PollDueLate ==
  /\ service = "Up"
  /\ loop.step = "Sleeping" /\ loop.due <= 0
  /\ Report(issues)
  /\ loop' = [step |-> "Polling", due |-> loop.due + 2 * POLL, since |-> 0]
  /\ UNCHANGED <<runtime, directory, service, file, check>>

\* touch at the start of every poll; missed ticks of the interval are made up for.
PollDue ==
  /\ service = "Up"
  /\ loop.step = "Sleeping" /\ loop.due <= 0
  /\ Report(issues)
  /\ loop' = [step |-> "Polling", due |-> loop.due + POLL, since |-> 0]
  /\ UNCHANGED <<runtime, directory, service, file, check>>

EndPoll ==
  /\ service = "Up"
  /\ loop.step = "Polling"
  /\ \E level \in Levels : SetLevel("loop", level)
  /\ loop' = [loop EXCEPT !.step = "Sleeping", !.since = 0]
  /\ UNCHANGED <<runtime, directory, service, file, check>>

\* A system call, or a reply that comes in drops, keeps the loop for good.
LoopHangs ==
  /\ service = "Up"
  /\ loop.step = "Polling"
  /\ loop' = [loop EXCEPT !.step = "Hung", !.due = 0]
  /\ UNCHANGED <<runtime, directory, service, issues, writer, file, check, history>>

\* The discovery thread reports a failure, or the end of one.
DiscoveryReports ==
  /\ service = "Up"
  /\ \E level \in {"OK", "WARNING"} :
       (level = "WARNING" \/ issues["discovery"] = "WARNING") /\ SetLevel("discovery", level)
  /\ UNCHANGED <<runtime, directory, service, loop, file, check>>
-----------------------------------------------------------------------------
(* The writer thread.                                                      *)

\* Mutant: the status file itself is opened and written.
PrepareInPlace ==
  /\ writer.phase = "Started"
  /\ writer' = [writer EXCEPT !.phase = "Prepared"]
  /\ file' = NoFile
  /\ UNCHANGED <<runtime, directory, service, issues, loop, check, history>>

PrepareTemp ==
  /\ writer.phase = "Started"
  /\ writer' = [writer EXCEPT !.phase = "Prepared"]
  /\ UNCHANGED <<runtime, directory, service, issues, loop, file, check, history>>

Rename ==
  /\ writer.phase = "Prepared"
  /\ writer' = NoWriter
  /\ file' = [level |-> writer.level, age |-> 0]
  /\ history' = [history EXCEPT !.renamed = 0, !.first = TRUE, !.clockSet = FALSE,
                                !.failed = FALSE]
  /\ UNCHANGED <<runtime, directory, service, issues, loop, check>>

WriteFails ==
  /\ writer.phase \in {"Started", "Prepared"}
  /\ writer' = NoWriter
  /\ history' = [history EXCEPT !.failed = TRUE]
  /\ UNCHANGED <<runtime, directory, service, issues, loop, file, check>>

\* fs::write does not return.
WriterHangs ==
  /\ writer.phase = "Started"
  /\ writer' = [writer EXCEPT !.phase = "Stuck"]
  /\ UNCHANGED <<runtime, directory, service, issues, loop, file, check, history>>

WriterSteps == PrepareTemp \/ Rename \/ WriteFails \/ WriterHangs
-----------------------------------------------------------------------------
(* The check.                                                              *)

Answer(answer) == check' = [check EXCEPT !.step = "Idle", !.answer = answer]

ExitCode == [OK |-> 0, WARNING |-> 1, CRITICAL |-> 2, UNKNOWN |-> 3, NoDirectory |-> 1]

OnlyCheck == UNCHANGED <<runtime, directory, daemonVars, file, history>>

\* The path is validated before anything else: no directory, exit code 1.
StartCheck ==
  /\ check.step = "Idle"
  /\ \E p \in CheckerPolls :
       check' = IF directory THEN [step |-> "Dated", poll |-> p, answer |-> "None"]
                ELSE [step |-> "Idle", poll |-> p, answer |-> "NoDirectory"]
  /\ OnlyCheck

\* Mutant: nobody looks at the age.
SkipAge ==
  /\ check.step = "Dated"
  /\ check' = [check EXCEPT !.step = "Read"]
  /\ OnlyCheck

\* A file that cannot be dated, or comes from the future, passes.
CheckAge ==
  /\ check.step = "Dated"
  /\ IF file # NoFile /\ file.age > threshold(check.poll) THEN Answer("UNKNOWN")
     ELSE check' = [check EXCEPT !.step = "Read"]
  /\ OnlyCheck

ReadFile ==
  /\ check.step = "Read"
  /\ Answer(IF file = NoFile THEN "UNKNOWN" ELSE file.level)
  /\ OnlyCheck
-----------------------------------------------------------------------------
Capped(age) == IF age > AgeCap THEN AgeCap ELSE IF age < -AgeCap THEN -AgeCap ELSE age

\* The clock moves by d.
AgeFile(d) == file' = IF file = NoFile THEN file ELSE [file EXCEPT !.age = Capped(@ + d)]

SetClock ==
  /\ writer.phase # "Prepared"
  /\ \E d \in Jumps : AgeFile(d)
  /\ history' = [history EXCEPT !.clockSet = TRUE]
  /\ UNCHANGED <<runtime, directory, daemonVars, check>>

SaysOK == service = "Up" /\ \A i \in DOMAIN issues : issues[i] = "OK"

\* Time passes while nothing is due: a writer that does not hang, a check, and a poll
\* that is due or has taken QUERIES come first.
Tick ==
  /\ writer.phase \in {"None", "Stuck"} /\ check.step = "Idle"
  /\ service \in {"Dead", "Up"} \/ writer.phase = "Stuck"
  /\ service = "Up" /\ writer.phase = "None" =>
       /\ loop.step = "Sleeping" => loop.due > 0
       /\ loop.step = "Polling" => loop.since < QUERIES
  /\ AgeFile(1)
  /\ loop' = IF service # "Up" \/ writer.phase = "Stuck" THEN loop
             ELSE CASE loop.step = "Sleeping" -> [loop EXCEPT !.due = Capped(@ - 1)]
                    [] loop.step = "Polling" -> [loop EXCEPT !.due = Capped(@ - 1), !.since = @ + 1]
                    [] loop.step = "Hung" -> [loop EXCEPT !.since = Capped(@ + 1)]
  /\ check' = NoCheck
  /\ history' = [history EXCEPT !.renamed = Capped(@ + 1),
                                !.ok = IF SaysOK THEN 0 ELSE Capped(@ + 1)]
  /\ UNCHANGED <<runtime, directory, service, issues, writer>>

Daemon ==
  \/ Validate \/ exit_with_flush \/ PollDue \/ EndPoll \/ LoopHangs \/ DiscoveryReports
  \/ WriterSteps

Check == StartCheck \/ CheckAge \/ ReadFile

StatusNext ==
  \/ Daemon \/ Check \/ Tick
  \/ StartService \/ StopsOrCrashes \/ SetClock

StatusSpec == StatusInit /\ [][StatusNext]_statusVars
-----------------------------------------------------------------------------
Answers(answers) == check.answer = "None" /\ check'.answer \in answers

\* A check that knows the daemon's poll interval never raises a false alarm about a
\* daemon that has reported once and keeps polling, whichever steps of the two
\* processes interleave, unless the clock was set or a write has failed since.
PollingIsKnown ==
  [][Answers({"UNKNOWN", "NoDirectory"}) /\ check'.poll = POLL
       => \/ service # "Up" \/ ~history.first
          \/ loop.step = "Hung" \/ writer.phase = "Stuck"
          \/ history.clockSet \/ history.failed]_statusVars

\* A level is only answered while a daemon writes the file, and OK only if a daemon
\* said so within the threshold: not after it has stopped, died or got stuck writing.
AnswerIsRecent ==
  [][Answers(Levels) /\ ~history.clockSet
       => /\ history.renamed <= threshold(check.poll)
          /\ check'.answer = "OK" => history.ok <= threshold(check.poll)]_statusVars

\* MONITORING.md: exit code 3 (UNKNOWN) when the status file is missing.
MissingIsUnknown ==
  [][Answers(DOMAIN ExitCode) /\ file = NoFile => ExitCode[check'.answer] = 3]_statusVars

\* MONITORING.md: a hung daemon is one whose status file is outdated.
HungLoopIsUnknown ==
  [][Answers(Levels) /\ loop.step = "Hung" /\ ~history.clockSet
       => loop.since <= 2 * threshold(check.poll)]_statusVars

\* MONITORING.md: the file is outdated when the daemon has crashed or hung.
OutdatedIsNotPolling ==
  [][Answers({"UNKNOWN"}) => \/ service # "Up" \/ ~history.first
                             \/ loop.step = "Hung" \/ writer.phase = "Stuck"
                             \/ history.clockSet \/ history.failed]_statusVars
=============================================================================
