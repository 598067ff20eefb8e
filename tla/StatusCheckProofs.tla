------------------------- MODULE StatusCheckProofs --------------------------
(***************************************************************************)
(* Proofs that a check is neither falsely alarmed by a daemon that polls   *)
(* nor reassured by one that does not, for any intervals and any clock.    *)
(*                                                                         *)
(* Both need the age of the file to tell when it was written (Dated); the  *)
(* first also needs the loop's timer to bound that age (Fresh, LoopTimes). *)
(***************************************************************************)
EXTENDS StatusCheck, TLAPS

Pending == writer.phase \in {"Started", "Prepared"}

\* Time has stood still since a writer that is still to rename was started.
PendingIsNew == Pending /\ writer.level = "OK" => history.ok = 0

Dated ==
  file # NoFile /\ ~history.clockSet =>
    /\ file.age = history.renamed
    /\ file.level = "OK" => history.ok <= file.age

\* Time stands still between the two looks of a check.
CheckedAge ==
  check.step = "Read" /\ file # NoFile /\ ~history.clockSet =>
    file.age <= threshold(check.poll)

\* What a daemon begins with, and that the file it has written is still there.
Begins ==
  /\ service # "Dead" => directory
  /\ service \in {"Dead", "Starting"} => writer = NoWriter /\ loop = NewLoop
  /\ service = "Starting" => ~history.first
  /\ service # "Dead" /\ history.first => file # NoFile

LoopTimes ==
  loop.step = "Polling" => loop.since <= QUERIES /\ loop.due + loop.since <= POLL

Live ==
  /\ service = "Up" /\ history.first
  /\ loop.step # "Hung" /\ writer.phase # "Stuck"
  /\ ~history.clockSet /\ ~history.failed

\* The file of a daemon that polls is no older than its poll, or the time up to which
\* it sleeps.
Fresh ==
  Live => /\ file.age <= threshold(POLL)
          /\ loop.step = "Sleeping" => \/ Pending \/ loop.due <= 0
                                       \/ file.age + loop.due <= POLL
          /\ loop.step = "Polling" => Pending \/ file.age <= loop.since

IInv ==
  /\ CheckTypeOK
  /\ PendingIsNew /\ Dated /\ CheckedAge
  /\ Begins /\ LoopTimes /\ Fresh
-----------------------------------------------------------------------------
Numbers ==
  /\ POLL \in Nat \ {0} /\ QUERIES \in Nat /\ AgeCap \in Nat
  /\ threshold(POLL) \in Nat /\ threshold(POLL) < AgeCap
  /\ QUERIES <= threshold(POLL) /\ POLL <= threshold(POLL)
  /\ \A p \in CheckerPolls : p \in Nat /\ threshold(p) \in Nat

LEMMA NumberFacts == Numbers /\ POLL \in CheckerPolls /\ Jumps \subseteq Int
<1>1. \A p \in CheckerPolls : p \in Nat /\ threshold(p) \in Nat /\ threshold(p) < AgeCap
  BY CheckAssumption DEF threshold, Larger
<1>2. POLL <= threshold(POLL)
  BY CheckAssumption DEF threshold, Larger
<1> QED
  BY <1>1, <1>2, CheckAssumption DEF Numbers

LEMMA CappedFacts ==
  ASSUME NEW n \in Int
  PROVE  /\ Capped(n) \in -AgeCap .. AgeCap
         /\ n \in -AgeCap .. AgeCap => Capped(n) = n
         /\ \A m \in Int : m <= n => Capped(m) <= Capped(n)
BY NumberFacts DEF Capped, Numbers

HistoryType == [renamed : 0 .. AgeCap, ok : 0 .. AgeCap, first : BOOLEAN,
                clockSet : BOOLEAN, failed : BOOLEAN]
LoopType == [step : {"Sleeping", "Polling", "Hung"}, due : -AgeCap .. POLL, since : 0 .. AgeCap]
WriterType == [phase : {"None", "Started", "Prepared", "Stuck"}, level : Levels]
CheckType == [step : {"Idle", "Dated", "Read"}, poll : CheckerPolls,
              answer : Levels \cup {"None", "UNKNOWN", "NoDirectory"}]

LEMMA Types ==
  ASSUME CheckTypeOK
  PROVE  /\ history \in HistoryType /\ loop \in LoopType /\ writer \in WriterType
         /\ check \in CheckType
         /\ file # NoFile => file.age \in -AgeCap .. AgeCap /\ file.level \in Levels
         /\ file.age \in Int
BY DEF CheckTypeOK, HistoryType, LoopType, WriterType, CheckType, Aged, NoFile

\* A report starts a writer and touches nothing else of what the invariant is about.
LEMMA ReportFacts ==
  ASSUME CheckTypeOK, NEW now \in [{"startup", "discovery", "loop"} -> Levels], Report(now)
  PROVE  /\ writer = NoWriter /\ issues' = now
         /\ writer' \in WriterType /\ writer'.phase = "Started"
         /\ history' \in HistoryType
         /\ history'.renamed = history.renamed /\ history'.first = history.first
         /\ history'.clockSet = history.clockSet /\ history'.failed = history.failed
         /\ history'.ok <= history.ok
         /\ writer'.level = "OK" => history'.ok = 0
<1>1. history \in HistoryType
  BY Types
<1> DEFINE level == Highest({now[i] : i \in DOMAIN now})
<1>2. level \in Levels
  BY DEF Highest, Levels
<1> HIDE DEF level
<1>3. /\ writer = NoWriter /\ issues' = now
      /\ writer' = [NoWriter EXCEPT !.phase = "Started", !.level = level]
      /\ history' = [history EXCEPT !.ok = IF level = "OK" THEN 0 ELSE @]
  BY DEF Report, level
<1>4. writer' = [phase |-> "Started", level |-> level]
  BY <1>3 DEF NoWriter
<1>5. AgeCap \in Nat
  BY NumberFacts DEF Numbers
<1> QED
  BY <1>1, <1>2, <1>3, <1>4, <1>5 DEF HistoryType, WriterType

\* A change of one issue is reported, or there is nothing to report.
LEMMA SetLevelFacts ==
  ASSUME CheckTypeOK, NEW r \in {"startup", "discovery", "loop"}, NEW l \in Levels,
         SetLevel(r, l)
  PROVE  \/ UNCHANGED <<issues, writer, history>>
         \/ \E now \in [{"startup", "discovery", "loop"} -> Levels] : Report(now)
<1>1. [issues EXCEPT ![r] = l] \in [{"startup", "discovery", "loop"} -> Levels]
  BY DEF CheckTypeOK
<1> QED
  BY <1>1 DEF SetLevel
-----------------------------------------------------------------------------
THEOREM InitInv == StatusInit => IInv
<1> SUFFICES ASSUME StatusInit PROVE IInv
  OBVIOUS
<1>1. CheckTypeOK
  BY NumberFacts DEF StatusInit, CheckTypeOK, NoIssues, NoWriter, NewLoop, NoCheck, Levels, Numbers
<1>2. Begins /\ LoopTimes /\ Fresh
  BY DEF StatusInit, Begins, LoopTimes, Fresh, Live, NewLoop, NoWriter
<1>3. PendingIsNew /\ Dated /\ CheckedAge
  BY DEF StatusInit, PendingIsNew, Pending, Dated, CheckedAge, NoWriter, NoCheck
<1> QED
  BY <1>1, <1>2, <1>3 DEF IInv

\* A report that moves the loop and the service as these actions do keeps all of it.
LEMMA ReportKeeps ==
  ASSUME IInv, NEW now \in [{"startup", "discovery", "loop"} -> Levels], Report(now),
         UNCHANGED <<runtime, directory, file, check>>
  PROVE  /\ PendingIsNew' /\ Dated' /\ CheckedAge'
         /\ issues' \in [{"startup", "discovery", "loop"} -> Levels]
         /\ writer' \in WriterType /\ history' \in HistoryType
         /\ Pending'
<1>1. CheckTypeOK /\ PendingIsNew /\ Dated /\ CheckedAge
  BY DEF IInv
<1>2. /\ writer'.phase = "Started" /\ writer' \in WriterType /\ history' \in HistoryType
      /\ history'.renamed = history.renamed /\ history'.clockSet = history.clockSet
      /\ history'.ok <= history.ok /\ (writer'.level = "OK" => history'.ok = 0)
      /\ issues' = now
  BY <1>1, ReportFacts
<1>3. /\ history \in HistoryType /\ (file # NoFile => file.age \in -AgeCap .. AgeCap)
      /\ AgeCap \in Nat
  BY <1>1, Types, NumberFacts DEF Numbers
<1>4. Dated'
  BY <1>1, <1>2, <1>3 DEF Dated, HistoryType
<1> QED
  BY <1>1, <1>2, <1>4 DEF PendingIsNew, Pending, CheckedAge

LEMMA ValidateStep == IInv /\ Validate => IInv'
<1> SUFFICES ASSUME IInv, Validate PROVE IInv'
  OBVIOUS
<1> USE DEF IInv
<1>1. PICK level \in Levels :
        /\ service' = IF level = "CRITICAL" THEN "Failing" ELSE "Up"
        /\ Report([issues EXCEPT !["startup"] = level])
  BY DEF Validate
<1>2. [issues EXCEPT !["startup"] = level] \in [{"startup", "discovery", "loop"} -> Levels]
  BY DEF CheckTypeOK
<1>3. UNCHANGED <<runtime, directory, loop, file, check>> /\ service = "Starting"
  BY DEF Validate
<1>4. /\ PendingIsNew' /\ Dated' /\ CheckedAge'
      /\ issues' \in [{"startup", "discovery", "loop"} -> Levels]
      /\ writer' \in WriterType /\ history' \in HistoryType
  BY <1>1, <1>2, <1>3, ReportKeeps
<1>5. ~history'.first
  BY <1>1, <1>2, <1>3, ReportFacts DEF Begins
<1>6. service' \in {"Failing", "Up"}
  BY <1>1
<1>7. CheckTypeOK'
  BY <1>3, <1>4, <1>6 DEF CheckTypeOK, WriterType, HistoryType
<1>8. Begins' /\ LoopTimes' /\ Fresh'
  BY <1>3, <1>5, <1>6 DEF Begins, LoopTimes, Fresh, Live
<1> QED
  BY <1>4, <1>7, <1>8

LEMMA PollDueStep == IInv /\ PollDue => IInv'
<1> SUFFICES ASSUME IInv, PollDue PROVE IInv'
  OBVIOUS
<1> USE DEF IInv
<1>1. /\ service = "Up" /\ loop.step = "Sleeping" /\ loop.due <= 0 /\ Report(issues)
      /\ loop' = [step |-> "Polling", due |-> loop.due + POLL, since |-> 0]
      /\ UNCHANGED <<runtime, directory, service, file, check>>
  BY DEF PollDue
<1>2. issues \in [{"startup", "discovery", "loop"} -> Levels] /\ loop \in LoopType
  BY Types DEF CheckTypeOK
<1>3. /\ PendingIsNew' /\ Dated' /\ CheckedAge' /\ Pending'
      /\ issues' \in [{"startup", "discovery", "loop"} -> Levels]
      /\ writer' \in WriterType /\ history' \in HistoryType
  BY <1>1, <1>2, ReportKeeps
<1>4. /\ history'.first = history.first /\ history'.clockSet = history.clockSet
      /\ history'.failed = history.failed /\ writer = NoWriter
  BY <1>1, <1>2, ReportFacts
<1>5. loop' \in LoopType /\ loop'.due + loop'.since <= POLL /\ loop'.since <= QUERIES
  BY <1>1, <1>2, NumberFacts DEF LoopType, Numbers
<1>6. CheckTypeOK'
  BY <1>1, <1>3, <1>5 DEF CheckTypeOK, WriterType, HistoryType, LoopType
<1>7. Begins' /\ LoopTimes'
  BY <1>1, <1>4, <1>5 DEF Begins, LoopTimes
<1>8. Fresh'
  BY <1>1, <1>3, <1>4 DEF Fresh, Live, NoWriter
<1> QED
  BY <1>3, <1>6, <1>7, <1>8

LEMMA LoopReportStep == IInv /\ (EndPoll \/ DiscoveryReports) => IInv'
<1> SUFFICES ASSUME IInv, EndPoll \/ DiscoveryReports PROVE IInv'
  OBVIOUS
<1> USE DEF IInv
<1>1. /\ service = "Up" /\ UNCHANGED <<runtime, directory, service, file, check>>
      /\ \/ loop' = loop
         \/ loop.step = "Polling" /\ loop' = [loop EXCEPT !.step = "Sleeping", !.since = 0]
  BY DEF EndPoll, DiscoveryReports
<1>2. \/ UNCHANGED <<issues, writer, history>>
      \/ \E now \in [{"startup", "discovery", "loop"} -> Levels] : Report(now)
  <2>1. \E r \in {"startup", "discovery", "loop"}, l \in Levels : SetLevel(r, l)
    BY DEF EndPoll, DiscoveryReports, Levels
  <2> QED
    BY <2>1, SetLevelFacts
<1>3. /\ PendingIsNew' /\ Dated' /\ CheckedAge'
      /\ issues' \in [{"startup", "discovery", "loop"} -> Levels]
      /\ writer' \in WriterType /\ history' \in HistoryType
      /\ Pending' \/ UNCHANGED <<writer, history>>
  <2>1. CASE UNCHANGED <<issues, writer, history>>
    BY <1>1, <2>1, Types DEF CheckTypeOK, PendingIsNew, Pending, Dated, CheckedAge
  <2>2. CASE \E now \in [{"startup", "discovery", "loop"} -> Levels] : Report(now)
    BY <1>1, <2>2, ReportKeeps
  <2> QED
    BY <1>2, <2>1, <2>2
<1>4. /\ history'.first = history.first /\ history'.clockSet = history.clockSet
      /\ history'.failed = history.failed
      /\ writer' = writer \/ writer.phase = "None"
  BY <1>2, ReportFacts DEF NoWriter
<1>5. loop \in LoopType /\ file.age \in Int /\ POLL \in Nat /\ QUERIES \in Nat /\ AgeCap \in Nat
  BY Types, NumberFacts DEF Numbers
<1>6. loop' \in LoopType
  <2>1. CASE loop' = loop
    BY <1>5, <2>1
  <2>2. CASE loop' = [loop EXCEPT !.step = "Sleeping", !.since = 0]
    <3>1. loop' = [step |-> "Sleeping", due |-> loop.due, since |-> 0]
      BY <1>5, <2>2 DEF LoopType
    <3> QED
      BY <1>5, <3>1 DEF LoopType
  <2> QED
    BY <1>1, <2>1, <2>2
<1>7. CheckTypeOK'
  BY <1>1, <1>3, <1>6 DEF CheckTypeOK, WriterType, HistoryType, LoopType
<1>8. Begins' /\ LoopTimes'
  BY <1>1, <1>4, <1>5 DEF Begins, LoopTimes, LoopType
<1>9. Fresh'
  <2> SUFFICES ASSUME Live'
               PROVE  /\ file.age <= threshold(POLL)
                      /\ loop'.step = "Sleeping" => \/ Pending' \/ loop'.due <= 0
                                                    \/ file.age + loop'.due <= POLL
                      /\ loop'.step = "Polling" => Pending' \/ file.age <= loop'.since
    BY <1>1 DEF Fresh
  <2>1. Live
    BY <1>1, <1>4 DEF Live, LoopType
  <2>2. CASE Pending'
    BY <2>1, <2>2 DEF Fresh
  <2>3. CASE ~Pending'
    <3>1. writer' = writer /\ ~Pending
      BY <1>3, <2>3 DEF Pending
    <3>2. CASE loop' = loop
      BY <2>1, <3>1, <3>2 DEF Fresh
    <3>3. CASE loop.step = "Polling" /\ loop' = [loop EXCEPT !.step = "Sleeping", !.since = 0]
      <4>1. file.age <= loop.since /\ file.age <= threshold(POLL)
        BY <2>1, <3>1, <3>3 DEF Fresh
      <4>2. loop'.step = "Sleeping" /\ loop'.due = loop.due /\ loop.due + loop.since <= POLL
            /\ loop.due \in Int /\ loop.since \in Int
        BY <1>5, <3>3 DEF LoopTimes, LoopType
      <4> QED
        BY <1>5, <4>1, <4>2
    <3> QED
      BY <1>1, <3>2, <3>3
  <2> QED
    BY <2>2, <2>3
<1> QED
  BY <1>3, <1>7, <1>8, <1>9

LEMMA LoopHangsStep == IInv /\ LoopHangs => IInv'
<1> SUFFICES ASSUME IInv, LoopHangs PROVE IInv'
  OBVIOUS
<1> USE DEF IInv
<1>1. /\ service = "Up" /\ loop' = [loop EXCEPT !.step = "Hung", !.due = 0]
      /\ UNCHANGED <<runtime, directory, service, issues, writer, file, check, history>>
  BY DEF LoopHangs
<1>2. loop \in LoopType /\ POLL \in Nat /\ AgeCap \in Nat
  BY Types, NumberFacts DEF Numbers
<1>3. loop' = [step |-> "Hung", due |-> 0, since |-> loop.since]
  BY <1>1, <1>2 DEF LoopType
<1>4. loop' \in LoopType /\ loop'.step = "Hung"
  BY <1>2, <1>3 DEF LoopType
<1>5. CheckTypeOK'
  BY <1>1, <1>4 DEF CheckTypeOK, LoopType
<1> QED
  BY <1>1, <1>4, <1>5
  DEF PendingIsNew, Pending, Dated, CheckedAge, Begins, LoopTimes, Fresh, Live

\* The file is as new as it gets, and says what the report has said.
LEMMA RenameStep == IInv /\ Rename => IInv'
<1> SUFFICES ASSUME IInv, Rename PROVE IInv'
  OBVIOUS
<1> USE DEF IInv
<1>1. /\ writer.phase = "Prepared" /\ writer' = NoWriter
      /\ file' = [level |-> writer.level, age |-> 0]
      /\ history' = [history EXCEPT !.renamed = 0, !.first = TRUE, !.clockSet = FALSE,
                                    !.failed = FALSE]
      /\ UNCHANGED <<runtime, directory, service, issues, loop, check>>
  BY DEF Rename
<1>2. /\ history \in HistoryType /\ loop \in LoopType /\ writer \in WriterType
      /\ check \in CheckType
  BY Types
<1>3. history' = [renamed |-> 0, ok |-> history.ok, first |-> TRUE, clockSet |-> FALSE,
                  failed |-> FALSE]
  BY <1>1, <1>2 DEF HistoryType
<1>4. file' # NoFile /\ file'.age = 0 /\ file'.level = writer.level /\ writer.level \in Levels
  <2>1. writer.level \in Levels /\ "None" \notin Levels
    BY <1>2 DEF WriterType, Levels
  <2>2. NoFile.level = "None"
    BY DEF NoFile
  <2> QED
    BY <1>1, <2>1, <2>2
<1>5. POLL \in Nat /\ AgeCap \in Nat /\ \A p \in CheckerPolls : threshold(p) \in Nat
  BY NumberFacts DEF Numbers
<1>6. service \in {"Failing", "Up"}
  BY <1>1 DEF Begins, CheckTypeOK, NoWriter
<1>7. CheckTypeOK'
  <2>1. directory
    BY <1>6 DEF Begins
  <2>2. file' \in Aged
    <3>1. writer.level \in Levels /\ 0 \in -AgeCap .. AgeCap
      BY <1>4, <1>5
    <3> QED
      BY <1>1, <3>1 DEF Aged
  <2>3. history' \in HistoryType
    BY <1>2, <1>3, <1>5 DEF HistoryType
  <2>4. writer' \in WriterType
    BY <1>1 DEF WriterType, NoWriter, Levels
  <2> QED
    BY <1>1, <2>1, <2>2, <2>3, <2>4 DEF CheckTypeOK, HistoryType, WriterType
<1>8. PendingIsNew' /\ Dated' /\ CheckedAge'
  BY <1>1, <1>2, <1>3, <1>4, <1>5
  DEF PendingIsNew, Pending, Dated, CheckedAge, NoWriter, HistoryType, CheckType
<1>9. Begins' /\ LoopTimes'
  BY <1>1, <1>3, <1>4, <1>6 DEF Begins, LoopTimes
<1>10. Fresh'
  <2>1. threshold(POLL) \in Nat
    BY NumberFacts DEF Numbers
  <2> QED
    BY <1>1, <1>2, <1>4, <1>5, <2>1 DEF Fresh, LoopType
<1> QED
  BY <1>7, <1>8, <1>9, <1>10

\* The other steps of a writer leave the file as it is.
LEMMA WriterStep == IInv /\ (PrepareTemp \/ WriteFails \/ WriterHangs) => IInv'
<1> SUFFICES ASSUME IInv, PrepareTemp \/ WriteFails \/ WriterHangs PROVE IInv'
  OBVIOUS
<1> USE DEF IInv
<1>1. /\ UNCHANGED <<runtime, directory, service, issues, loop, file, check>>
      /\ writer.phase \in {"Started", "Prepared"}
      /\ \/ writer' = [writer EXCEPT !.phase = "Prepared"] /\ history' = history
         \/ writer' = NoWriter /\ history' = [history EXCEPT !.failed = TRUE]
         \/ writer' = [writer EXCEPT !.phase = "Stuck"] /\ history' = history
  BY DEF PrepareTemp, WriteFails, WriterHangs
<1>2. history \in HistoryType /\ writer \in WriterType
  BY Types
<1>3. /\ writer' \in WriterType /\ history' \in HistoryType
      /\ writer' = NoWriter \/ writer'.level = writer.level
      /\ history'.renamed = history.renamed /\ history'.ok = history.ok
      /\ history'.first = history.first /\ history'.clockSet = history.clockSet
      /\ \/ writer'.phase = "Prepared" /\ history'.failed = history.failed
         \/ history'.failed
         \/ writer'.phase = "Stuck"
  <2>1. CASE writer' = [writer EXCEPT !.phase = "Prepared"] /\ history' = history
    BY <1>2, <2>1 DEF WriterType
  <2>2. CASE writer' = NoWriter /\ history' = [history EXCEPT !.failed = TRUE]
    <3>1. NoWriter \in WriterType
      BY DEF NoWriter, WriterType, Levels
    <3>2. history' = [renamed |-> history.renamed, ok |-> history.ok, first |-> history.first,
                      clockSet |-> history.clockSet, failed |-> TRUE]
      BY <1>2, <2>2 DEF HistoryType
    <3> QED
      BY <1>2, <2>2, <3>1, <3>2 DEF HistoryType
  <2>3. CASE writer' = [writer EXCEPT !.phase = "Stuck"] /\ history' = history
    BY <1>2, <2>3 DEF WriterType
  <2> QED
    BY <1>1, <2>1, <2>2, <2>3
<1>4. CheckTypeOK'
  BY <1>1, <1>3 DEF CheckTypeOK, HistoryType, WriterType
<1>5. PendingIsNew' /\ Dated' /\ CheckedAge'
  BY <1>1, <1>3 DEF PendingIsNew, Pending, Dated, CheckedAge, NoWriter
<1>6. Begins' /\ LoopTimes'
  BY <1>1, <1>3 DEF Begins, LoopTimes, NoWriter
<1>7. Fresh'
  BY <1>1, <1>3 DEF Fresh, Live, Pending
<1> QED
  BY <1>4, <1>5, <1>6, <1>7

LEMMA ServiceStep == IInv /\ (exit_with_flush \/ StopsOrCrashes \/ StartService) => IInv'
<1> SUFFICES ASSUME IInv, exit_with_flush \/ StopsOrCrashes \/ StartService PROVE IInv'
  OBVIOUS
<1> USE DEF IInv
<1>t. history \in HistoryType /\ AgeCap \in Nat
  BY Types, NumberFacts DEF Numbers
<1>1. CASE Ended
  <2>1. /\ service' = "Dead" /\ issues' = NoIssues /\ writer' = NoWriter /\ loop' = NewLoop
        /\ directory' = ~runtime /\ file' = (IF runtime THEN NoFile ELSE file)
        /\ UNCHANGED <<runtime, check, history>>
    BY <1>1 DEF Ended
  <2>2. NoWriter \in WriterType /\ NewLoop \in LoopType
    BY NumberFacts DEF NoWriter, WriterType, NewLoop, LoopType, Levels, Numbers
  <2>3. CheckTypeOK'
    BY <2>1, <2>2 DEF CheckTypeOK, NoIssues, Levels, WriterType, LoopType
  <2> QED
    BY <2>1, <2>3 DEF PendingIsNew, Pending, Dated, CheckedAge, Begins, LoopTimes, Fresh, Live,
                      NoWriter, NewLoop
<1>2. CASE StartService
  <2>1. /\ service = "Dead" /\ service' = "Starting" /\ directory' = TRUE
        /\ history' = [history EXCEPT !.first = FALSE, !.failed = FALSE]
        /\ UNCHANGED <<runtime, issues, writer, loop, file, check>>
    BY <1>2 DEF StartService
  <2>2. /\ history' \in HistoryType /\ ~history'.first
        /\ history'.renamed = history.renamed /\ history'.ok = history.ok
        /\ history'.clockSet = history.clockSet
    BY <1>t, <2>1 DEF HistoryType
  <2>3. CheckTypeOK'
    BY <2>1, <2>2 DEF CheckTypeOK, HistoryType
  <2> QED
    BY <2>1, <2>2, <2>3 DEF PendingIsNew, Pending, Dated, CheckedAge, Begins, LoopTimes, Fresh, Live
<1> QED
  BY <1>1, <1>2 DEF exit_with_flush, StopsOrCrashes

LEMMA CheckStep == IInv /\ (Check \/ UNCHANGED statusVars) => IInv'
<1> SUFFICES ASSUME IInv, Check \/ UNCHANGED statusVars PROVE IInv'
  OBVIOUS
<1> USE DEF IInv
<1>1. /\ UNCHANGED <<runtime, directory, service, issues, writer, loop, file, history>>
      /\ check' \in CheckType
      /\ check'.step = "Read" =>
           \/ check' = check
           \/ /\ check'.poll = check.poll
              /\ ~(file # NoFile /\ file.age > threshold(check.poll))
  <2>1. check \in CheckType
    BY Types
  <2>2. CASE StartCheck
    BY <2>1, <2>2 DEF StartCheck, OnlyCheck, daemonVars, CheckType
  <2>3. CASE CheckAge
    BY <2>1, <2>3 DEF CheckAge, Answer, OnlyCheck, daemonVars, CheckType
  <2>4. CASE ReadFile
    BY <2>1, <2>4, Types DEF ReadFile, Answer, OnlyCheck, daemonVars, CheckType
  <2>5. CASE UNCHANGED statusVars
    BY <2>1, <2>5 DEF statusVars, daemonVars
  <2> QED
    BY <2>2, <2>3, <2>4, <2>5 DEF Check
<1>2. CheckTypeOK'
  BY <1>1 DEF CheckTypeOK, CheckType
<1>3. CheckedAge'
  <2>1. file.age \in Int /\ \A p \in CheckerPolls : threshold(p) \in Nat
    BY Types, NumberFacts DEF Numbers
  <2>2. check \in CheckType
    BY Types
  <2> QED
    BY <1>1, <2>1, <2>2 DEF CheckedAge, CheckType
<1> QED
  BY <1>1, <1>2, <1>3
  DEF PendingIsNew, Pending, Dated, Begins, LoopTimes, Fresh, Live

\* The file gets as much older as the clock moves.
LEMMA AgeFacts ==
  ASSUME CheckTypeOK, NEW d \in Int, AgeFile(d)
  PROVE  /\ file' = NoFile <=> file = NoFile
         /\ file' \in Aged \cup {NoFile}
         /\ file # NoFile => file'.age = Capped(file.age + d) /\ file'.level = file.level
<1>1. CASE file = NoFile
  BY <1>1 DEF AgeFile
<1>2. CASE file # NoFile
  <2>1. file \in Aged
    BY <1>2 DEF CheckTypeOK
  <2>2. file' = [file EXCEPT !.age = Capped(@ + d)] /\ file.age + d \in Int
    BY <1>2, <2>1, NumberFacts DEF AgeFile, Aged, Numbers
  <2>3. Capped(file.age + d) \in -AgeCap .. AgeCap
    BY <2>2, CappedFacts
  <2>4. file' \in Aged /\ file'.age = Capped(file.age + d) /\ file'.level = file.level
    BY <2>1, <2>2, <2>3 DEF Aged
  <2>5. NoFile \notin Aged
    BY DEF NoFile, Aged, Levels
  <2> QED
    BY <1>2, <2>4, <2>5
<1> QED
  BY <1>1, <1>2

LEMMA SetClockStep == IInv /\ SetClock => IInv'
<1> SUFFICES ASSUME IInv, SetClock PROVE IInv'
  OBVIOUS
<1> USE DEF IInv
<1>1. /\ history' = [history EXCEPT !.clockSet = TRUE]
      /\ UNCHANGED <<runtime, directory, service, issues, writer, loop, check>>
  BY DEF SetClock, daemonVars
<1>2. PICK d \in Int : AgeFile(d)
  BY NumberFacts DEF SetClock
<1>3. (file' = NoFile <=> file = NoFile) /\ file' \in Aged \cup {NoFile}
  BY <1>2, AgeFacts
<1>4. /\ history' \in HistoryType /\ history'.clockSet /\ history'.ok = history.ok
      /\ history'.first = history.first
  BY <1>1, Types DEF HistoryType
<1>5. CheckTypeOK'
  BY <1>1, <1>3, <1>4 DEF CheckTypeOK, HistoryType
<1> QED
  BY <1>1, <1>3, <1>4, <1>5
  DEF PendingIsNew, Pending, Dated, CheckedAge, Begins, LoopTimes, Fresh, Live

\* A tick ages everything alike, and the loop's timer runs down as the file ages.
LEMMA TickStep == IInv /\ Tick => IInv'
<1> SUFFICES ASSUME IInv, Tick PROVE IInv'
  OBVIOUS
<1> USE DEF IInv
<1>1. /\ writer.phase \in {"None", "Stuck"} /\ check.step = "Idle"
      /\ AgeFile(1) /\ check' = NoCheck
      /\ history' = [history EXCEPT !.renamed = Capped(@ + 1),
                                    !.ok = IF SaysOK THEN 0 ELSE Capped(@ + 1)]
      /\ UNCHANGED <<runtime, directory, service, issues, writer>>
  BY DEF Tick
<1>2. /\ history \in HistoryType /\ loop \in LoopType /\ file.age \in Int
      /\ (file # NoFile => file.age \in -AgeCap .. AgeCap)
  BY Types
<1>3. Numbers
  BY NumberFacts
<1>4. /\ file' = NoFile <=> file = NoFile
      /\ file' \in Aged \cup {NoFile}
      /\ file # NoFile => file'.age = Capped(file.age + 1) /\ file'.level = file.level
  BY <1>1, AgeFacts
<1>5. /\ history'.renamed = Capped(history.renamed + 1)
      /\ history'.ok \in {0, Capped(history.ok + 1)}
      /\ history'.first = history.first /\ history'.clockSet = history.clockSet
      /\ history'.failed = history.failed
      /\ history' \in HistoryType
  <2>1. history.renamed + 1 \in Int /\ history.ok + 1 \in Int /\ history.renamed \in Nat
        /\ history.ok \in Nat
    BY <1>2, <1>3 DEF HistoryType, Numbers
  <2>2. Capped(history.renamed + 1) \in 0 .. AgeCap /\ Capped(history.ok + 1) \in 0 .. AgeCap
    BY <1>3, <2>1 DEF Capped, Numbers
  <2>3. 0 \in 0 .. AgeCap
    BY <1>3 DEF Numbers
  <2> DEFINE ok == IF SaysOK THEN 0 ELSE Capped(history.ok + 1)
  <2>4. ok \in {0, Capped(history.ok + 1)}
    OBVIOUS
  <2>5. history' = [renamed |-> Capped(history.renamed + 1), ok |-> ok,
                    first |-> history.first, clockSet |-> history.clockSet,
                    failed |-> history.failed]
    BY <1>1, <1>2 DEF HistoryType
  <2> HIDE DEF ok
  <2> QED
    BY <1>2, <2>2, <2>3, <2>4, <2>5 DEF HistoryType
<1>6. /\ loop' \in LoopType
      /\ \/ service # "Up" \/ writer.phase = "Stuck" \/ loop.step = "Hung"
         \/ /\ loop.step = "Sleeping" /\ loop.due > 0
            /\ loop'.step = "Sleeping" /\ loop'.due = loop.due - 1
         \/ /\ loop.step = "Polling" /\ loop.since < QUERIES
            /\ loop'.step = "Polling" /\ loop'.since = loop.since + 1
            /\ loop'.due + loop'.since <= POLL
      /\ \/ loop' = loop
         \/ loop.step = "Hung" /\ loop'.step = "Hung"
         \/ service = "Up" /\ writer.phase = "None" /\ loop.step # "Hung"
  <2>1. CASE service # "Up" \/ writer.phase = "Stuck"
    BY <1>2, <2>1 DEF Tick
  <2>2. CASE service = "Up" /\ writer.phase = "None" /\ loop.step = "Sleeping"
    <3>1. loop.due > 0 /\ loop' = [loop EXCEPT !.due = Capped(@ - 1)]
      BY <2>2 DEF Tick
    <3>2. Capped(loop.due - 1) = loop.due - 1
      BY <1>2, <1>3, <3>1 DEF Capped, LoopType, Numbers
    <3>3. loop' = [step |-> "Sleeping", due |-> loop.due - 1, since |-> loop.since]
      BY <1>2, <2>2, <3>1, <3>2 DEF LoopType
    <3> QED
      BY <1>2, <1>3, <2>2, <3>1, <3>3 DEF LoopType, Numbers
  <2>3. CASE service = "Up" /\ writer.phase = "None" /\ loop.step = "Polling"
    <3>1. loop.since < QUERIES
          /\ loop' = [loop EXCEPT !.due = Capped(@ - 1), !.since = @ + 1]
      BY <2>3 DEF Tick
    <3>2. /\ Capped(loop.due - 1) \in -AgeCap .. POLL
          /\ Capped(loop.due - 1) = loop.due - 1 \/ Capped(loop.due - 1) = -AgeCap
      BY <1>2, <1>3 DEF Capped, LoopType, Numbers
    <3>3. loop' = [step |-> "Polling", due |-> Capped(loop.due - 1), since |-> loop.since + 1]
      BY <1>2, <2>3, <3>1 DEF LoopType
    <3>4. loop.due + loop.since <= POLL /\ loop.since + 1 <= AgeCap
      BY <1>2, <1>3, <2>3, <3>1 DEF LoopTimes, LoopType, Numbers
    <3>5. Capped(loop.due - 1) + (loop.since + 1) <= POLL
      BY <1>2, <1>3, <3>2, <3>4 DEF LoopType, Numbers
    <3> QED
      BY <1>2, <1>3, <2>3, <3>1, <3>2, <3>3, <3>4, <3>5 DEF LoopType, Numbers
  <2>4. CASE service = "Up" /\ writer.phase = "None" /\ loop.step = "Hung"
    <3>1. loop' = [loop EXCEPT !.since = Capped(@ + 1)]
      BY <2>4 DEF Tick
    <3>2. Capped(loop.since + 1) \in 0 .. AgeCap
      BY <1>2, <1>3 DEF Capped, LoopType, Numbers
    <3>3. loop' = [step |-> "Hung", due |-> loop.due, since |-> Capped(loop.since + 1)]
      BY <1>2, <2>4, <3>1 DEF LoopType
    <3> QED
      BY <1>2, <2>4, <3>2, <3>3 DEF LoopType
  <2> QED
    BY <1>1, <1>2, <2>1, <2>2, <2>3, <2>4 DEF LoopType
<1>7. CheckTypeOK'
  <2>1. check' \in CheckType
    BY <1>1, NumberFacts DEF NoCheck, CheckType
  <2> QED
    BY <1>1, <1>4, <1>5, <1>6, <2>1 DEF CheckTypeOK, HistoryType, LoopType, CheckType
<1>8. PendingIsNew' /\ CheckedAge'
  BY <1>1 DEF PendingIsNew, Pending, CheckedAge, NoCheck
<1>9. Dated'
  <2> SUFFICES ASSUME file # NoFile, ~history.clockSet
               PROVE  /\ file'.age = history'.renamed
                      /\ file'.level = "OK" => history'.ok <= file'.age
    BY <1>4, <1>5 DEF Dated
  <2>1. file.age = history.renamed /\ (file.level = "OK" => history.ok <= file.age)
    BY DEF Dated
  <2>2. file'.age = history'.renamed /\ file'.age >= 0
    BY <1>4, <1>5, <2>1 DEF HistoryType
  <2>3. history.ok <= file.age => Capped(history.ok + 1) <= Capped(file.age + 1)
    BY <1>2, <1>3, CappedFacts DEF HistoryType, Numbers
  <2> QED
    BY <1>4, <1>5, <2>1, <2>2, <2>3
<1>10. Begins' /\ LoopTimes'
  <2>1. service \in {"Dead", "Starting"} => writer = NoWriter /\ loop = NewLoop
    BY DEF Begins
  <2>2. service \in {"Dead", "Starting"} => loop' = loop
    BY DEF Tick
  <2>3. Begins'
    BY <1>1, <1>4, <1>5, <2>1, <2>2 DEF Begins
  <2>4. LoopTimes'
    BY <1>2, <1>3, <1>6 DEF LoopTimes, LoopType, Numbers
  <2> QED
    BY <2>3, <2>4
<1>11. Fresh'
  <2> SUFFICES ASSUME Live'
               PROVE  /\ file'.age <= threshold(POLL)
                      /\ loop'.step = "Sleeping" => loop'.due <= 0 \/ file'.age + loop'.due <= POLL
                      /\ loop'.step = "Polling" => file'.age <= loop'.since
    BY DEF Fresh
  <2>1. Live /\ ~Pending /\ loop.step # "Hung"
    BY <1>1, <1>5, <1>6 DEF Live, Pending
  <2>2. file # NoFile /\ file.age \in -AgeCap .. AgeCap
    BY <1>2, <2>1 DEF Live, Begins
  <2>3. file'.age = Capped(file.age + 1)
    BY <1>4, <2>2
  <2>4. CASE loop.step = "Sleeping"
    <3>1. loop.due > 0 /\ loop'.step = "Sleeping" /\ loop'.due = loop.due - 1
      BY <1>6, <2>1, <2>4 DEF Live
    <3>2. file.age + loop.due <= POLL /\ loop.due \in Int
      BY <1>2, <2>1, <2>4, <3>1 DEF Fresh, LoopType
    <3>3. file.age + 1 <= POLL
      BY <1>2, <1>3, <3>1, <3>2 DEF Numbers
    <3>4. Capped(file.age + 1) = file.age + 1
      BY <1>3, <2>2, <3>3 DEF Capped, Numbers
    <3> QED
      BY <1>2, <1>3, <2>2, <2>3, <3>1, <3>2, <3>3, <3>4 DEF Numbers
  <2>5. CASE loop.step = "Polling"
    <3>1. loop.since < QUERIES /\ loop'.step = "Polling" /\ loop'.since = loop.since + 1
      BY <1>6, <2>1, <2>5 DEF Live
    <3>2. file.age <= loop.since /\ loop.since \in Int
      BY <1>2, <2>1, <2>5 DEF Fresh, LoopType
    <3>3. file.age + 1 <= QUERIES
      BY <1>2, <1>3, <3>1, <3>2 DEF Numbers
    <3>4. Capped(file.age + 1) = file.age + 1
      BY <1>3, <2>2, <3>3 DEF Capped, Numbers
    <3> QED
      BY <1>2, <1>3, <2>2, <2>3, <3>1, <3>2, <3>3, <3>4 DEF Numbers
  <2> QED
    BY <1>2, <2>1, <2>4, <2>5 DEF LoopType
<1> QED
  BY <1>7, <1>8, <1>9, <1>10, <1>11

THEOREM StepInv == IInv /\ [StatusNext]_statusVars => IInv'
<1> SUFFICES ASSUME IInv, [StatusNext]_statusVars PROVE IInv'
  OBVIOUS
<1>1. CASE Validate BY <1>1, ValidateStep
<1>2. CASE PollDue BY <1>2, PollDueStep
<1>3. CASE EndPoll \/ DiscoveryReports BY <1>3, LoopReportStep
<1>4. CASE LoopHangs BY <1>4, LoopHangsStep
<1>5. CASE Rename BY <1>5, RenameStep
<1>6. CASE PrepareTemp \/ WriteFails \/ WriterHangs BY <1>6, WriterStep
<1>7. CASE exit_with_flush \/ StopsOrCrashes \/ StartService BY <1>7, ServiceStep
<1>8. CASE Check \/ UNCHANGED statusVars BY <1>8, CheckStep
<1>9. CASE SetClock BY <1>9, SetClockStep
<1>10. CASE Tick BY <1>10, TickStep
<1> QED
  BY <1>1, <1>2, <1>3, <1>4, <1>5, <1>6, <1>7, <1>8, <1>9, <1>10
  DEF StatusNext, Daemon, WriterSteps
-----------------------------------------------------------------------------
\* The inductive invariant, for any intervals, thresholds and settings of the clock.
THEOREM Inductive == StatusSpec => []IInv
<1>1. StatusInit => IInv
  BY InitInv
<1>2. IInv /\ [StatusNext]_statusVars => IInv'
  BY StepInv
<1> QED
  BY <1>1, <1>2, PTL DEF StatusSpec

\* Type correctness of the daemon as its status file shows it, and of the check.
THEOREM TypesCorrect == StatusSpec => []CheckTypeOK
<1>1. IInv => CheckTypeOK
  BY DEF IInv
<1> QED
  BY <1>1, Inductive, PTL

\* Only the check itself gives an answer.
LEMMA AnswersOnly ==
  ASSUME CheckTypeOK, [StatusNext]_statusVars, check.answer = "None", check'.answer # "None"
  PROVE  StartCheck \/ CheckAge \/ ReadFile
<1>1. check' # check /\ check' # NoCheck
  BY DEF NoCheck
<1> QED
  BY <1>1 DEF StatusNext, Daemon, WriterSteps, Check, Validate, exit_with_flush, StopsOrCrashes,
              Ended, StartService, PollDue, EndPoll, LoopHangs, DiscoveryReports, PrepareTemp,
              Rename, WriteFails, WriterHangs, SetClock, Tick, statusVars

\* A check that knows the daemon's poll interval raises no false alarm: whatever the
\* intervals are, a daemon that polls keeps its file younger than the threshold.
THEOREM NoFalseAlarm == StatusSpec => PollingIsKnown
<1>1. IInv /\ [StatusNext]_statusVars =>
        [Answers({"UNKNOWN", "NoDirectory"}) /\ check'.poll = POLL
           => \/ service # "Up" \/ ~history.first
              \/ loop.step = "Hung" \/ writer.phase = "Stuck"
              \/ history.clockSet \/ history.failed]_statusVars
  <2> SUFFICES ASSUME IInv, [StatusNext]_statusVars, Live,
                      Answers({"UNKNOWN", "NoDirectory"}), check'.poll = POLL
               PROVE  FALSE
    BY DEF Live
  <2>1. check.answer = "None" /\ check'.answer \in {"UNKNOWN", "NoDirectory"}
    BY DEF Answers
  <2>2. /\ file # NoFile /\ directory /\ file.age <= threshold(POLL)
        /\ file.level \in Levels /\ check \in CheckType
        /\ file.age \in Int /\ threshold(POLL) \in Int
    BY Types, NumberFacts DEF IInv, Begins, Fresh, Live, Numbers
  <2>3. StartCheck \/ CheckAge \/ ReadFile
    BY <2>1, AnswersOnly DEF IInv
  <2>4. CASE StartCheck
    BY <2>1, <2>2, <2>4 DEF StartCheck
  <2>5. CASE CheckAge
    <3>1. check'.poll = check.poll
      BY <2>2, <2>5 DEF CheckAge, Answer, CheckType
    <3>2. ~(file.age > threshold(check.poll))
      BY <2>2, <3>1
    <3>3. check'.answer = check.answer
      BY <2>2, <2>5, <3>2 DEF CheckAge, CheckType
    <3> QED
      BY <2>1, <3>3
  <2>6. CASE ReadFile
    BY <2>1, <2>2, <2>6 DEF ReadFile, Answer, CheckType, Levels
  <2> QED
    BY <2>3, <2>4, <2>5, <2>6
<1> QED
  BY <1>1, Inductive, PTL DEF StatusSpec, PollingIsKnown

\* A level is an answer only if a daemon has written within the threshold, and OK only
\* if a daemon said so within it, whatever the check's own interval is.
THEOREM NoStaleAnswer == StatusSpec => AnswerIsRecent
<1>1. IInv /\ [StatusNext]_statusVars =>
        [Answers(Levels) /\ ~history.clockSet
           => /\ history.renamed <= threshold(check.poll)
              /\ check'.answer = "OK" => history.ok <= threshold(check.poll)]_statusVars
  <2> SUFFICES ASSUME IInv, [StatusNext]_statusVars, Answers(Levels), ~history.clockSet
               PROVE  /\ history.renamed <= threshold(check.poll)
                      /\ check'.answer = "OK" => history.ok <= threshold(check.poll)
    OBVIOUS
  <2>1. check.answer = "None" /\ check'.answer \in {"OK", "WARNING", "CRITICAL"}
    BY DEF Answers, Levels
  <2>2. /\ check \in CheckType /\ history \in HistoryType /\ file.age \in Int
        /\ threshold(check.poll) \in Int /\ AgeCap \in Nat
    <3>1. check \in CheckType /\ history \in HistoryType /\ file.age \in Int
      BY Types DEF IInv
    <3>2. check.poll \in CheckerPolls
      BY <3>1 DEF CheckType
    <3>3. AgeCap \in Nat /\ threshold(check.poll) \in Nat
      BY <3>2, NumberFacts DEF Numbers
    <3> QED
      BY <3>1, <3>3
  <2>3. StartCheck \/ CheckAge \/ ReadFile
    BY <2>1, AnswersOnly DEF IInv
  <2>4. ReadFile
    <3>1. CASE StartCheck
      BY <2>1, <2>2, <3>1 DEF StartCheck, CheckType
    <3>2. CASE CheckAge
      <4>1. check'.answer \in {"UNKNOWN", check.answer}
        BY <2>2, <3>2 DEF CheckAge, Answer, CheckType
      <4> QED
        BY <2>1, <4>1
    <3> QED
      BY <2>3, <3>1, <3>2
  <2>5. file # NoFile /\ check.step = "Read" /\ check'.answer = file.level
    BY <2>1, <2>2, <2>4 DEF ReadFile, Answer, CheckType
  <2>6. /\ file.age <= threshold(check.poll) /\ file.age = history.renamed
        /\ file.level = "OK" => history.ok <= file.age
    BY <2>5 DEF IInv, CheckedAge, Dated
  <2> QED
    BY <2>2, <2>5, <2>6 DEF HistoryType
<1> QED
  BY <1>1, Inductive, PTL DEF StatusSpec, AnswerIsRecent
=============================================================================
