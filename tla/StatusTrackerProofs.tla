------------------------- MODULE StatusTrackerProofs -------------------------
(***************************************************************************)
(* Proofs about the status tracker for any number of threads, issues and   *)
(* writer threads.                                                         *)
(*                                                                         *)
(* The inductive invariant says where a handle can be (LockInv: a writer   *)
(* thread that was not joined is reachable through the mutex or is being   *)
(* joined by the thread inside it), that a snapshot cannot age while read  *)
(* guards are held (SnapshotStaysCurrent), how the versions are ordered    *)
(* (VersionInv) and where a change is on its way to the file (FlowInv).    *)
(***************************************************************************)
EXTENDS StatusTracker, TLAPS

LockInv ==
  /\ \A t \in Threads : mutex = t <=> pc[t] \in {"Join", "FlushJoin"}
  /\ \A t \in Threads : joining[t] # None => mutex = t
  /\ mutex # None => last_write_thread = None /\ ~poisoned
  /\ \A w \in WriterIds : writers[w].phase # "Free" =>
       w = last_write_thread \/ \E t \in Threads : joining[t] = w

VersionInv ==
  /\ file.version <= version
  /\ \A w \in Live : /\ file.version <= writers[w].status.version
                     /\ writers[w].status.version <= version
  /\ \A t \in Threads : owed[t] <= version
  /\ ~status_file => \A t \in Threads : owed[t] = 0

Published(t) == file.version >= owed[t] \/ lost >= owed[t]

OnItsWay(t) ==
  \/ pc[t] \in {"Read", "Lock", "Join"}
  \/ \E w \in Live : writers[w].status.version >= owed[t]

FlowInv ==
  /\ \A t \in Threads : Published(t) \/ OnItsWay(t) \/ poisoned
  /\ pc[Main] = "Exit" => Published(Main)

IInv == TypeOK /\ LockInv /\ SnapshotStaysCurrent /\ VersionInv /\ FlowInv
-----------------------------------------------------------------------------
\* The aggregated status is a status, and carries the version it is given.
LEMMA AggregateType ==
  ASSUME NEW issues \in [Keys -> Levels], NEW v \in Nat
  PROVE  Aggregate(issues, v) \in Status /\ Aggregate(issues, v).version = v
BY DEF Aggregate, Status, Levels

\* Nothing aggregates to the status that an absent file stands for.
LEMMA AggregateNone == Aggregate([k \in Keys |-> "Ok"], 0) = NoStatus
BY DEF Aggregate, NoStatus

\* The records that stand for nothing have their types.
LEMMA BlankTypes ==
  /\ NoStatus \in Status
  /\ NoStatus.version = 0
  /\ NoWriter \in [phase : Phases, status : Status]
  /\ NoWriter.phase = "Free"
  /\ Finished \in [phase : Phases, status : Status]
  /\ Finished.phase = "Finished"
BY DEF NoStatus, NoWriter, Finished, Status, Levels, Phases

\* At most one writer thread runs, because every handle passes through the mutex.
LEMMA LockInvSerialises == LockInv => OneWriter
<1> SUFFICES ASSUME LockInv, NEW v \in Live, NEW w \in Live PROVE v = w
  BY DEF OneWriter
<1>1. /\ v \in WriterIds /\ writers[v].phase # "Free"
      /\ w \in WriterIds /\ writers[w].phase # "Free"
  BY DEF Live
<1>2. CASE mutex = None
  BY <1>1, <1>2, NoneAssumption DEF LockInv
<1>3. CASE mutex # None
  BY <1>1, <1>3, NoneAssumption DEF LockInv
<1> QED
  BY <1>2, <1>3

\* The changes that set_issue, clear_issue and clear_issues_with_prefix ask for.
LEMMA RequestCases ==
  ASSUME NEW t \in Threads,
         set_issue(t) \/ clear_issue(t) \/ clear_issues_with_prefix(t)
  PROVE  \E keys \in SUBSET Keys, level \in Levels :
           [keys |-> keys, level |-> level] \in Changes /\ Request(t, keys, level)
BY ThreadsAssumption, PrefixesAssumption
   DEF set_issue, clear_issue, clear_issues_with_prefix, Changes, Levels

\* Every action keeps the types.
LEMMA TypeStep == TypeOK /\ [Next]_vars => TypeOK'
<1> SUFFICES ASSUME TypeOK, [Next]_vars PROVE TypeOK'
  OBVIOUS
<1>1. CASE set_status_file
  BY <1>1, ThreadsAssumption, BlankTypes
     DEF TypeOK, Places, Phases, set_status_file, At, locks, issueVars, diskVars
<1>2. ASSUME NEW t \in Threads, NEW keys \in SUBSET Keys, NEW level \in Levels,
             [keys |-> keys, level |-> level] \in Changes,
             Request(t, keys, level)
      PROVE  TypeOK'
  BY <1>2, ThreadsAssumption, BlankTypes
     DEF TypeOK, Places, Phases, Request, At, Go, locks, issueVars, diskVars
<1>3. ASSUME NEW t \in Threads, touch(t)
      PROVE  TypeOK'
  BY <1>3, ThreadsAssumption, BlankTypes
     DEF TypeOK, Places, Phases, touch, At, Go, locks, issueVars, diskVars
<1>4. ASSUME NEW t \in Threads, Enqueue(t)
      PROVE  TypeOK'
  BY <1>4, ThreadsAssumption, BlankTypes
     DEF TypeOK, Places, Phases, Enqueue, At, Go, locks, issueVars, diskVars
<1>5. ASSUME NEW t \in Threads, Modify(t)
      PROVE  TypeOK'
  <2>1. /\ op[t] \in Changes \cup {NoChange}
        /\ op[t].level \in Levels
    BY DEF TypeOK, Changes, NoChange, Levels
  <2>2. active_issues' \in [Keys -> Levels] /\ version' \in Nat
    BY <1>5, <2>1 DEF TypeOK, Modify, issueVars
  <2>3. owed' \in [Threads -> Nat]
    BY <1>5, <2>2 DEF TypeOK, Modify, issueVars
  <2>4. op' \in [Threads -> Changes \cup {NoChange}] /\ pc' \in [Threads -> Places]
    BY <1>5 DEF TypeOK, Modify, Places, Go
  <2> QED
    BY <1>5, <2>2, <2>3, <2>4 DEF TypeOK, Modify, locks, diskVars
<1>6. ASSUME NEW t \in Threads, NoPath(t)
      PROVE  TypeOK'
  BY <1>6, ThreadsAssumption, BlankTypes
     DEF TypeOK, Places, Phases, NoPath, At, Go, locks, issueVars, diskVars
<1>7. ASSUME NEW t \in Threads, Snapshot(t)
      PROVE  TypeOK'
  <2>1. Aggregate(active_issues, version) \in Status
    BY AggregateType DEF TypeOK
  <2> QED
    BY <1>7, <2>1 DEF TypeOK, Places, Snapshot, Go, locks, issueVars, diskVars
<1>8. ASSUME NEW t \in Threads, LockForWrite(t)
      PROVE  TypeOK'
  BY <1>8, ThreadsAssumption, BlankTypes
     DEF TypeOK, Places, Phases, LockForWrite, TakeHandle, At, Go, locks, issueVars, diskVars
<1>9. ASSUME NEW t \in Threads, LockPanics(t)
      PROVE  TypeOK'
  BY <1>9, ThreadsAssumption, BlankTypes
     DEF TypeOK, Places, Phases, LockPanics, At, Go, locks, issueVars, diskVars
<1>10. ASSUME NEW t \in Threads, Spawn(t)
      PROVE  TypeOK'
  BY <1>10, ThreadsAssumption, BlankTypes
     DEF TypeOK, Places, Phases, Spawn, Joined, Reaped, At, Go, locks, issueVars, diskVars
<1>11. ASSUME NEW t \in Threads, SpawnPanics(t)
      PROVE  TypeOK'
  BY <1>11, ThreadsAssumption, BlankTypes
     DEF TypeOK, Places, Phases, SpawnPanics, Joined, Reaped, At, Go, locks, issueVars, diskVars
<1>12. CASE flush
  BY <1>12, ThreadsAssumption, BlankTypes
     DEF TypeOK, Places, Phases, flush, At, Go, locks, issueVars, diskVars
<1>13. CASE LockForFlush
  BY <1>13, ThreadsAssumption, BlankTypes
     DEF TypeOK, Places, Phases, LockForFlush, TakeHandle, At, Go, locks, issueVars, diskVars
<1>14. CASE FlushJoined
  BY <1>14, ThreadsAssumption, BlankTypes
     DEF TypeOK, Places, Phases, FlushJoined, Joined, Reaped, At, Go, locks, issueVars, diskVars
<1>15. CASE Exit \/ MainPanicEnds
  BY <1>15, ThreadsAssumption, BlankTypes
     DEF TypeOK, Places, Phases, Exit, MainPanicEnds, At, locks, issueVars, diskVars
<1>16. ASSUME NEW w \in WriterIds, PrepareTemp(w)
      PROVE  TypeOK'
  BY <1>16, ThreadsAssumption, BlankTypes
     DEF TypeOK, Places, Phases, PrepareTemp, InPhase, locks, issueVars, diskVars
<1>17. ASSUME NEW w \in WriterIds, Rename(w)
      PROVE  TypeOK'
  BY <1>17, ThreadsAssumption, BlankTypes
     DEF TypeOK, Places, Phases, Rename, InPhase, locks, issueVars, diskVars
<1>18. ASSUME NEW w \in WriterIds, WriteFails(w)
      PROVE  TypeOK'
  <2>1. writers[w].status.version \in Nat
    BY <1>18 DEF TypeOK, Status
  <2> QED
    BY <1>18, <2>1, BlankTypes DEF TypeOK, WriteFails, locks, issueVars, diskVars
<1>19. CASE UNCHANGED vars
  BY <1>19, ThreadsAssumption, BlankTypes
     DEF TypeOK, Places, Phases, vars, locks, issueVars, diskVars
<1> QED
  BY <1>1, <1>2, <1>3, <1>4, <1>5, <1>6, <1>7, <1>8, <1>9, <1>10,
     <1>11, <1>12, <1>13, <1>14, <1>15, <1>16, <1>17, <1>18, <1>19, RequestCases
     DEF Next, Reports, ThreadStep, ExitStep, WriterStep, Terminated

\* Every action keeps the handles where they belong.
LEMMA LockStep == IInv /\ [Next]_vars => LockInv'
<1> SUFFICES ASSUME IInv, [Next]_vars PROVE LockInv'
  OBVIOUS
<1>1. CASE set_status_file
  BY <1>1, ThreadsAssumption, NoneAssumption, BlankTypes
     DEF IInv, TypeOK, LockInv, set_status_file, At, locks, issueVars, diskVars
<1>2. ASSUME NEW t \in Threads, NEW keys \in SUBSET Keys, NEW level \in Levels,
             [keys |-> keys, level |-> level] \in Changes,
             Request(t, keys, level)
      PROVE  LockInv'
  BY <1>2, ThreadsAssumption, NoneAssumption, BlankTypes
     DEF IInv, TypeOK, LockInv, Request, At, Go, locks, issueVars, diskVars
<1>3. ASSUME NEW t \in Threads, touch(t)
      PROVE  LockInv'
  BY <1>3, ThreadsAssumption, NoneAssumption, BlankTypes
     DEF IInv, TypeOK, LockInv, touch, At, Go, locks, issueVars, diskVars
<1>4. ASSUME NEW t \in Threads, Enqueue(t)
      PROVE  LockInv'
  BY <1>4, ThreadsAssumption, NoneAssumption, BlankTypes
     DEF IInv, TypeOK, LockInv, Enqueue, At, Go, locks, issueVars, diskVars
<1>5. ASSUME NEW t \in Threads, Modify(t)
      PROVE  LockInv'
  BY <1>5, ThreadsAssumption, NoneAssumption, BlankTypes
     DEF IInv, TypeOK, LockInv, Modify, At, Go, locks, issueVars, diskVars
<1>6. ASSUME NEW t \in Threads, NoPath(t)
      PROVE  LockInv'
  BY <1>6, ThreadsAssumption, NoneAssumption, BlankTypes
     DEF IInv, TypeOK, LockInv, NoPath, At, Go, locks, issueVars, diskVars
<1>7. ASSUME NEW t \in Threads, Snapshot(t)
      PROVE  LockInv'
  BY <1>7, ThreadsAssumption, NoneAssumption, BlankTypes
     DEF IInv, TypeOK, LockInv, Snapshot, At, Go, locks, issueVars, diskVars
<1>8. ASSUME NEW t \in Threads, LockForWrite(t)
      PROVE  LockInv'
  BY <1>8, ThreadsAssumption, NoneAssumption, BlankTypes
     DEF IInv, TypeOK, LockInv, LockForWrite, TakeHandle, At, Go, locks, issueVars, diskVars
<1>9. ASSUME NEW t \in Threads, LockPanics(t)
      PROVE  LockInv'
  BY <1>9, ThreadsAssumption, NoneAssumption, BlankTypes
     DEF IInv, TypeOK, LockInv, LockPanics, At, Go, locks, issueVars, diskVars
<1>10. ASSUME NEW t \in Threads, Spawn(t)
      PROVE  LockInv'
  BY <1>10, ThreadsAssumption, NoneAssumption, BlankTypes
     DEF IInv, TypeOK, LockInv, Spawn, Joined, Reaped, At, Go, locks, issueVars, diskVars
<1>11. ASSUME NEW t \in Threads, SpawnPanics(t)
      PROVE  LockInv'
  BY <1>11, ThreadsAssumption, NoneAssumption, BlankTypes
     DEF IInv, TypeOK, LockInv, SpawnPanics, Joined, Reaped, At, Go, locks, issueVars, diskVars
<1>12. CASE flush
  BY <1>12, ThreadsAssumption, NoneAssumption, BlankTypes
     DEF IInv, TypeOK, LockInv, flush, At, Go, locks, issueVars, diskVars
<1>13. CASE LockForFlush
  BY <1>13, ThreadsAssumption, NoneAssumption, BlankTypes
     DEF IInv, TypeOK, LockInv, LockForFlush, TakeHandle, At, Go, locks, issueVars, diskVars
<1>14. CASE FlushJoined
  BY <1>14, ThreadsAssumption, NoneAssumption, BlankTypes
     DEF IInv, TypeOK, LockInv, FlushJoined, Joined, Reaped, At, Go, locks, issueVars, diskVars
<1>15. CASE Exit \/ MainPanicEnds
  BY <1>15, ThreadsAssumption, NoneAssumption, BlankTypes
     DEF IInv, TypeOK, LockInv, Exit, MainPanicEnds, At, locks, issueVars, diskVars
<1>16. ASSUME NEW w \in WriterIds, PrepareTemp(w)
      PROVE  LockInv'
  BY <1>16, ThreadsAssumption, NoneAssumption, BlankTypes
     DEF IInv, TypeOK, LockInv, PrepareTemp, InPhase, locks, issueVars, diskVars
<1>17. ASSUME NEW w \in WriterIds, Rename(w)
      PROVE  LockInv'
  BY <1>17, ThreadsAssumption, NoneAssumption, BlankTypes
     DEF IInv, TypeOK, LockInv, Rename, InPhase, locks, issueVars, diskVars
<1>18. ASSUME NEW w \in WriterIds, WriteFails(w)
      PROVE  LockInv'
  BY <1>18, ThreadsAssumption, NoneAssumption, BlankTypes
     DEF IInv, TypeOK, LockInv, WriteFails, InPhase, locks, issueVars, diskVars
<1>19. CASE UNCHANGED vars
  BY <1>19, ThreadsAssumption, NoneAssumption, BlankTypes
     DEF IInv, TypeOK, LockInv, vars, locks, issueVars, diskVars
<1> QED
  BY <1>1, <1>2, <1>3, <1>4, <1>5, <1>6, <1>7, <1>8, <1>9, <1>10,
     <1>11, <1>12, <1>13, <1>14, <1>15, <1>16, <1>17, <1>18, <1>19, RequestCases
     DEF Next, Reports, ThreadStep, ExitStep, WriterStep, Terminated

\* A snapshot cannot age.
LEMMA SnapStep == IInv /\ [Next]_vars => SnapshotStaysCurrent'
<1> SUFFICES ASSUME IInv, [Next]_vars PROVE SnapshotStaysCurrent'
  OBVIOUS
<1>1. CASE set_status_file
  BY <1>1, ThreadsAssumption
     DEF IInv, TypeOK, SnapshotStaysCurrent, Readers, set_status_file, At, locks, issueVars, diskVars
<1>2. ASSUME NEW t \in Threads, NEW keys \in SUBSET Keys, NEW level \in Levels,
             [keys |-> keys, level |-> level] \in Changes,
             Request(t, keys, level)
      PROVE  SnapshotStaysCurrent'
  BY <1>2, ThreadsAssumption
     DEF IInv, TypeOK, SnapshotStaysCurrent, Readers, Request, At, Go, locks, issueVars, diskVars
<1>3. ASSUME NEW t \in Threads, touch(t)
      PROVE  SnapshotStaysCurrent'
  BY <1>3, ThreadsAssumption
     DEF IInv, TypeOK, SnapshotStaysCurrent, Readers, touch, At, Go, locks, issueVars, diskVars
<1>4. ASSUME NEW t \in Threads, Enqueue(t)
      PROVE  SnapshotStaysCurrent'
  BY <1>4, ThreadsAssumption
     DEF IInv, TypeOK, SnapshotStaysCurrent, Readers, Enqueue, At, Go, locks, issueVars, diskVars
<1>5. ASSUME NEW t \in Threads, Modify(t)
      PROVE  SnapshotStaysCurrent'
  BY <1>5, ThreadsAssumption
     DEF IInv, TypeOK, SnapshotStaysCurrent, Readers, Modify, At, Go, locks, issueVars, diskVars
<1>6. ASSUME NEW t \in Threads, NoPath(t)
      PROVE  SnapshotStaysCurrent'
  BY <1>6, ThreadsAssumption
     DEF IInv, TypeOK, SnapshotStaysCurrent, Readers, NoPath, At, Go, locks, issueVars, diskVars
<1>7. ASSUME NEW t \in Threads, Snapshot(t)
      PROVE  SnapshotStaysCurrent'
  BY <1>7, ThreadsAssumption
     DEF IInv, TypeOK, SnapshotStaysCurrent, Readers, Snapshot, At, Go, locks, issueVars, diskVars
<1>8. ASSUME NEW t \in Threads, LockForWrite(t)
      PROVE  SnapshotStaysCurrent'
  BY <1>8, ThreadsAssumption
     DEF IInv, TypeOK, SnapshotStaysCurrent, Readers, LockForWrite, TakeHandle, At, Go, locks, issueVars, diskVars
<1>9. ASSUME NEW t \in Threads, LockPanics(t)
      PROVE  SnapshotStaysCurrent'
  BY <1>9, ThreadsAssumption
     DEF IInv, TypeOK, SnapshotStaysCurrent, Readers, LockPanics, At, Go, locks, issueVars, diskVars
<1>10. ASSUME NEW t \in Threads, Spawn(t)
      PROVE  SnapshotStaysCurrent'
  BY <1>10, ThreadsAssumption
     DEF IInv, TypeOK, SnapshotStaysCurrent, Readers, Spawn, Joined, Reaped, At, Go, locks, issueVars, diskVars
<1>11. ASSUME NEW t \in Threads, SpawnPanics(t)
      PROVE  SnapshotStaysCurrent'
  BY <1>11, ThreadsAssumption
     DEF IInv, TypeOK, SnapshotStaysCurrent, Readers, SpawnPanics, Joined, Reaped, At, Go, locks, issueVars, diskVars
<1>12. CASE flush
  BY <1>12, ThreadsAssumption
     DEF IInv, TypeOK, SnapshotStaysCurrent, Readers, flush, At, Go, locks, issueVars, diskVars
<1>13. CASE LockForFlush
  BY <1>13, ThreadsAssumption
     DEF IInv, TypeOK, SnapshotStaysCurrent, Readers, LockForFlush, TakeHandle, At, Go, locks, issueVars, diskVars
<1>14. CASE FlushJoined
  BY <1>14, ThreadsAssumption
     DEF IInv, TypeOK, SnapshotStaysCurrent, Readers, FlushJoined, Joined, Reaped, At, Go, locks, issueVars, diskVars
<1>15. CASE Exit \/ MainPanicEnds
  BY <1>15, ThreadsAssumption
     DEF IInv, TypeOK, SnapshotStaysCurrent, Readers, Exit, MainPanicEnds, At, locks, issueVars, diskVars
<1>16. ASSUME NEW w \in WriterIds, PrepareTemp(w)
      PROVE  SnapshotStaysCurrent'
  BY <1>16, ThreadsAssumption
     DEF IInv, TypeOK, SnapshotStaysCurrent, Readers, PrepareTemp, InPhase, locks, issueVars, diskVars
<1>17. ASSUME NEW w \in WriterIds, Rename(w)
      PROVE  SnapshotStaysCurrent'
  BY <1>17, ThreadsAssumption
     DEF IInv, TypeOK, SnapshotStaysCurrent, Readers, Rename, InPhase, locks, issueVars, diskVars
<1>18. ASSUME NEW w \in WriterIds, WriteFails(w)
      PROVE  SnapshotStaysCurrent'
  BY <1>18, ThreadsAssumption
     DEF IInv, TypeOK, SnapshotStaysCurrent, Readers, WriteFails, InPhase, locks, issueVars, diskVars
<1>19. CASE UNCHANGED vars
  BY <1>19, ThreadsAssumption
     DEF IInv, TypeOK, SnapshotStaysCurrent, Readers, vars, locks, issueVars, diskVars
<1> QED
  BY <1>1, <1>2, <1>3, <1>4, <1>5, <1>6, <1>7, <1>8, <1>9, <1>10,
     <1>11, <1>12, <1>13, <1>14, <1>15, <1>16, <1>17, <1>18, <1>19, RequestCases
     DEF Next, Reports, ThreadStep, ExitStep, WriterStep, Terminated

\* Statuses carry natural numbers as versions.
LEMMA StatusVersions ==
  ASSUME TypeOK
  PROVE  /\ file.version \in Nat
         /\ \A w \in WriterIds : writers[w].status.version \in Nat
         /\ \A t \in Threads : snap[t].version \in Nat
BY DEF TypeOK, Status

\* Once the thread inside the mutex has joined, no writer thread is left.
LEMMA JoinedMeansQuiet ==
  ASSUME TypeOK, LockInv, NEW t \in Threads, pc[t] \in {"Join", "FlushJoin"}, Joined(t)
  PROVE  /\ Live = {}
         /\ \A w \in WriterIds : Reaped(t)[w].phase = "Free"
<1>1. mutex = t /\ last_write_thread = None /\ \A u \in Threads : u # t => joining[u] = None
  BY NoneAssumption DEF LockInv
<1>2. \A w \in WriterIds : writers[w].phase # "Free" => w = joining[t]
  BY <1>1, NoneAssumption DEF LockInv
<1>3. \A w \in WriterIds : w # joining[t] => writers[w].phase = "Free"
  BY <1>2
<1>4. joining[t] # None => writers[joining[t]].phase = "Finished"
  BY DEF Joined
<1>5. Live = {}
  BY <1>3, <1>4, NoneAssumption DEF Live
<1>6. \A w \in WriterIds :
        Reaped(t)[w] = IF w = joining[t] THEN NoWriter ELSE writers[w]
  BY NoneAssumption DEF Reaped, TypeOK
<1>7. \A w \in WriterIds : Reaped(t)[w].phase = "Free"
  BY <1>3, <1>6, BlankTypes
<1> QED
  BY <1>5, <1>7

\* Starting a writer leaves it as the only one, with the current status.
LEMMA SpawnTakesCurrent ==
  ASSUME IInv, NEW t \in Threads, Spawn(t)
  PROVE  /\ Live = {}
         /\ \E w \in WriterIds : Live' = {w} /\ writers'[w].status = snap[t]
         /\ snap[t] = Aggregate(active_issues, version)
         /\ snap[t].version = version
<1>1. /\ pc[t] = "Join"
      /\ Joined(t)
      /\ TypeOK
      /\ LockInv
      /\ SnapshotStaysCurrent
  BY DEF Spawn, At, IInv
<1>2. Live = {} /\ \A w \in WriterIds : Reaped(t)[w].phase = "Free"
  BY <1>1, JoinedMeansQuiet
<1>3. Reaped(t) \in [WriterIds -> [phase : Phases, status : Status]]
  BY <1>1, BlankTypes DEF Reaped, TypeOK
<1>4. PICK w \in WriterIds :
        writers' = [Reaped(t) EXCEPT ![w] = [phase |-> "Started", status |-> snap[t]]]
  BY DEF Spawn
<1>5. /\ writers'[w] = [phase |-> "Started", status |-> snap[t]]
      /\ \A v \in WriterIds : v # w => writers'[v].phase = "Free"
  BY <1>2, <1>3, <1>4
<1>6. Live' = {w} /\ writers'[w].status = snap[t]
  BY <1>5 DEF Live
<1>7. snap[t] = Aggregate(active_issues, version)
  BY <1>1 DEF SnapshotStaysCurrent, Readers
<1>8. snap[t].version = version
  BY <1>1, <1>7, AggregateType DEF TypeOK
<1> QED
  BY <1>2, <1>6, <1>7, <1>8

\* A writer that ends was the only one.
LEMMA WriterEnds ==
  ASSUME IInv, NEW w \in WriterIds, InPhase(w, "Started") \/ InPhase(w, "Prepared"),
         writers' = [writers EXCEPT ![w] = Finished]
  PROVE  Live = {w} /\ Live' = {}
<1>1. w \in Live
  BY DEF InPhase, Live
<1>2. Live = {w}
  BY <1>1, LockInvSerialises DEF IInv, OneWriter
<1>3. \A v \in WriterIds : writers'[v].phase = IF v = w THEN "Finished" ELSE writers[v].phase
  BY BlankTypes DEF IInv, TypeOK
<1>4. Live' = {}
  BY <1>2, <1>3 DEF Live
<1> QED
  BY <1>2, <1>4

\* Every action keeps the order of the versions.
LEMMA VersionStep == IInv /\ [Next]_vars => VersionInv'
<1> SUFFICES ASSUME IInv, [Next]_vars PROVE VersionInv'
  OBVIOUS
<1>1. CASE set_status_file
  BY <1>1, ThreadsAssumption, BlankTypes, StatusVersions
     DEF IInv, TypeOK, VersionInv, Live, set_status_file, At, locks, issueVars, diskVars
<1>2. ASSUME NEW t \in Threads, NEW keys \in SUBSET Keys, NEW level \in Levels,
             [keys |-> keys, level |-> level] \in Changes,
             Request(t, keys, level)
      PROVE  VersionInv'
  BY <1>2, ThreadsAssumption, BlankTypes, StatusVersions
     DEF IInv, TypeOK, VersionInv, Live, Request, At, Go, locks, issueVars, diskVars
<1>3. ASSUME NEW t \in Threads, touch(t)
      PROVE  VersionInv'
  BY <1>3, ThreadsAssumption, BlankTypes, StatusVersions
     DEF IInv, TypeOK, VersionInv, Live, touch, At, Go, locks, issueVars, diskVars
<1>4. ASSUME NEW t \in Threads, Enqueue(t)
      PROVE  VersionInv'
  BY <1>4, ThreadsAssumption, BlankTypes, StatusVersions
     DEF IInv, TypeOK, VersionInv, Live, Enqueue, At, Go, locks, issueVars, diskVars
<1>5. ASSUME NEW t \in Threads, Modify(t)
      PROVE  VersionInv'
  <2>1. /\ version' \in Nat /\ version' >= version
        /\ \/ owed' = owed
           \/ status_file /\ owed' = [owed EXCEPT ![t] = version']
    <3>1. version \in Nat
      BY DEF IInv, TypeOK
    <3>2. CASE UNCHANGED issueVars
      BY <3>1, <3>2 DEF issueVars
    <3>3. CASE /\ version' = version + 1
               /\ owed' = IF status_file THEN [owed EXCEPT ![t] = version'] ELSE owed
      BY <3>1, <3>3
    <3> QED
      BY <1>5, <3>2, <3>3 DEF Modify
  <2>2. UNCHANGED <<status_file, writers, file>>
    BY <1>5 DEF Modify, diskVars
  <2>3. version \in Nat /\ owed \in [Threads -> Nat]
    BY DEF IInv, TypeOK
  <2> QED
    BY <2>1, <2>2, <2>3, StatusVersions DEF IInv, VersionInv, Live
<1>6. ASSUME NEW t \in Threads, NoPath(t)
      PROVE  VersionInv'
  BY <1>6, ThreadsAssumption, BlankTypes, StatusVersions
     DEF IInv, TypeOK, VersionInv, Live, NoPath, At, Go, locks, issueVars, diskVars
<1>7. ASSUME NEW t \in Threads, Snapshot(t)
      PROVE  VersionInv'
  BY <1>7, ThreadsAssumption, BlankTypes, StatusVersions
     DEF IInv, TypeOK, VersionInv, Live, Snapshot, At, Go, locks, issueVars, diskVars
<1>8. ASSUME NEW t \in Threads, LockForWrite(t)
      PROVE  VersionInv'
  BY <1>8, ThreadsAssumption, BlankTypes, StatusVersions
     DEF IInv, TypeOK, VersionInv, Live, LockForWrite, TakeHandle, At, Go, locks, issueVars, diskVars
<1>9. ASSUME NEW t \in Threads, LockPanics(t)
      PROVE  VersionInv'
  BY <1>9, ThreadsAssumption, BlankTypes, StatusVersions
     DEF IInv, TypeOK, VersionInv, Live, LockPanics, At, Go, locks, issueVars, diskVars
<1>10. ASSUME NEW t \in Threads, Spawn(t)
      PROVE  VersionInv'
  <2>1. UNCHANGED <<status_file, file, version, owed>>
    BY <1>10 DEF Spawn, issueVars
  <2>2. version \in Nat
    BY DEF IInv, TypeOK
  <2> QED
    BY <1>10, <2>1, <2>2, SpawnTakesCurrent DEF IInv, VersionInv
<1>11. ASSUME NEW t \in Threads, SpawnPanics(t)
      PROVE  VersionInv'
  BY <1>11, ThreadsAssumption, BlankTypes, StatusVersions
     DEF IInv, TypeOK, VersionInv, Live, SpawnPanics, Joined, Reaped, At, Go, locks, issueVars, diskVars
<1>12. CASE flush
  BY <1>12, ThreadsAssumption, BlankTypes, StatusVersions
     DEF IInv, TypeOK, VersionInv, Live, flush, At, Go, locks, issueVars, diskVars
<1>13. CASE LockForFlush
  BY <1>13, ThreadsAssumption, BlankTypes, StatusVersions
     DEF IInv, TypeOK, VersionInv, Live, LockForFlush, TakeHandle, At, Go, locks, issueVars, diskVars
<1>14. CASE FlushJoined
  BY <1>14, ThreadsAssumption, BlankTypes, StatusVersions
     DEF IInv, TypeOK, VersionInv, Live, FlushJoined, Joined, Reaped, At, Go, locks, issueVars, diskVars
<1>15. CASE Exit \/ MainPanicEnds
  BY <1>15, ThreadsAssumption, BlankTypes, StatusVersions
     DEF IInv, TypeOK, VersionInv, Live, Exit, MainPanicEnds, At, locks, issueVars, diskVars
<1>16. ASSUME NEW w \in WriterIds, PrepareTemp(w)
      PROVE  VersionInv'
  BY <1>16, ThreadsAssumption, BlankTypes, StatusVersions
     DEF IInv, TypeOK, VersionInv, Live, PrepareTemp, InPhase, locks, issueVars, diskVars
<1>17. ASSUME NEW w \in WriterIds, Rename(w)
      PROVE  VersionInv'
  <2>1. Live = {w} /\ Live' = {}
    BY <1>17, WriterEnds DEF Rename
  <2>2. file' = writers[w].status /\ UNCHANGED <<status_file, version, owed>>
    BY <1>17 DEF Rename, issueVars
  <2> QED
    BY <2>1, <2>2 DEF IInv, VersionInv
<1>18. ASSUME NEW w \in WriterIds, WriteFails(w)
      PROVE  VersionInv'
  BY <1>18, ThreadsAssumption, BlankTypes, StatusVersions
     DEF IInv, TypeOK, VersionInv, Live, WriteFails, InPhase, locks, issueVars, diskVars
<1>19. CASE UNCHANGED vars
  BY <1>19, ThreadsAssumption, BlankTypes, StatusVersions
     DEF IInv, TypeOK, VersionInv, Live, vars, locks, issueVars, diskVars
<1> QED
  BY <1>1, <1>2, <1>3, <1>4, <1>5, <1>6, <1>7, <1>8, <1>9, <1>10,
     <1>11, <1>12, <1>13, <1>14, <1>15, <1>16, <1>17, <1>18, <1>19, RequestCases
     DEF Next, Reports, ThreadStep, ExitStep, WriterStep, Terminated

\* No change leaves its way to the file unless a write fails.
LEMMA FlowStep == IInv /\ [Next]_vars => FlowInv'
<1> SUFFICES ASSUME IInv, [Next]_vars PROVE FlowInv'
  OBVIOUS
<1>1. CASE set_status_file
  BY <1>1, ThreadsAssumption, BlankTypes, StatusVersions
     DEF IInv, TypeOK, FlowInv, Published, OnItsWay, Live, set_status_file, At, locks, issueVars, diskVars
<1>2. ASSUME NEW t \in Threads, NEW keys \in SUBSET Keys, NEW level \in Levels,
             [keys |-> keys, level |-> level] \in Changes,
             Request(t, keys, level)
      PROVE  FlowInv'
  BY <1>2, ThreadsAssumption, BlankTypes, StatusVersions
     DEF IInv, TypeOK, FlowInv, Published, OnItsWay, Live, Request, At, Go, locks, issueVars, diskVars
<1>3. ASSUME NEW t \in Threads, touch(t)
      PROVE  FlowInv'
  BY <1>3, ThreadsAssumption, BlankTypes, StatusVersions
     DEF IInv, TypeOK, FlowInv, Published, OnItsWay, Live, touch, At, Go, locks, issueVars, diskVars
<1>4. ASSUME NEW t \in Threads, Enqueue(t)
      PROVE  FlowInv'
  BY <1>4, ThreadsAssumption, BlankTypes, StatusVersions
     DEF IInv, TypeOK, FlowInv, Published, OnItsWay, Live, Enqueue, At, Go, locks, issueVars, diskVars
<1>5. ASSUME NEW t \in Threads, Modify(t)
      PROVE  FlowInv'
  BY <1>5, ThreadsAssumption, BlankTypes, StatusVersions
     DEF IInv, TypeOK, FlowInv, Published, OnItsWay, Live, Modify, At, Go, locks, issueVars, diskVars
<1>6. ASSUME NEW t \in Threads, NoPath(t)
      PROVE  FlowInv'
  <2>1. owed[t] = 0
    BY <1>6 DEF NoPath, IInv, VersionInv
  <2>2. UNCHANGED <<owed, file, lost, writers, poisoned>>
    BY <1>6 DEF NoPath, locks, issueVars, diskVars
  <2>3. pc' = [pc EXCEPT ![t] = "Idle"]
    BY <1>6 DEF NoPath, Go
  <2>4. Published(t)'
    BY <2>1, <2>2, StatusVersions DEF Published, IInv
  <2> QED
    BY <2>2, <2>3, <2>4 DEF IInv, TypeOK, FlowInv, Published, OnItsWay, Live
<1>7. ASSUME NEW t \in Threads, Snapshot(t)
      PROVE  FlowInv'
  BY <1>7, ThreadsAssumption, BlankTypes, StatusVersions
     DEF IInv, TypeOK, FlowInv, Published, OnItsWay, Live, Snapshot, At, Go, locks, issueVars, diskVars
<1>8. ASSUME NEW t \in Threads, LockForWrite(t)
      PROVE  FlowInv'
  BY <1>8, ThreadsAssumption, BlankTypes, StatusVersions
     DEF IInv, TypeOK, FlowInv, Published, OnItsWay, Live, LockForWrite, TakeHandle, At, Go, locks, issueVars, diskVars
<1>9. ASSUME NEW t \in Threads, LockPanics(t)
      PROVE  FlowInv'
  BY <1>9, ThreadsAssumption, BlankTypes, StatusVersions
     DEF IInv, TypeOK, FlowInv, Published, OnItsWay, Live, LockPanics, At, Go, locks, issueVars, diskVars
<1>10. ASSUME NEW t \in Threads, Spawn(t)
      PROVE  FlowInv'
  <2>1. PICK w \in WriterIds : Live' = {w} /\ writers'[w].status = snap[t]
    BY <1>10, SpawnTakesCurrent
  <2>2. Live = {} /\ snap[t].version = version
    BY <1>10, SpawnTakesCurrent
  <2>3. UNCHANGED <<owed, file, lost, poisoned>> /\ pc' = [pc EXCEPT ![t] = "Idle"]
    BY <1>10 DEF Spawn, issueVars, Go
  <2>4. writers'[w].status.version >= owed[t]
    BY <2>1, <2>2 DEF IInv, TypeOK, VersionInv
  <2>5. \A u \in Threads : u # t => pc'[u] = pc[u]
    BY <2>3 DEF IInv, TypeOK
  <2> QED
    BY <2>1, <2>2, <2>3, <2>4, <2>5, ThreadsAssumption
       DEF IInv, TypeOK, FlowInv, Published, OnItsWay
<1>11. ASSUME NEW t \in Threads, SpawnPanics(t)
      PROVE  FlowInv'
  BY <1>11, ThreadsAssumption, BlankTypes, StatusVersions
     DEF IInv, TypeOK, FlowInv, Published, OnItsWay, Live, SpawnPanics, Joined, Reaped, At, Go, locks, issueVars, diskVars
<1>12. CASE flush
  BY <1>12, ThreadsAssumption, BlankTypes, StatusVersions
     DEF IInv, TypeOK, FlowInv, Published, OnItsWay, Live, flush, At, Go, locks, issueVars, diskVars
<1>13. CASE LockForFlush
  BY <1>13, ThreadsAssumption, BlankTypes, StatusVersions
     DEF IInv, TypeOK, FlowInv, Published, OnItsWay, Live, LockForFlush, TakeHandle, At, Go, locks, issueVars, diskVars
<1>14. CASE FlushJoined
  <2>1. Live = {} /\ ~poisoned
    <3>1. pc[Main] = "FlushJoin" /\ Joined(Main) /\ TypeOK /\ LockInv
      BY <1>14 DEF FlushJoined, At, IInv
    <3>2. mutex = Main
      BY <3>1, ThreadsAssumption DEF LockInv
    <3> QED
      BY <3>1, <3>2, JoinedMeansQuiet, ThreadsAssumption, NoneAssumption DEF LockInv
  <2>2. Published(Main)
    BY <1>14, <2>1, ThreadsAssumption DEF IInv, FlowInv, OnItsWay, FlushJoined, At
  <2>3. UNCHANGED <<owed, file, lost, poisoned>> /\ pc' = [pc EXCEPT ![Main] = "Exit"]
    BY <1>14 DEF FlushJoined, issueVars, Go
  <2> QED
    BY <1>14, <2>1, <2>2, <2>3, ThreadsAssumption
       DEF IInv, TypeOK, FlowInv, Published, OnItsWay, FlushJoined, At
<1>15. CASE Exit \/ MainPanicEnds
  BY <1>15, ThreadsAssumption, BlankTypes, StatusVersions
     DEF IInv, TypeOK, FlowInv, Published, OnItsWay, Live, Exit, MainPanicEnds, At, locks, issueVars, diskVars
<1>16. ASSUME NEW w \in WriterIds, PrepareTemp(w)
      PROVE  FlowInv'
  BY <1>16, ThreadsAssumption, BlankTypes, StatusVersions
     DEF IInv, TypeOK, FlowInv, Published, OnItsWay, Live, PrepareTemp, InPhase, locks, issueVars, diskVars
<1>17. ASSUME NEW w \in WriterIds, Rename(w)
      PROVE  FlowInv'
  <2>1. Live = {w} /\ Live' = {}
    BY <1>17, WriterEnds DEF Rename
  <2>2. file' = writers[w].status /\ UNCHANGED <<owed, lost, poisoned, pc>>
    BY <1>17 DEF Rename, issueVars, locks
  <2>3. file'.version >= file.version
    BY <2>1, <2>2 DEF IInv, VersionInv
  <2>4. \A t \in Threads : /\ Published(t) => Published(t)'
                           /\ (\E v \in Live : writers[v].status.version >= owed[t])
                                => Published(t)'
    BY <2>1, <2>2, <2>3, StatusVersions DEF IInv, TypeOK, Published
  <2> QED
    BY <2>2, <2>4, ThreadsAssumption DEF IInv, FlowInv, OnItsWay
<1>18. ASSUME NEW w \in WriterIds, WriteFails(w)
      PROVE  FlowInv'
  BY <1>18, ThreadsAssumption, BlankTypes, StatusVersions
     DEF IInv, TypeOK, FlowInv, Published, OnItsWay, Live, WriteFails, InPhase, locks, issueVars, diskVars
<1>19. CASE UNCHANGED vars
  BY <1>19, ThreadsAssumption, BlankTypes, StatusVersions
     DEF IInv, TypeOK, FlowInv, Published, OnItsWay, Live, vars, locks, issueVars, diskVars
<1> QED
  BY <1>1, <1>2, <1>3, <1>4, <1>5, <1>6, <1>7, <1>8, <1>9, <1>10,
     <1>11, <1>12, <1>13, <1>14, <1>15, <1>16, <1>17, <1>18, <1>19, RequestCases
     DEF Next, Reports, ThreadStep, ExitStep, WriterStep, Terminated

LEMMA InitIInv == Init => IInv
<1> SUFFICES ASSUME Init PROVE IInv
  OBVIOUS
<1>1. TypeOK
  BY BlankTypes, NoneAssumption DEF Init, TypeOK, Levels, Places
<1>2. Live = {} /\ \A w \in WriterIds : writers[w].phase = "Free"
  BY BlankTypes DEF Init, Live
<1>3. LockInv
  BY <1>2, NoneAssumption DEF Init, LockInv
<1>4. SnapshotStaysCurrent
  BY DEF Init, SnapshotStaysCurrent, Readers
<1>5. VersionInv /\ FlowInv
  BY <1>2, BlankTypes, ThreadsAssumption DEF Init, VersionInv, FlowInv, Published
<1> QED
  BY <1>1, <1>3, <1>4, <1>5 DEF IInv

\* The inductive invariant holds in every reachable state.
THEOREM Inductive == Spec => []IInv
<1>1. IInv /\ [Next]_vars => IInv'
  <2> SUFFICES ASSUME IInv, [Next]_vars PROVE IInv'
    OBVIOUS
  <2>1. TypeOK
    BY DEF IInv
  <2> QED
    BY <2>1, TypeStep, LockStep, SnapStep, VersionStep, FlowStep DEF IInv
<1> QED
  BY InitIInv, <1>1, PTL DEF Spec
-----------------------------------------------------------------------------
\* Every variable of the tracker stays in its type.
THEOREM TypesCorrect == Spec => []TypeOK
BY Inductive, PTL DEF IInv

\* write_status_file never runs two writer threads at once.
THEOREM WritesSerialised == Spec => []OneWriter
<1>1. IInv => OneWriter
  BY LockInvSerialises DEF IInv
<1> QED
  BY Inductive, <1>1, PTL

\* Because the read guards outlive the join, no status is stale when its writer
\* is started.
THEOREM SnapshotsCurrent == Spec => []SnapshotStaysCurrent
BY Inductive, PTL DEF IInv

\* exit_with_flush and the dry run leave the final status in the file.
THEOREM FlushCorrect == Spec => []FlushCoversExit
<1>1. IInv => FlushCoversExit
  BY DEF IInv, FlowInv, Published, FlushCoversExit
<1> QED
  BY Inductive, <1>1, PTL

\* When the tracker is quiet the file has caught up with every thread.
THEOREM QuietCorrect == Spec => []QuietFileIsCurrent
<1>1. IInv => QuietFileIsCurrent
  BY DEF IInv, FlowInv, Published, OnItsWay, QuietFileIsCurrent
<1> QED
  BY Inductive, <1>1, PTL

\* The status file never goes back to an older status, whatever the threads do.
THEOREM FileMonotonic == Spec => FileNeverGoesBack
<1> DEFINE Forward == file'.version >= file.version
<1>1. ASSUME IInv, [Next]_vars PROVE Forward
  <2>1. TypeOK /\ VersionInv /\ file.version \in Nat
    BY <1>1, StatusVersions DEF IInv
  <2>2. ASSUME NEW w \in WriterIds, Rename(w) PROVE Forward
    BY <2>1, <2>2 DEF Rename, InPhase, VersionInv, Live
  <2>3. CASE UNCHANGED file
    BY <2>1, <2>3
  <2>4. (\E w \in WriterIds : Rename(w)) \/ UNCHANGED file
    BY <1>1 DEF Next, Reports, ThreadStep, ExitStep, WriterStep, Terminated, vars, diskVars,
         set_status_file, set_issue, clear_issue, clear_issues_with_prefix, Request, touch,
         Enqueue, Modify, NoPath, Snapshot, LockForWrite, TakeHandle, LockPanics, Spawn,
         SpawnPanics, flush, LockForFlush, FlushJoined, Exit, MainPanicEnds, PrepareTemp,
         WriteFails
  <2> QED
    BY <2>2, <2>3, <2>4
<1> QED
  BY Inductive, <1>1, PTL DEF Spec, FileNeverGoesBack
-----------------------------------------------------------------------------

\* What leaves the issues, the pending status and the file alone is a stutter of
\* the register.
LEMMA RegisterStutters ==
  ASSUME UNCHANGED <<active_issues, version, file>>,
         \/ UNCHANGED writers
         \/ {writers[v].status : v \in Live}' = {writers[v].status : v \in Live}
  PROVE  UNCHANGED Register!vars
BY DEF Register!vars, Live

\* Every step of the tracker is a step of the register, or a stutter.
LEMMA RegisterStep == IInv /\ [Next]_vars => [Register!Next]_(Register!vars)
<1> SUFFICES ASSUME IInv, [Next]_vars PROVE [Register!Next]_(Register!vars)
  OBVIOUS
<1>1. CASE set_status_file
  BY <1>1, RegisterStutters DEF set_status_file, locks, issueVars, diskVars
<1>2. ASSUME NEW t \in Threads, NEW keys \in SUBSET Keys, NEW level \in Levels,
             [keys |-> keys, level |-> level] \in Changes,
             Request(t, keys, level)
      PROVE  [Register!Next]_(Register!vars)
  BY <1>2, RegisterStutters DEF Request, locks, issueVars, diskVars
<1>3. ASSUME NEW t \in Threads, touch(t)
      PROVE  [Register!Next]_(Register!vars)
  BY <1>3, RegisterStutters DEF touch, locks, issueVars, diskVars
<1>4. ASSUME NEW t \in Threads, Enqueue(t)
      PROVE  [Register!Next]_(Register!vars)
  BY <1>4, RegisterStutters DEF Enqueue, locks, issueVars, diskVars
<1>5. ASSUME NEW t \in Threads, Modify(t)
      PROVE  [Register!Next]_(Register!vars)
  <2>1. UNCHANGED <<writers, file>>
    BY <1>5 DEF Modify, diskVars
  <2>2. Aggregate(active_issues, version)' \in Status
    BY TypeStep, AggregateType DEF IInv, TypeOK
  <2> QED
    BY <2>1, <2>2 DEF Register!Next, Register!Change, Live
<1>6. ASSUME NEW t \in Threads, NoPath(t)
      PROVE  [Register!Next]_(Register!vars)
  BY <1>6, RegisterStutters DEF NoPath, locks, issueVars, diskVars
<1>7. ASSUME NEW t \in Threads, Snapshot(t)
      PROVE  [Register!Next]_(Register!vars)
  BY <1>7, RegisterStutters DEF Snapshot, locks, issueVars, diskVars
<1>8. ASSUME NEW t \in Threads, LockForWrite(t)
      PROVE  [Register!Next]_(Register!vars)
  BY <1>8, RegisterStutters DEF LockForWrite, TakeHandle, locks, issueVars, diskVars
<1>9. ASSUME NEW t \in Threads, LockPanics(t)
      PROVE  [Register!Next]_(Register!vars)
  BY <1>9, RegisterStutters DEF LockPanics, locks, issueVars, diskVars
<1>10. ASSUME NEW t \in Threads, Spawn(t)
      PROVE  [Register!Next]_(Register!vars)
  <2>1. PICK w \in WriterIds : Live' = {w} /\ writers'[w].status = snap[t]
    BY <1>10, SpawnTakesCurrent
  <2>2. Live = {} /\ snap[t] = Aggregate(active_issues, version)
    BY <1>10, SpawnTakesCurrent
  <2>3. UNCHANGED <<active_issues, version, file>>
    BY <1>10 DEF Spawn, issueVars
  <2>4. {writers[v].status : v \in Live}' = {Aggregate(active_issues, version)}
    BY <2>1, <2>2
  <2> QED
    BY <2>2, <2>3, <2>4 DEF Register!Next, Register!Take
<1>11. ASSUME NEW t \in Threads, SpawnPanics(t)
      PROVE  [Register!Next]_(Register!vars)
  <2>1. Live = {} /\ \A w \in WriterIds : Reaped(t)[w].phase = "Free"
    BY <1>11, JoinedMeansQuiet, ThreadsAssumption DEF SpawnPanics, At, IInv
  <2>2. writers' = Reaped(t) /\ UNCHANGED <<active_issues, version, file>>
    BY <1>11 DEF SpawnPanics, issueVars
  <2>3. Live' = {}
    BY <2>1, <2>2 DEF Live
  <2> QED
    BY <2>1, <2>2, <2>3, RegisterStutters
<1>12. CASE flush
  BY <1>12, RegisterStutters DEF flush, locks, issueVars, diskVars
<1>13. CASE LockForFlush
  BY <1>13, RegisterStutters DEF LockForFlush, TakeHandle, locks, issueVars, diskVars
<1>14. CASE FlushJoined
  <2>1. Live = {} /\ \A w \in WriterIds : Reaped(Main)[w].phase = "Free"
    BY <1>14, JoinedMeansQuiet, ThreadsAssumption DEF FlushJoined, At, IInv
  <2>2. writers' = Reaped(Main) /\ UNCHANGED <<active_issues, version, file>>
    BY <1>14 DEF FlushJoined, issueVars
  <2>3. Live' = {}
    BY <2>1, <2>2 DEF Live
  <2> QED
    BY <2>1, <2>2, <2>3, RegisterStutters
<1>15. CASE Exit \/ MainPanicEnds
  BY <1>15, RegisterStutters DEF Exit, MainPanicEnds, locks, issueVars, diskVars
<1>16. ASSUME NEW w \in WriterIds, PrepareTemp(w)
      PROVE  [Register!Next]_(Register!vars)
  <2>1. writers' = [writers EXCEPT ![w].phase = "Prepared"]
    BY <1>16 DEF PrepareTemp
  <2>2. /\ Live' = Live
        /\ \A v \in WriterIds : writers'[v].status = writers[v].status
    BY <1>16, <2>1 DEF PrepareTemp, InPhase, Live, IInv, TypeOK
  <2>3. UNCHANGED <<active_issues, version, file>>
    BY <1>16 DEF PrepareTemp, issueVars
  <2>4. {writers[v].status : v \in Live}' = {writers[v].status : v \in Live}
    BY <2>2 DEF Live
  <2> QED
    BY <2>3, <2>4, RegisterStutters
<1>17. ASSUME NEW w \in WriterIds, Rename(w)
      PROVE  [Register!Next]_(Register!vars)
  <2>1. Live = {w} /\ Live' = {}
    BY <1>17, WriterEnds DEF Rename
  <2>2. file' = writers[w].status /\ UNCHANGED <<active_issues, version>>
    BY <1>17 DEF Rename, issueVars
  <2> QED
    BY <2>1, <2>2 DEF Register!Next, Register!Publish
<1>18. ASSUME NEW w \in WriterIds, WriteFails(w)
      PROVE  [Register!Next]_(Register!vars)
  <2>1. Live = {w} /\ Live' = {}
    BY <1>18, WriterEnds DEF WriteFails
  <2>2. UNCHANGED <<active_issues, version, file>>
    BY <1>18 DEF WriteFails, issueVars
  <2> QED
    BY <2>1, <2>2 DEF Register!Next, Register!Drop
<1>19. CASE UNCHANGED vars
  BY <1>19, RegisterStutters DEF vars, locks, issueVars, diskVars
<1> QED
  BY <1>1, <1>2, <1>3, <1>4, <1>5, <1>6, <1>7, <1>8, <1>9, <1>10,
     <1>11, <1>12, <1>13, <1>14, <1>15, <1>16, <1>17, <1>18, <1>19, RequestCases
     DEF Next, Reports, ThreadStep, ExitStep, WriterStep, Terminated

\* The tracker implements the register that the readers of the file rely on.
THEOREM TrackerImplementsRegister == Spec => ImplementsRegister
<1>1. Init => Register!Init
  <2> SUFFICES ASSUME Init PROVE Register!Init
    OBVIOUS
  <2>1. Live = {}
    BY BlankTypes DEF Init, Live
  <2> QED
    BY <2>1, AggregateNone DEF Init, Register!Init
<1> QED
  BY Inductive, <1>1, RegisterStep, PTL DEF Spec, ImplementsRegister, Register!Spec
=============================================================================
