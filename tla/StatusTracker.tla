---------------------------- MODULE StatusTracker ----------------------------
(***************************************************************************)
(* The status tracker at the granularity of its locks.  The threads of the *)
(* daemon share active_issues behind a readers-writer lock and the handle  *)
(* of the latest writer thread behind a mutex; every write of the status   *)
(* file happens in a writer thread of its own, which prepares a temporary  *)
(* file and renames it over the status file.                               *)
(*                                                                         *)
(* An issue is represented by its key and its level.  The content of the   *)
(* status file is the highest level and the keys that have it, stamped     *)
(* with the number of changes made to active_issues before it was taken.   *)
(***************************************************************************)
EXTENDS Naturals, FiniteSets

CONSTANTS
  Threads,      \* the threads that report issues
  Main,         \* the one that configures the status file, flushes and exits
  Keys,         \* issue keys
  KeysOf,       \* KeysOf[t]: the keys that thread t sets and clears
  Prefixes,     \* sets of keys with a common prefix
  WriterIds,    \* identities of writer threads
  None,         \* no handle, no owner
  MaxVersion    \* bound on the changes made to active_issues

ASSUME ThreadsAssumption == Main \in Threads /\ KeysOf \in [Threads -> SUBSET Keys]
ASSUME NoneAssumption == None \notin Threads \cup WriterIds
ASSUME BoundAssumption == MaxVersion \in Nat
ASSUME PrefixesAssumption == Prefixes \subseteq SUBSET Keys

VARIABLES
  status_file,         \* is a path configured
  active_issues,       \* key -> level, "Ok" when there is no such issue
  mutex,               \* the thread inside the mutex, or None
  last_write_thread,   \* the handle the mutex protects, or None
  poisoned,            \* a thread panicked inside the mutex
  pc,                  \* where each thread is
  op,                  \* the change a thread is about to make to active_issues
  snap,                \* the status a thread has read
  joining,             \* the handle a thread is joining
  writers,             \* writer threads: phase and content
  file,                \* the status file
  exited,              \* the process has exited
  version,             \* changes made to active_issues so far
  lost,                \* version of the newest status whose write failed
  owed                 \* version of the latest change each thread made with a path set

locks == <<mutex, last_write_thread, poisoned>>
issueVars == <<active_issues, version, owed>>
diskVars == <<writers, file, lost>>
vars == <<status_file, locks, issueVars, pc, op, snap, joining, diskVars, exited>>

Levels == {"Ok", "Warning", "Critical"}

\* The changes: insert one key, remove one key, remove the keys of a prefix.
Changes ==
  [keys : {{k} : k \in Keys}, level : {"Warning", "Critical"}] \cup
  [keys : {{k} : k \in Keys} \cup Prefixes, level : {"Ok"}]

Status == [level : Levels, keys : SUBSET Keys, version : Nat]

Phases == {"Free", "Started", "Prepared", "Finished"}

Places == {"Idle", "Write", "Queued", "Read", "Lock", "Join",
           "Flush", "FlushJoin", "Exit", "Panicked"}

\* write_status_file aggregates the highest level and the messages that have it.
Aggregate(issues, v) ==
  LET Has(level) == {k \in Keys : issues[k] = level}
      Highest == IF Has("Critical") # {} THEN "Critical"
                 ELSE IF Has("Warning") # {} THEN "Warning" ELSE "Ok"
  IN [level |-> Highest,
      keys |-> IF Highest = "Ok" THEN {} ELSE Has(Highest),
      version |-> v]

NoStatus == [level |-> "Ok", keys |-> {}, version |-> 0]
NoWriter == [phase |-> "Free", status |-> NoStatus]
NoChange == [keys |-> {}, level |-> "Ok"]

TypeOK ==
  /\ status_file \in BOOLEAN
  /\ active_issues \in [Keys -> Levels]
  /\ mutex \in Threads \cup {None}
  /\ last_write_thread \in WriterIds \cup {None}
  /\ poisoned \in BOOLEAN
  /\ pc \in [Threads -> Places]
  /\ op \in [Threads -> Changes \cup {NoChange}]
  /\ snap \in [Threads -> Status]
  /\ joining \in [Threads -> WriterIds \cup {None}]
  /\ writers \in [WriterIds -> [phase : Phases, status : Status]]
  /\ file \in Status
  /\ exited \in BOOLEAN
  /\ version \in Nat
  /\ lost \in Nat
  /\ owed \in [Threads -> Nat]

Init ==
  /\ status_file = FALSE
  /\ active_issues = [k \in Keys |-> "Ok"]
  /\ mutex = None
  /\ last_write_thread = None
  /\ poisoned = FALSE
  /\ pc = [t \in Threads |-> "Idle"]
  /\ op = [t \in Threads |-> NoChange]
  /\ snap = [t \in Threads |-> NoStatus]
  /\ joining = [t \in Threads |-> None]
  /\ writers = [w \in WriterIds |-> NoWriter]
  /\ file = NoStatus
  /\ exited = FALSE
  /\ version = 0
  /\ lost = 0
  /\ owed = [t \in Threads |-> 0]
-----------------------------------------------------------------------------
Live == {w \in WriterIds : writers[w].phase \in {"Started", "Prepared"}}

\* The threads that hold read guards: write_status_file keeps both guards from
\* the snapshot until it returns.
Readers == {t \in Threads : pc[t] \in {"Lock", "Join"}}

At(t, place) == ~exited /\ pc[t] = place

Go(t, place) == pc' = [pc EXCEPT ![t] = place]

\* set_status_file, called once by the main thread before it reports anything.
set_status_file ==
  /\ At(Main, "Idle")
  /\ Readers = {}
  /\ ~status_file
  /\ status_file' = TRUE
  /\ UNCHANGED <<locks, issueVars, pc, op, snap, joining, diskVars, exited>>

\* MaxVersion bounds the changes made and those on their way.
RoomForChange ==
  version + Cardinality({t \in Threads : pc[t] \in {"Write", "Queued"}}) < MaxVersion

\* A thread asks for a change of active_issues and goes for the write lock.
Request(t, keys, level) ==
  /\ At(t, "Idle")
  /\ RoomForChange
  /\ op' = [op EXCEPT ![t] = [keys |-> keys, level |-> level]]
  /\ Go(t, "Write")
  /\ UNCHANGED <<status_file, locks, issueVars, snap, joining, diskVars, exited>>

set_issue(t) ==
  \E k \in KeysOf[t], level \in {"Warning", "Critical"} : Request(t, {k}, level)

clear_issue(t) == \E k \in KeysOf[t] : Request(t, {k}, "Ok")

clear_issues_with_prefix(t) ==
  \E keys \in Prefixes : keys \subseteq KeysOf[t] /\ Request(t, keys, "Ok")

\* touch goes straight to write_status_file.
touch(t) ==
  /\ At(t, "Idle")
  /\ Go(t, "Read")
  /\ UNCHANGED <<status_file, locks, issueVars, op, snap, joining, diskVars, exited>>

\* The write lock is taken by readers: the thread registers as a waiting
\* writer, which keeps new readers out.
Enqueue(t) ==
  /\ At(t, "Write")
  /\ Readers # {}
  /\ Go(t, "Queued")
  /\ UNCHANGED <<status_file, locks, issueVars, op, snap, joining, diskVars, exited>>

\* Mutant: removed keys leave the map of levels.
ModifyDropsKeys(t) ==
  /\ At(t, "Write") \/ At(t, "Queued")
  /\ Readers = {}
  /\ op' = [op EXCEPT ![t] = NoChange]
  /\ version' = version + 1
  /\ active_issues' = [k \in Keys \ op[t].keys |-> active_issues[k]]
  /\ Go(t, "Read")
  /\ UNCHANGED <<status_file, locks, owed, snap, joining, diskVars, exited>>

\* Mutant: the read guards are dropped after the snapshot, so that the change
\* does not wait for them.
ModifyUnguarded(t) ==
  /\ At(t, "Write") \/ At(t, "Queued")
  /\ op' = [op EXCEPT ![t] = NoChange]
  /\ version' = version + 1
  /\ active_issues' =
       [k \in Keys |-> IF k \in op[t].keys THEN op[t].level ELSE active_issues[k]]
  /\ owed' = IF status_file THEN [owed EXCEPT ![t] = version'] ELSE owed
  /\ Go(t, "Read")
  /\ UNCHANGED <<status_file, locks, snap, joining, diskVars, exited>>

\* Mutant: clearing an issue does not rewrite the status file.
ModifySilently(t) ==
  /\ At(t, "Write") \/ At(t, "Queued")
  /\ Readers = {}
  /\ op' = [op EXCEPT ![t] = NoChange]
  /\ version' = version + 1
  /\ active_issues' =
       [k \in Keys |-> IF k \in op[t].keys THEN op[t].level ELSE active_issues[k]]
  /\ owed' = IF status_file THEN [owed EXCEPT ![t] = version'] ELSE owed
  /\ Go(t, IF op[t].level = "Ok" THEN "Idle" ELSE "Read")
  /\ UNCHANGED <<status_file, locks, snap, joining, diskVars, exited>>

\* The whole critical section of the write lock.  Setting an issue always goes on
\* to write_status_file, clearing only when something was removed.
Modify(t) ==
  LET change == op[t]
      removed == {k \in change.keys : active_issues[k] # "Ok"}
  IN
  /\ At(t, "Write") \/ At(t, "Queued")
  /\ Readers = {}
  /\ op' = [op EXCEPT ![t] = NoChange]
  /\ IF change.level = "Ok" /\ removed = {}
     THEN /\ Go(t, "Idle")
          /\ UNCHANGED issueVars
     ELSE /\ version' = version + 1
          /\ active_issues' =
               [k \in Keys |-> IF k \in change.keys THEN change.level ELSE active_issues[k]]
          /\ owed' = IF status_file THEN [owed EXCEPT ![t] = version'] ELSE owed
          /\ Go(t, "Read")
  /\ UNCHANGED <<status_file, locks, snap, joining, diskVars, exited>>
-----------------------------------------------------------------------------
\* write_status_file.  Without a path it returns; otherwise it takes the read
\* guards, unless a writer is waiting for them, and aggregates the status.
NoPath(t) ==
  /\ At(t, "Read")
  /\ ~status_file
  /\ Go(t, "Idle")
  /\ UNCHANGED <<status_file, locks, issueVars, op, snap, joining, diskVars, exited>>

\* Mutant (of the lock): readers overtake a waiting writer.
SnapshotOvertakes(t) ==
  /\ At(t, "Read")
  /\ status_file
  /\ snap' = [snap EXCEPT ![t] = Aggregate(active_issues, version)]
  /\ Go(t, "Lock")
  /\ UNCHANGED <<status_file, locks, issueVars, op, joining, diskVars, exited>>

Snapshot(t) ==
  /\ At(t, "Read")
  /\ status_file
  /\ \A u \in Threads : pc[u] # "Queued"
  /\ snap' = [snap EXCEPT ![t] = Aggregate(active_issues, version)]
  /\ Go(t, "Lock")
  /\ UNCHANGED <<status_file, locks, issueVars, op, joining, diskVars, exited>>

\* Mutant: the previous writer is detached instead of joined.
TakeHandleDetached(t, from, to) ==
  /\ At(t, from)
  /\ mutex = None
  /\ ~poisoned
  /\ mutex' = t
  /\ last_write_thread' = None
  /\ Go(t, to)
  /\ UNCHANGED <<status_file, poisoned, issueVars, op, snap, joining, diskVars, exited>>

\* The mutex, for write_status_file and for flush: take the handle out of it.
TakeHandle(t, from, to) ==
  /\ At(t, from)
  /\ mutex = None
  /\ ~poisoned
  /\ mutex' = t
  /\ joining' = [joining EXCEPT ![t] = last_write_thread]
  /\ last_write_thread' = None
  /\ Go(t, to)
  /\ UNCHANGED <<status_file, poisoned, issueVars, op, snap, diskVars, exited>>

LockForWrite(t) == TakeHandle(t, "Lock", "Join")

\* lock().unwrap() on a poisoned mutex panics and drops the read guards.
LockPanics(t) ==
  /\ At(t, "Lock") \/ At(t, "Flush")
  /\ mutex = None
  /\ poisoned
  /\ snap' = [snap EXCEPT ![t] = NoStatus]
  /\ Go(t, "Panicked")
  /\ UNCHANGED <<status_file, locks, issueVars, op, joining, diskVars, exited>>

Joined(t) == joining[t] # None => writers[joining[t]].phase = "Finished"

\* Writers as the thread sees them once join has returned.
Reaped(t) ==
  IF joining[t] = None THEN writers
  ELSE [writers EXCEPT ![joining[t]] = NoWriter]

\* The previous writer has finished: start the next one and store its handle.
Spawn(t) ==
  /\ At(t, "Join")
  /\ Joined(t)
  /\ \E w \in WriterIds :
       /\ Reaped(t)[w].phase = "Free"
       /\ writers' = [Reaped(t) EXCEPT ![w] = [phase |-> "Started", status |-> snap[t]]]
       /\ last_write_thread' = w
  /\ joining' = [joining EXCEPT ![t] = None]
  /\ snap' = [snap EXCEPT ![t] = NoStatus]
  /\ mutex' = None
  /\ Go(t, "Idle")
  /\ UNCHANGED <<status_file, poisoned, issueVars, op, file, lost, exited>>

\* The operating system refuses a thread: std::thread::spawn panics with the
\* mutex held.
SpawnPanics(t) ==
  /\ At(t, "Join")
  /\ Joined(t)
  /\ writers' = Reaped(t)
  /\ joining' = [joining EXCEPT ![t] = None]
  /\ snap' = [snap EXCEPT ![t] = NoStatus]
  /\ mutex' = None
  /\ poisoned' = TRUE
  /\ Go(t, "Panicked")
  /\ UNCHANGED <<status_file, last_write_thread, issueVars, op, file, lost, exited>>
-----------------------------------------------------------------------------
\* flush, and the exit of the process that follows it in exit_with_flush and in
\* the dry run of trigger_fencing.
\* Mutant: the process exits without waiting for the writer.
flushSkipped ==
  /\ At(Main, "Idle")
  /\ Go(Main, "Exit")
  /\ UNCHANGED <<status_file, locks, issueVars, op, snap, joining, diskVars, exited>>

flush ==
  /\ At(Main, "Idle")
  /\ Go(Main, "Flush")
  /\ UNCHANGED <<status_file, locks, issueVars, op, snap, joining, diskVars, exited>>

LockForFlush == TakeHandle(Main, "Flush", "FlushJoin")

FlushJoined ==
  /\ At(Main, "FlushJoin")
  /\ Joined(Main)
  /\ writers' = Reaped(Main)
  /\ joining' = [joining EXCEPT ![Main] = None]
  /\ mutex' = None
  /\ Go(Main, "Exit")
  /\ UNCHANGED <<status_file, last_write_thread, poisoned, issueVars, op, snap,
                 file, lost, exited>>

Exit ==
  /\ At(Main, "Exit")
  /\ exited' = TRUE
  /\ UNCHANGED <<status_file, locks, issueVars, pc, op, snap, joining, diskVars>>

\* A panic of the main thread ends the process.
MainPanicEnds ==
  /\ At(Main, "Panicked")
  /\ exited' = TRUE
  /\ UNCHANGED <<status_file, locks, issueVars, pc, op, snap, joining, diskVars>>
-----------------------------------------------------------------------------
\* The writer thread: prepare the temporary file, then rename it.  Either may
\* fail, and then this status never reaches the status file.
Finished == [phase |-> "Finished", status |-> NoStatus]

InPhase(w, phase) == ~exited /\ writers[w].phase = phase

PrepareTemp(w) ==
  /\ InPhase(w, "Started")
  /\ writers' = [writers EXCEPT ![w].phase = "Prepared"]
  /\ UNCHANGED <<status_file, locks, issueVars, pc, op, snap, joining, file, lost, exited>>

Rename(w) ==
  /\ InPhase(w, "Prepared")
  /\ file' = writers[w].status
  /\ writers' = [writers EXCEPT ![w] = Finished]
  /\ UNCHANGED <<status_file, locks, issueVars, pc, op, snap, joining, lost, exited>>

WriteFails(w) ==
  /\ InPhase(w, "Started") \/ InPhase(w, "Prepared")
  /\ writers' = [writers EXCEPT ![w] = Finished]
  /\ lost' = IF writers[w].status.version > lost THEN writers[w].status.version ELSE lost
  /\ UNCHANGED <<status_file, locks, issueVars, pc, op, snap, joining, file, exited>>
-----------------------------------------------------------------------------
Reports(t) ==
  set_issue(t) \/ clear_issue(t) \/ clear_issues_with_prefix(t) \/ touch(t)

ThreadStep(t) ==
  \/ Enqueue(t) \/ Modify(t)
  \/ NoPath(t) \/ Snapshot(t) \/ LockForWrite(t) \/ LockPanics(t)
  \/ Spawn(t) \/ SpawnPanics(t)

ExitStep == LockForFlush \/ FlushJoined \/ Exit \/ MainPanicEnds

WriterStep(w) == PrepareTemp(w) \/ Rename(w) \/ WriteFails(w)

Terminated == exited /\ UNCHANGED vars

Next ==
  \/ set_status_file \/ flush \/ ExitStep \/ Terminated
  \/ \E t \in Threads : Reports(t) \/ ThreadStep(t)
  \/ \E w \in WriterIds : WriterStep(w)

\* Threads that have entered the tracker, and writer threads, keep running.
Fairness ==
  /\ \A t \in Threads : WF_vars(ThreadStep(t))
  /\ WF_vars(ExitStep)
  /\ \A w \in WriterIds : WF_vars(WriterStep(w))

Spec == Init /\ [][Next]_vars
FairSpec == Spec /\ Fairness
-----------------------------------------------------------------------------
\* Writes are serialised: a writer thread is started only after the previous one
\* has been joined, whichever threads call write_status_file.
OneWriter == \A v, w \in Live : v = w

\* A status taken by a thread that waits for the mutex or for the previous
\* writer is still current when its own writer is started.
SnapshotStaysCurrent ==
  \A t \in Readers : snap[t] = Aggregate(active_issues, version)

\* The status file never goes back to an older status.
FileNeverGoesBack == [][file'.version >= file.version]_vars

\* flush before exit: when the process exits, every change the main thread made
\* is in the status file, unless a write of it failed or the thread panicked.
FlushCoversExit ==
  exited /\ pc[Main] = "Exit" => file.version >= owed[Main] \/ lost >= owed[Main]

\* "The final file content reflects the latest status update": once every
\* thread has left the tracker and no writer runs, the file holds the status of
\* active_issues unless a write of it failed.
QuietFileIsCurrent ==
  (/\ ~exited /\ ~poisoned /\ Live = {}
   /\ \A t \in Threads : pc[t] = "Idle")
  => \A t \in Threads : file.version >= owed[t] \/ lost >= owed[t]

\* The status file as its readers see it: a register that follows the current
\* status, whose pending status is the one of the live writer thread.
Register == INSTANCE StatusRegister WITH
  Statuses <- Status,
  Initially <- NoStatus,
  current <- Aggregate(active_issues, version),
  pending <- {writers[w].status : w \in Live},
  file <- file

\* The locks, handles and writer threads implement that register.
ImplementsRegister == Register!Spec

\* Every change made with a path set is published, or its write fails, or the
\* process ends or a panic disables the tracker; no report is starved by others.
ChangesArePublished ==
  \A t \in Threads, v \in 1 .. MaxVersion :
    owed[t] = v ~> file.version >= v \/ lost >= v \/ exited \/ poisoned

\* A thread that waits for the write lock gets it.
QueuedWriterProceeds ==
  \A t \in Threads : pc[t] = "Queued" ~> pc[t] # "Queued" \/ exited
=============================================================================
