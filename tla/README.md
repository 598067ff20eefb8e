# Verification of pve-san-fenced

`pve-san-fenced` runs on every node of a Proxmox VE cluster. It asks multipathd
whether the SAN behind the running VMs is still there and, when it is lost for
good, takes the node down through SysRq, so that the cluster can restart the VMs
elsewhere without two nodes writing to one disk. It can be wrong in two ways: by
not fencing a node that lost its storage, and by fencing one that did not. This
directory holds TLA+ models of the daemon, TLC runs that check them on small
instances, and TLAPS proofs of the parts that can be proved for every instance: the
decision, the status tracker, the fencing sequence, the discovery loop, the
discovery of the LUNs, the status check, the time a query takes, the parser and the
judgement of the configuration, and the composed daemon, as an implementation of
its parts and against the clock.

Contents: [the system](#the-system), [the modules](#the-modules),
[the runs](#the-runs), [the proofs](#the-proofs),
[where code and documents disagree](#where-code-and-documents-disagree),
[what is not modelled](#what-is-not-modelled), [the plan](#the-plan).

## The system

| component | source | state | operations |
|---|---|---|---|
| Fencer | `src/src/lib.rs` 34-68, 201-266, 336-564 | failure counter, previous map states, maps that had paths, latched maps; status issues | `update`, `update_with_maps`, `is_map_dead`, `parse_multipathd_response` |
| Fencing sequence | `src/src/lib.rs` 268-333, `src/src/main.rs` 142-232 | `FENCING_IN_PROGRESS` | `trigger_fencing`, `validate_sysrq` |
| Discovery loop | `src/src/main.rs` 410-513, `src/src/lib.rs` 119-198 | failures in a row, delay; the published LUNs and their time | discover, publish, fail, back off |
| Monitoring loop | `src/src/main.rs` 515-615 | interval timer, LUNs and reply of this poll; status issues | skip stale data, query twice, evaluate, fence |
| Status tracker | `src/src/status.rs`, `main.rs` 234-237 | issues behind a readers-writer lock, writer handle behind a mutex, the status file | `set_issue`, `clear_issue`, `clear_issues_with_prefix`, `touch`, `flush` |
| Configuration check | `src/src/config.rs` | none but its status issue | parse, merge, validate |
| Status check | `src/src/main.rs` 249-316 | none | `--status`: age, content, exit code |
| libmultipath | `src/libmultipath/src/lib.rs` | a connection and the helper thread that makes it | connect with a timeout, send, receive |
| mpath-mockd | `src/tools/mpath-mockd/src/main.rs` | test data, an index per command, connections | load, listen, accept, answer, hang |
| libpve-san | `src/libpve-san/src/lib.rs`, `sysfs.rs` | none | list VMs, read their configurations, resolve disks to maps |
| other tools | `src/tools/*` | none | `mpath-query` and `pve-san-query` print what the libraries return; `pvesh-mock` prints a file |

How they interact. The main thread runs the monitoring loop and owns the Fencer.
It reads the active LUNs, with the time of their publication, from an `RwLock`
that the discovery thread writes. A poll queries multipathd for the maps and for
its configuration, hands the first reply to the Fencer and the second to the
configuration check, and calls `trigger_fencing` when the Fencer asks for it. Both
threads report issues to the status tracker, which starts a writer thread for each
new status. `pve-san-fenced --status`, run by the monitoring system, is another
process that reads only the file.

Which behaviours are hard, and what makes each component correct:

* **Fencer.** Its decision depends on a history of replies: a threshold of losses
  in a row, a latch on maps that went dark, memory that is pruned with the
  monitored maps. It must ask for fencing exactly on a sustained loss; a latched
  map must stay dead as long as it is monitored; its memory must stay bounded; the
  status must show what it counts.
* **Status tracker.** Two threads, a lock that prefers writers, guards held across
  a join inside a mutex, writer threads that may fail, thread creation that may
  panic, an exit that must not overtake the last write. The file must never go
  back, must end up with the newest status, and nobody may wait for ever.
* **Fencing sequence.** Any write may fail, an accepted one may have no effect, and
  one may kill the daemon that writes it. As long as the daemon lives the sequence must
  be written in its order, after the sync, and a reboot tried at its end at the latest;
  the call must end.
* **Discovery loop.** Failures and panics in any number, arithmetic of the backoff.
  The issues must tell the state of the loop and it must retry in bounded time.
* **Monitoring loop beside the discovery thread.** Two clocks, blocking queries, a
  timer that catches up, data that becomes stale at any point of a poll. A loss
  that lasts must be fenced in bounded time; the daemon must not act on VMs that
  are long gone; and when it does not look it must say so.
* **libpve-san.** Sysfs is read file by file while devices are stacked, removed and
  renumbered; names are escaped in two ways; several failures drop a part of the
  result and one drops all of it. A discovery must find exactly the LUNs beneath the
  disks of the VMs it reads, and it must end.
* **libmultipath.** Every query is a new connection, made by a thread that is
  abandoned when it is late; a reply comes in parts, or only some of them. What the
  caller is given must be a whole reply to its own command; the time a query takes
  must be bounded by something; and abandoned threads and connections must go away.
* **mpath-mockd.** Threads share the indices that rotate the test data. The tests
  depend on every file having its turn, in an order that no interleaving changes.
* **Status check.** It reads a directory, an age and a content that another process
  replaces, or that vanish with it, between any two reads. It must not call a
  healthy daemon unknown, and must not repeat what a dead one said.
* **Configuration check.** A hand-written parser that must not lose its place, and
  a judgement with strict and non-strict limits that must clear when corrected.

The full list of hazards, each at its line and with the properties that cover it,
is in `PROJECT.json`.

## The modules

| module | models | extends / instantiates |
|---|---|---|
| `MultipathMaps` | a decoded reply and `is_map_dead` | |
| `Fencer` | the Fencer, one step per call of `update`/`update_with_maps` | `MultipathMaps` |
| `FencerObserver` | the history of replies, the Fencer's properties | `Fencer` |
| `FencerClaims` | what the documents say of the Fencer beyond its code | `Fencer` |
| `StatusTracker` | the tracker, one step per lock operation, thread start, join, file operation | instance of `StatusRegister` |
| `StatusRegister` | abstract: a register that follows the daemon's status | |
| `StatusTrackerProofs` | theorems about the tracker, the refinement included | `StatusTracker` |
| `TriggerFencing` | `trigger_fencing`, one step per write or wait | |
| `TriggerFencingProofs` | theorems about it | `TriggerFencing` |
| `Discovery` | the discovery loop, one step per VM listing, configuration read, publication, failure | |
| `PartsProofs` | theorems about the Fencer and the discovery loop, the two parts that the daemon is composed of | `FencerObserver`, `Discovery` |
| `MpathMockd` | the server's end of the multipathd socket, as mpath-mockd implements it, and its rotation | |
| `MpathClient` | a query of libmultipath: helper, command, reply, timeouts; composed with the server | `MpathMockd` |
| `MpathClientProofs` | theorems about queries, their replies and the rotation | `MpathClient` |
| `StatusCheck` | `--status` beside the service, its writer thread, its restarts and the clock | |
| `StatusCheckProofs` | theorems about the answers of a check | `StatusCheck` |
| `SanStorage` | `get_san_storage_info` and the walk through sysfs, one step per listing, device and configuration | |
| `SanStorageProofs` | theorems about what a discovery finds | `SanStorage` |
| `Daemon` | the whole: monitoring loop, Fencer, discovery thread, clock | instances of `Fencer` and `Discovery` |
| `DaemonObserver` | stopwatches on the daemon, its properties | `Daemon` |
| `DaemonProofs` | theorems that the daemon implements `Fencer` and `Discovery`, and about its times | `DaemonObserver` |
| `MultipathConfig` | parser (one step per token), merge, validation, issue | |
| `MultipathConfigMeaning` | reference meaning of a configuration, its properties | `MultipathConfig` |
| `MultipathConfigProofs` | theorems that the parser understands every configuration and the warning is exact | `MultipathConfigMeaning` |
| `MC*` | instances for TLC | the module they are named after |

How state and actions correspond to the code. Names are those of the source where
TLA+ allows it, and `PROJECT.json` maps each definition to its lines.

* `Fencer`: a LUN of the active set is the set of identifiers in its string,
  `{"mpatha", "mpathb"}` for `mpatha+mpathb`. A reply is a set of maps. multipathd
  gives no name or WWID to two maps (`RepliesAssumption`); the code does not check
  this and the proofs assume it. `Missing` stands for an omitted field. The result
  of a call is `triggered`. `Track` is the first loop with its pruning;
  `NothingMonitored`, `StorageHealthy` and `StorageFailing` are the three ways the
  call ends, and `UpdateUnparsed` is a reply that is rejected.
* `StatusTracker`: an issue is its key and level, the content of the file is the
  level and keys `write_status_file` would print, stamped with the number of changes
  made before it was taken (`version`). `pc` says where a thread is: outside, waiting
  for the write lock, about to take the read guards, holding them and waiting for the
  mutex, inside the mutex joining, flushing. Rust's `RwLock` keeps new readers out
  while a writer waits (`Snapshot`'s guard); `lost` and `owed` are history. Every
  panic of a thread in the tracker comes from a refused thread or the mutex that this
  poisons.
* `TriggerFencing`: `written` is the log of writes to `/proc/sysrq-trigger` with
  their outcome. An accepted `b`, `o` or `c` may or may not take the node down (`Lethal`).
  An accepted `e` or `i` sends SIGTERM or SIGKILL to every process but init; the daemon
  installs no handler, so it dies in that write (`Signals`, `Killed`) and nothing that
  follows in the sequence, no retry and no fallback is written. The other characters
  have no effect on the call: `f` kills the largest process, taken to be a VM.
* `Discovery`: each VM's configuration may be unreadable, which drops the VM and not
  the discovery. The 30-second timeout around a discovery has no action: nothing in
  the future yields, so the timeout is never polled.
* `SanStorage`: `world` is what the device mapper looks like now: a name and slaves for
  each device, and the device behind each storage. It changes at any time, to any of
  `Worlds`. The recursion of `find_multipaths_for_dm` is the set `todo` of calls still
  to be made, so every order of directory entries is covered; one call reads the name
  and the slaves of a device in one step. A read fails exactly when the device is
  gone; a failure to list VMs, devices or block devices, or to read a configuration,
  is a choice. A name is a sequence of the pieces its conversions tell apart (dash,
  colon, `/dev/mapper/`, the prefix `mpath`), which keeps the escaping. `Attached` and
  `backing` are the truth the result is compared with; the code never reads them.
  What `LunsAreExact` establishes is what `Discovery` and `Daemon` assume of `LunsOf`.
  `NamingAssumption` says what the names must do for that: a disk is looked up, among
  others, under the mapped name of the device behind it, and no disk under a name of any
  other device. The code relies on it and cannot check it: the legacy form of one volume
  may be the escaped form of another.
* `Daemon`: one tick is one unit of the intervals. `Tick` is disabled while a thread
  that is not blocked has something to do, so code takes no time and queries and
  discoveries take up to `QueryTicks` and `DiscoveryTicks`. The Fencer's step in
  `Evaluate` is the complete `update_with_maps`. tokio's interval timer is
  `untilPoll`: it counts on while a query blocks, and a poll moves it by one
  interval, so late polls follow each other at once. The environment can show a set
  of `faults`, chosen at the start: discoveries that fail or hang, queries that fail,
  replies that do not parse. `FencingReturns` stands for `TriggerFencing` ending with
  the node and the daemon still up; a loop that stays in `Fencing` also stands for one
  that was killed there. The configuration check of a poll changes nothing the loop reads
  and is left to `MultipathConfig`; the loop's issue `config_query_error` is here.
  `DaemonObserver` calls the storage lost (`Lost`) when each LUN that is published, and
  each that the poll under way still works with, names a targeted map without a usable
  path. Without the second half `SustainedLossFences` is false with two LUNs: a poll that
  began with a healthy LUN which is then replaced resets the counter, rightly, after the
  published ones were lost.
* `MpathMockd`: the server as the repository has it; multipathd itself differs in what
  it answers and not in how it may fail. A command or a file is a symbol, a content a
  sequence of numbers with 0 for NUL. `LoadResponses` and `DirectoryResponses` are the
  loading of the test data, with its order; `next_index` is one step because of the
  mutex. The last alternative of the lookup, "unknown command", is unreachable: there is
  always a response to `show maps json`. `Stop` and `StartServer` are the death and
  restart of the process, in any of its three modes. `picks` is history.
  `SetupAssumption` says that a directory has finitely many files, each found by its
  directory and a number that stands for its name and its place in their order.
* `MpathClient`: `conn[k]` is a connection with both its ends and what is between them.
  `helper` is the thread in `connect`, until its result is received or dropped
  (`Awaited` says whether the receiver still exists). The connection counts as open
  once it is in the listener's backlog, as for the kernel. One symbol on the `wire`
  stands for what one read of `read_exact` returns, so `wait` starts anew with each,
  and the frame of a reply is the length followed by its bytes. The eight bytes of the
  length come in one read, as the mock server sends them in one write; a peer that let them
  trickle would have up to seven more read timeouts than `QueryBounded` counts. `spent` is
  the time since the query began. A query uses the connection once, as
  `send_multipath_command_to_socket` does.
* `StatusCheck`: `StartCheck`, `CheckAge` and `ReadFile` are the three looks that
  `--status` takes. The file is the level of its line and an age that the clock moves.
  `Report` is `write_status_file`, at the granularity at which it is visible outside
  (`StatusTracker` has its locks): it waits for the writer before and starts the next.
  `runtime` says whether the file is in the unit's `RuntimeDirectory`, which systemd
  removes whenever the service ends. `Validate` is all of the startup validation; a
  failure leads to `exit_with_flush` and the restart. `LoopHangs` and `WriterHangs` are
  system calls that do not return. `Tick` waits for whatever takes no time, and a poll
  that does not hang takes up to `QUERIES`.
* `MultipathConfig`: a reply is its sequence of tokens, so the tokenizer (comments,
  quotes) is abstracted. A word is opaque; `Number` says what it parses to and
  `Matches` which vendors or products it matches as a regular expression.
* `MultipathConfigMeaning`: the configuration as an administrator wrote it, in indented
  lines, which know nothing of tokens, modes and depths. A section is the line that opens
  it, and holds what is indented further; the last of several sections, and of several
  values of a setting, counts. `Renders` says which reply a document gives. `Readable` is
  what the parser's format cannot express: that a value is a known key, or that the word
  after a key without a value is another one's key that the parser does not know. A brace
  too many, a section that is never closed and settings between the devices are documents.

## The runs

Run one with `tlc -workers 2 -config <run>.cfg <module>.tla`. A deadlock check is on
in all of them.

| run | states | what it asks |
|---|---|---|
| `MCFencer` | 1386 | every sequence of replies: `FenceExactlyOnSustainedLoss`, `LatchExact`, `LatchOutlivesRecovery`, `MemoryPruned` |
| `MCStatusTracker` | 107 755 | two threads and their writers: `OneWriter`, `SnapshotStaysCurrent`, `FileNeverGoesBack`, `FlushCoversExit`, `QuietFileIsCurrent`, the refinement `ImplementsRegister`, and under fairness `ChangesArePublished`, `QueuedWriterProceeds` |
| `MCTriggerFencing` | 461 | twelve sequences: `RebootAttempted`, `SequenceIsWritten`, `SyncPrecedesRest`, and under fairness `SequenceEnds` |
| `MCDiscovery` | 12 496 | seventy failures in a row: `IssuesTellFailures`, `RetriedInTime` |
| `MCSanStorage` | 106 967 | discoveries over changing devices: `LunsAreExact`, and under fairness `DiscoveryEnds` |
| `MCDaemon` | 768 248 | the composed daemon against the clock: `SustainedLossFences`, `BlindnessIsVisible`, `DecisionsUseCurrentVMs` |
| `MCMpathClient` | 382 849 | queries against a server that answers, hangs, does not accept or dies: `ReplyIsFaithful`, `QueryBounded`, `RotationIsComplete`, and under fairness `ConnectionsReleased` |
| `MCStatusCheck` | 5 587 846 | checks of a service at any moment of its life: `PollingIsKnown`, `AnswerIsRecent` |
| `MCMultipathConfig` | 28 428 | configurations, one poll after the other: `ParsedAsMeant`, `WarningIsExact` |

Each also checks a type invariant. Three more runs, named after the property they
refute, are described [below](#where-code-and-documents-disagree).

Bounds, and why they are enough:

* `MCFencer`: two maps and every kind of path report the code distinguishes (omitted,
  no group, empty group, one path alive, no path alive, a group offline beside one
  without `paths`, everything omitted), each alone or together; LUNs that are plain,
  spanned, named by WWID, or without a reported map. Threshold 2 and a counter that
  saturates at 3 (`U64_MAX`) reach, pass and saturate. The decision treats maps alike,
  and a third adds no case to "one, some or all". The proofs lift the bounds.
* `MCStatusTracker`: two threads, as in the daemon; two issues, of which both threads
  touch one; two writer identities (one being joined, one being started; the proof
  needs no number); at most two changes (`MaxVersion`), counted with those on their
  way. A lost, late or reordered status needs an older and a newer one, and two are
  enough for that. `touch` is not bounded.
* `MCTriggerFencing`: the default `s,b`; sequences with no `b`, `b` first, `b` twice,
  lethal characters other than `b`, signals before, behind and without a `b`, and the
  long ones. All outcomes of every write.
* `MCDiscovery`: the default delays and 64-bit arithmetic; counting stops at 70
  failures (`FailureCap`), five past the last change of the delay.
* `MCSanStorage`: four devices in three worlds: a volume spanning two maps with another
  stacked on it (so that one map is reached twice), the two with their numbers
  exchanged (so that each may be seen beneath the other), and one map gone with a
  local volume in its place. Configurations with a snapshot section, a repeated key, a
  key without a number, indices 99 and 100, unused and optical drives; names with
  dashes in the pool and in the volume, escaped and legacy, and a raw
  `/dev/mapper` path. Any number of changes.
* `MCDaemon`: one VM on one LUN, a poll each tick, a discovery every other, a query of
  up to one tick (so that two queries outlast the interval and the timer falls
  behind, counted to `MaxLag` = 2 ticks), a threshold of 2. Each combination of
  faults is watched by the one stopwatch of its question, which counts one tick
  further than the property allows. The bounds in the properties are expressions in
  the constants and are reached: with `FenceBound` one tick smaller
  `SustainedLossFences` fails.
* `MCMpathClient`: one caller, as in the daemon, and two connections, so that a query
  runs beside what an abandoned one left behind; a backlog of one, which the second
  connection finds full; a connect timeout of 1 tick and a read timeout of 2, so that
  they differ and a part may come at each tick before the limit; a hanging server that
  sends the length and one byte of up to five. Three sets of test data: a default file
  that is not first by name and a command with only a flat file; mappings with a NUL or
  a byte that is not UTF-8 in a content and with a missing file; contents that are
  empty or longer than `MAX_REPLY_LEN`. Commands that are unknown, too long for the
  server, or have a NUL inside. The server may stop and start any number of times.
* `MCStatusCheck`: an interval of one tick, polls of up to three, and a limit of three,
  so that `QUERIES <= threshold` is just met (with polls of four `PollingIsKnown` fails)
  and the timer falls behind by two. The clock jumps back by two and forward by more
  than any age (`AgeCap` is one past the limit). Checks know the poll interval; one of
  the claims below uses others.
* `MCMultipathConfig`: fencing time 30, so that 45 and 90 are the limits, with words
  on either side of each, so that queueing and device loss also meet exactly (90 and
  90); each combination of settings with each kind of noise in it; two devices of four kinds under three overrides; a document with nested sections and two devices, cut off at every
  line; braces and settings in odd places; two maps of two vendors. `U64_RANGE` stands for 2^64 and is out of reach of these numbers.

Fairness. `StatusTracker` assumes weak fairness of each thread that has entered the
tracker, of the exit, and of each writer thread: the operating system schedules
runnable threads, and file operations under `/run` (a tmpfs) return. It assumes
nothing about how often threads report, and no strong fairness for locks:
`QueuedWriterProceeds` follows from the lock's preference for waiting writers.
`TriggerFencing` assumes that a started sequence runs on: its steps are writes to
procfs and sleeps. `SanStorage` assumes weak fairness of the discovery's own steps,
reads of sysfs and of configuration files and calls of pvesh that return; devices may
change for ever meanwhile. `Daemon` states time limits as safety properties with
stopwatches and needs no fairness; there the assumption is that a query ends within
`QueryTicks` and, unless it hangs, a discovery within `DiscoveryTicks`. `QueryBounded`
is what libmultipath gives for it: the connect timeout plus one read timeout for the
length and for each part of the reply, so the assumption is fair for a multipathd that
answers or is silent, and not for one that trickles. `MpathClient` assumes weak
fairness of the caller, the server's threads and time, and strong fairness of each
helper: a thread that sleeps in `connect` until the backlog has room is woken by the
kernel and does not lose every race for it. It does not assume that a server runs;
`ConnectionsReleased` speaks of one that runs and answers from some moment on.
`StatusCheck` needs no fairness. Its `CheckAssumption` says that a poll which does
not hang fits into the threshold: 30 seconds with the default interval of 5, for two
queries with a connect timeout of 2 and a read timeout of 4 seconds.

Mutants. For every property `PROJECT.json` names a definition and an operator
(commented `Mutant:`) that replaces it the way a plausible bug would; the property
then fails under the same configuration.

## The proofs

`tlapm <module>.tla` checks each of the eight `*Proofs` modules to the last leaf.

**Fencer**, for any maps, replies, active sets, targets and thresholds, assuming only
that the threshold is between 1 and the largest counter and that a reply gives no
identifier to two maps. The decision is not inductive: whether a call asks for
fencing depends on a counter that saturates elsewhere than the observer's and on
sets that the code prunes. `IInv` adds that the Fencer's memory is the observer's
history (`MemoryAgrees`), that the counters agree up to the threshold
(`CounterAgrees`) and that latched maps were judged dead (`LatchedIsDead`).
`ConditionIsLoss` shows the two loops of `update_with_maps` compute the observer's
`Loss`; `MemoryStep` that pruning commutes with the history; `EvaluationStep`
combines them for one call. From `Inductive` follow `TypesCorrect`,
`FencingCorrect`, `LatchCorrect`, `MemoryBounded`, `StatusCorrect` and, as an action
property, `LatchPermanent`.

**Status tracker**, for any number of threads, issues, prefixes and writer
identities, and any bound on changes. `IInv` says where handles are (`LockInv`: every
writer thread not yet joined is reachable through the mutex or being joined by the
thread inside it, which is why two never run), that snapshots cannot age under read
guards (`SnapshotStaysCurrent`), how versions are ordered along snapshot, writer and
file (`VersionInv`), and where each change is on its way to the file (`FlowInv`).
There is one lemma per part, with one step per action. From `Inductive` follow
`TypesCorrect`, `WritesSerialised`, `SnapshotsCurrent`, `FlushCorrect`,
`QuietCorrect`, the action property `FileMonotonic`, and
`TrackerImplementsRegister`: every step is a step of `StatusRegister` or a stutter.

**Fencing sequence**, for any set of sequences of known characters. `RebootAttempted` and
`SequenceIsWritten` speak of the two ways in which a call ends with the node up. One that
returns has written all of its sequence and tried a reboot, twice if it was asked for one.
One that ends with the daemon, killed by an `e` or `i` of its own, has written everything up
to that character, and has tried a reboot unless no `b` came before it. Neither says anything
of the middle of a sequence. `IInv` says where `next` is at each `place` (`Placed`), that the
characters before it are embedded in what was written (`PrefixWritten`, an embedding that
each write extends), how many reboots have been tried by then (`RebootsTried`), and that a
killed daemon was sending a signal, the last in the log (`KilledBySignal`); a dry run never
gets there (`NeverInDryRun`). From `Inductive` follow `TypesCorrect`, `RebootCorrect`,
`SequenceCorrect` and the action property `SyncCorrect`. That a reboot is tried after all
is false and is refuted below (`FallbackFollows`).

**Discovery loop**, for any VMs, limits and delays, and for the wrapping 64-bit
arithmetic as it is: `IssuesCorrect` and `RetriesCorrect` follow from
`DiscoveryInductive`, which ties phase, failures and issues, as does `DiscoveryTypesCorrect`. That the delay never shrinks is false and is refuted below.

**Query**, for any server, test data, callers and timeouts. `QueryBounded` bounds the
time since the query began and is not inductive: `IInv` says for every step how the
present wait and the time spent before it add up, and that each wait is within its
limit because time stops at it. `QueriesBounded` follows.

That a reply is the reply to its own command needs to be known at each moment of its way.
`FullInv` says that no two queries share a connection (`OwnInv`), that the backlog has
each connection once and none that a helper still waits for (`BacklogInv`), and, in
`QueryOK`, what a connection carries at each step of its query: nothing before the command
is sent, then the request of this query or nothing, then a reply to its command of which
what was received, what is on the wire and what is still to be sent are consecutive parts
(`Fits`, `Carries`); a server that stops only cuts the last part off. `SentFits`,
`RestFits` and `MoreFits` say how the parts move, `DecodedIsText` that the decoded reply is
the text of its content. `ResponsesFacts` ties what the server has loaded, in lists, to
the set of files that a command is answered with. `RepliesCorrect` follows, and with
`RotationInv`, which says where the round of each command is, `TypesCorrect`.
`RotationCorrect` concludes from it that a round serves each file once, for test data in
which no two files have the same contents and no command is mapped to one file twice
(`Unambiguous`): in other data `RotationIsComplete` is false, because it tells files by
their contents, while `RotationInv` holds for any data.

**Status check**, for any intervals, thresholds and jumps of the clock with
polls (`QUERIES`) within the threshold. `IInv` says that the age tells when the
file was written unless the clock was set (`Dated`), that it still does when the content
is read (`CheckedAge`), how long a poll has taken (`LoopTimes`), and from that how old
the file of a daemon that polls can be (`Fresh`). `NoFalseAlarm` and `NoStaleAnswer`
are action properties that follow from it, for every interleaving of the check with the
service.

**Daemon**, for any clock, faults, intervals and storage, assuming that every set of LUNs
of VMs may be active (`SUBSET D!AllLuns \subseteq ActiveSets`): `DaemonImplementsFencer`
shows that the Fencer inside the daemon only takes steps of `Fencer`, and
`DaemonImplementsDiscovery` that the discovery thread only takes steps of `Discovery`, so
what is proved of the two specifications holds of the state they have in the daemon. An
evaluation is a step of `Fencer` only for a reply and an active set that it may be given,
and these are read one or two queries earlier: `IInv` follows the published LUNs, the
active set and the reply through a poll.

**Daemon against the clock**, for any parameters, VMs, LUNs, faults and interleaving of the
two threads. `TypesCorrect` bounds every clock and every stopwatch. None of the timed
properties is inductive, because a stopwatch runs across the places of the loop:
`BlindInv` bounds the silence of the status by the time until the next poll and by how far
the queries of the present one have come, also while the timer catches up (`BlindnessCorrect`);
`VacantInv` bounds, at each phase of a discovery and each place of a poll, how long the VMs
of a set may have been gone by the age of the set, and the set's age by the staleness limit
at the time the poll took it (`DecisionsCorrect`); both need that the failure counter is
what decides (`CounterDecides`). `SustainedLossFences` needs two more facts: that the
published set is never stale when a discovery is as fast as its interval (`PublishedInTime`),
and that each poll of a loss has counted (`LossCounted`: with n failures counted, the loss
has lasted at most n + 1 or, once the queries of the next poll are under way, n + 2 times
`PollTicks`, less what is left of the present one). `SustainedLossCorrect` therefore assumes
`DiscoveryTicks <= discovery_interval`. A discovery takes a fraction of the default interval
of 60 seconds, and the code means to end it after 30, so the assumption is what the daemon
is meant for; it is not needed up to the last tick. On `MCDaemon` without faults, with a
`discovery_interval` of 2, TLC finds that the property holds for discoveries of 2 and 3
ticks and fails from 4 on, when the set is stale before it is replaced and the polls skip it.

**Storage discovery**, for any devices, any stacks of them (rings included), worlds, VMs and
configurations: `DiscoveryCorrect` states `LunsAreExact`. The walk needs no induction over
the stack: `WalkInv` says that what has been visited or is still to be visited lies within
what the device reaches, and that the slaves of what has been visited are among it; when
nothing is left, what has been visited is closed under slaves, and `Reached` is the least
such set (`ReachedIsLeast`). `TableSound` and `TableComplete` say that the table is right
about the devices that it has and has all that have been resolved and have something
beneath them; `DisksResolved` concludes with `NamingAssumption` that a VM's disks are
looked up rightly, whatever the other lines of its configuration name, and `ReadSoFar` adds
the VMs up. The names themselves, their escaping and the parsing of a configuration stand
behind `NamingAssumption`, which TLC evaluates for the configurations and worlds of
`MCSanStorage`; what these conversions do for every string is not proved.

**Configuration check**, for any words, replies, documents and maps. That a configuration
has been parsed rightly says nothing of the middle of a reply. `IInv` adds `Tracks`: for
every document that the reply renders, the parser is at the first or second token of some
line, in the mode that belongs to the section of that line (`AtTop`, `InSkipped`,
`InDevices`, `InBlock`), its depth is the indentation, and what it has stored is what the
lines before mean. `TokenAt` says which token a line has at the parser's place; one lemma
for each step of the parser says how it moves on; `BlockSaved`, that a block is saved as
what its lines mean, also when the reply ends within it, with `QuietInside`: no section or
device is hidden within a block. The depth of the nesting and the lengths are not bounded,
and no recursion over documents is needed, since indentation says where a section ends.
From `Inductive` follow `TypesCorrect`, for replies that are no documents too, and
`ParseCorrect`. `MergedApplies` then says that the recursion of `get_merged_config` computes
the settings that apply: devices are numbered in the order of their lines (`RankGrows`), and
the function that the recursion defines is unique (`LayersUnique`). `WarnedUnlessSafe` compares
the limits, and `WarningCorrect` concludes, assuming `NoOverflow`: the product of two
numbers of the configuration fits into the u64 of `validate_merged_device_config`. The
code does not check it; it holds for numbers that fit into an `int`, which is what
multipathd keeps and prints.

Only model-checked: the liveness properties (TLAPS has no ENABLED here). The tree
notation and the layout in `MCMultipathConfig` are recursive and produce the documents of
the run only; TLC evaluates the assumptions on documents for each of them.

## Where code and documents disagree

Each of these runs refutes a sentence of the repository; the quotation is under
"findings" in `PROJECT.json`.

| run | what happens |
|---|---|
| `OmissionIsNotDeath` | a reply that omits `path_groups` counts as no paths and latches a healthy map as dead |
| `BackoffNeverShrinks` | 64 failures past the threshold the delay wraps to 0 and the loop retries without a pause |
| `BlockedDiscoveryDoesNotPreventFencing` | a hanging discovery makes the data stale, and stale data is never evaluated: a lasting loss is not fenced |

More such claims are stated in the modules and refuted in the same way: put the name
in place of the properties of the configuration given, as an INVARIANT or PROPERTY as
its definition says.

| property | module, configuration | what happens |
|---|---|---|
| `FencingIssueIsCurrent` | `FencerClaims`, `OmissionIsNotDeath.cfg` | the issue of a past failure stays when the last VM with SAN storage leaves the node: `lib.rs`:466-473 returns before line 560 clears it (MONITORING.md, section 4) |
| `IgnoredOnlyInProgress` | `TriggerFencing`, `MCTriggerFencing.cfg` with `SPECIFICATION Spec` | a sequence that did not take the node down disables every later one: nothing resets `FENCING_IN_PROGRESS` (the message at `lib.rs`:283) |
| `MissingIsUnknown` | `StatusCheck`, `MCStatusCheck.cfg` | without the directory of the file the check exits with 1, a WARNING (`main.rs`:259-266), and systemd removes it whenever the service ends, also after a startup failure that was reported as CRITICAL (MONITORING.md:24, README.md:113) |
| `HungLoopIsUnknown` | same, with `AgeCap = 8` | the discovery thread renews the file of a monitoring loop that hangs (MONITORING.md:24 and 41) |
| `OutdatedIsNotPolling` | same, with `POLL = 2`, `MCCheckerPolls` {1, 2}, `QUERIES = 4`, `MIN_AGE = 1`, `AgeCap = 7` | a check without the daemon's `--poll-interval` calls a polling daemon outdated (MONITORING.md:24: crashed or hung) |
| `ReplyWithinTimeout` | `MpathClient`, `MCMpathClient.cfg` | the read timeout starts anew with every part of the reply (the documentation of `send_command`) |
| `LatchedForAllCycles` | `FencerClaims`, `OmissionIsNotDeath.cfg` | one reply without the map drops the latch (PLAN.md:1008, and the comment at `lib.rs`:461) |
| `MissingGroupsIssueIsCurrent` | same | no code clears `missing_path_groups_*` (`lib.rs`:385 clears the other prefix only) |
| `OkMeansHealthy` | same | one dead map of several plain LUNs leaves the status OK (MONITORING.md:21, README.md:110) |
| `AnyDeadWwidFences` | same | a dead WWID does not fence while another is alive (README.md:28) |
| `TargetedLossFences` | same, with `target_wwids = {"ua"}` | a LUN that is not targeted counts as alive and prevents fencing (help of `--target-wwids`) |
| `FallbackFollows` | `TriggerFencing`, `MCTriggerFencing.cfg` with `SPECIFICATION Spec` | a sequence with an `e` or `i` before its first `b`, which `validate_sysrq` accepts (`main.rs`:149), kills the daemon that writes it (`lib.rs`:299): no reboot is tried, not the fallback either (PLAN.md:1036, and the comment at `lib.rs`:322) |
| `RebootTimeoutRetries` | `TriggerFencing`, `MCTriggerFencing.cfg` | the fallback reboot is awaited but not retried (man page, line 137) |
| `EveryBlindnessIsVisible` | `DaemonObserver` | a daemon that rejects every reply of multipathd evaluates nothing and shows OK: `lib.rs`:49 and 64 only log (PLAN.md:1044) |
| `NoDecisionIsOutdated` | `DaemonObserver` | the set is stamped when published, so a discovery that hung after listing the VMs publishes an old list as fresh (MONITORING.md, section 3) |
| `FencingTakesThreshold` | `DaemonObserver` | after a slow query the timer catches up, and failures are counted closer together than the interval (README.md:27, 54) |

Those of `DaemonObserver` go into `BlockedDiscoveryDoesNotPreventFencing.cfg` and need
`FaultSets` and `Watch` for the stopwatch concerned: `BadReplyOnly` and
`WatchBadReply` for the first; for the others `vacant` with `discovery_hangs` and
`lossSpan` without faults, in the manner of `WatchHanging` in `MCDaemon`.

Two remarks on discovery that need no run. PLAN.md:984 has the daemon read local files
(`LocalFiles`), but `discover_in_use_mpaths` asks pvesh for the list and uses a local
file only for each configuration; in `LocalFiles` mode every configured VM counts as
running (`libpve-san/src/lib.rs`:571), although `get_san_storage_info` is documented
to return running VMs. And a device list that cannot be read counts as empty
(line 352), so that a failure which has passed when the list is read again at line 742
publishes "no LUN in use".

## What is not modelled

* **libmultipath**: a second query on one connection and the wrapper for a file
  descriptor, which nothing in the repository uses; the write timeout, which a command
  of a few bytes cannot reach. `Daemon` knows of a query only that it succeeds, fails
  or blocks.
* **mpath-mockd**: the parsing of its options, and the lock that a panicking thread
  would poison (no step under it panics).
* **libpve-san**: the test hooks (`lsblk.json`, `build_mpath_map`), size parsing and the
  fields that are only printed. `SanStorage` assumes, with the code, that a volume's
  pool is named like its volume group and that exactly the multipath devices have
  names in `mpath`: a partition of one, `mpatha-part1`, would be taken for a map.
* **Startup**: which option fails which validation, and the parsing of options.
  `StatusCheck` has one step that passes, warns or fails; `validate_sysrq` is the
  assumption on `SysRqSequences`.
* **The tokenizer** of the configuration check.
* **Restart** by systemd: a restarted daemon starts in the initial state, its latch
  and counter forgotten; no document promises otherwise. One that was killed by a signal
  of its own sequence is restarted too, counts anew and kills itself again at its next
  decision.
* `mpath-query`, `pve-san-query`, `pvesh-mock`: input and output around one call each.

## The plan

Done, in this order: Fencer with proofs, status tracker with proofs and its abstract
register, fencing sequence, discovery loop, storage discovery, the composed daemon, the
configuration check; then the client of multipathd composed with the mock server, the
status check, and the proofs of these, of the fencing sequence, of the discovery loop and
of the daemon as an implementation of its parts; then the proofs of the daemon's times, of
what a discovery finds, of the replies and the rotation of a query, and of the
configuration check. What is left, by what it would add:

1. Liveness of the whole: a lasting loss leads to the node being down when some
   accepted write takes it down, composing `Daemon` with `TriggerFencing`.
2. The tokenizer of the configuration check, and the single validations of the startup.
