------------------------------- MODULE Daemon -------------------------------
(***************************************************************************)
(* The running daemon: the monitoring loop of the main thread, with the    *)
(* Fencer it owns, beside the discovery thread that publishes the active   *)
(* LUNs, and a clock.  One tick of the clock is the unit of poll_interval  *)
(* and discovery_interval.  The main thread blocks while it queries        *)
(* multipathd, and its interval timer makes up for the polls it missed.    *)
(***************************************************************************)
EXTENDS Integers

CONSTANTS
  Missing, MapNames, Replies, ActiveSets, target_wwids, max_failures, U64_MAX,
  VMs, LunsOf, discovery_interval, discovery_max_retries,
  discovery_backoff_base, discovery_backoff_max, U64_BITS, FailureCap,
  poll_interval,     \* --poll-interval
  QueryTicks,        \* how long one query of multipathd may block
  DiscoveryTicks,    \* how long a discovery that does not hang may take
  MaxLag,            \* bound on the ticks the timer is behind
  FaultSets          \* the combinations of faults the environment may show

ASSUME ClockAssumption ==
  /\ poll_interval \in Nat \ {0}
  /\ QueryTicks \in Nat
  /\ DiscoveryTicks \in Nat
  /\ MaxLag \in Nat
  /\ FaultSets \subseteq
       SUBSET {"discovery_hangs", "discovery_fails", "query_fails", "bad_reply"}

VARIABLES
  \* the Fencer
  consecutive_failures, previous_map_states, had_working_paths,
  permanently_broken_luns, triggered, fencing_issue, missing_dm_st, missing_path_groups,
  \* the discovery thread
  running, phase, todo, found, luns, discovery_failures, delay, failure_issue, backoff_issue,
  \* the monitoring loop
  test_mode,
  place,                \* where the loop is
  active_set,           \* the LUNs this poll works with
  maps,                 \* the reply this poll works with
  stale_luns,           \* status issues
  query_failure,
  config_query_error,
  \* the environment and the clock
  faults,               \* the faults it may show
  storage,              \* what multipathd would reply now
  age,                  \* ticks since luns was published (discovered_at)
  untilWake,            \* ticks until the discovery thread wakes
  busy,                 \* ticks the current discovery has taken
  untilPoll,            \* ticks until the timer's next poll, negative when it is behind
  blocked               \* ticks the current query has taken

F == INSTANCE Fencer
D == INSTANCE Discovery

\* What the two parts assume of their constants.
ASSUME PartsAssumption ==
  /\ F!ThresholdAssumption /\ F!RepliesAssumption
  /\ D!DiscoveryAssumption /\ D!CapAssumption

fencerVars == <<consecutive_failures, previous_map_states, had_working_paths,
                permanently_broken_luns, triggered, fencing_issue, missing_dm_st,
                missing_path_groups>>
discoveryVars == <<running, phase, todo, found, luns, discovery_failures, delay,
                   failure_issue, backoff_issue>>
config == <<test_mode, faults>>
loopVars == <<place, active_set, maps, stale_luns, query_failure, config_query_error>>
clockVars == <<age, untilWake, busy, untilPoll, blocked>>
daemonVars == <<fencerVars, discoveryVars, config, loopVars, storage, clockVars>>

\* Ages are counted until the data is stale.
MaxAge == 2 * discovery_interval
AgeCap == MaxAge + 1

DaemonTypeOK ==
  /\ F!TypeOK
  /\ D!DiscoveryTypeOK
  /\ test_mode \in BOOLEAN
  /\ faults \in FaultSets
  /\ place \in {"Waiting", "QueryMaps", "QueryConfig", "Fencing"}
  /\ active_set \subseteq D!AllLuns
  /\ maps \in Replies \cup {{}}
  /\ <<stale_luns, query_failure, config_query_error>> \in BOOLEAN \X BOOLEAN \X BOOLEAN
  /\ storage \in Replies
  /\ age \in 0 .. AgeCap
  /\ untilWake \in Nat
  /\ busy \in 0 .. DiscoveryTicks
  /\ untilPoll \in -MaxLag .. poll_interval
  /\ blocked \in 0 .. QueryTicks

DaemonInit ==
  /\ F!Init
  /\ D!DiscoveryInit
  /\ test_mode \in BOOLEAN
  /\ faults \in FaultSets
  /\ place = "Waiting"
  /\ active_set = {}
  /\ maps = {}
  /\ stale_luns = FALSE /\ query_failure = FALSE /\ config_query_error = FALSE
  /\ storage \in Replies
  /\ age = 0
  /\ untilWake = 0
  /\ busy = 0
  /\ untilPoll = 0
  /\ blocked = 0
-----------------------------------------------------------------------------
\* The environment.
VMsChange ==
  /\ D!VMsChange
  /\ UNCHANGED <<fencerVars, config, loopVars, storage, clockVars>>

StorageChanges ==
  /\ storage' \in Replies \ {storage}
  /\ UNCHANGED <<fencerVars, discoveryVars, config, loopVars, clockVars>>

\* The discovery thread.
DiscoverySteps ==
  /\ D!list_running_vms \/ \E v \in VMs : D!get_vm_config(v)
  /\ UNCHANGED <<fencerVars, config, loopVars, storage, clockVars>>

\* The published set is stamped with the time of its publication.
DiscoverySucceeds ==
  /\ D!Publish
  /\ age' = 0
  /\ untilWake' = delay'
  /\ busy' = 0
  /\ UNCHANGED <<fencerVars, config, loopVars, storage, untilPoll, blocked>>

\* Mutant: a failed discovery renews the time of the published set.
DiscoveryFailsRenewing ==
  /\ "discovery_fails" \in faults
  /\ D!Fail
  /\ untilWake' = delay'
  /\ busy' = 0
  /\ age' = 0
  /\ UNCHANGED <<fencerVars, config, loopVars, storage, untilPoll, blocked>>

DiscoveryFails ==
  /\ "discovery_fails" \in faults
  /\ D!Fail
  /\ untilWake' = delay'
  /\ busy' = 0
  /\ UNCHANGED <<fencerVars, config, loopVars, storage, age, untilPoll, blocked>>

DiscoveryWakes ==
  /\ untilWake = 0
  /\ D!Wake
  /\ UNCHANGED <<fencerVars, config, loopVars, storage, clockVars>>
-----------------------------------------------------------------------------
\* A poll: the timer fires, the status file is touched, and the published LUNs
\* are read together with their time of publication.
is_stale == age > MaxAge

PollDue == place = "Waiting" /\ untilPoll <= 0

\* Mutant: a stale set is skipped without telling.
SkipStaleSilently ==
  /\ PollDue
  /\ is_stale
  /\ untilPoll' = untilPoll + poll_interval
  /\ UNCHANGED <<fencerVars, discoveryVars, config, loopVars, storage, age,
                 untilWake, busy, blocked>>

SkipStale ==
  /\ PollDue
  /\ is_stale
  /\ stale_luns' = TRUE
  /\ untilPoll' = untilPoll + poll_interval
  /\ UNCHANGED <<fencerVars, discoveryVars, config, place, active_set, maps,
                 query_failure, config_query_error, storage, age, untilWake, busy, blocked>>

StartPoll ==
  /\ PollDue
  /\ ~is_stale
  /\ stale_luns' = FALSE
  /\ active_set' = luns
  /\ place' = "QueryMaps"
  /\ blocked' = 0
  /\ untilPoll' = untilPoll + poll_interval
  /\ UNCHANGED <<fencerVars, discoveryVars, config, maps, query_failure,
                 config_query_error, storage, age, untilWake, busy>>

\* "show maps json" is answered with the state of the storage at that time.
QueryAnswered ==
  /\ place = "QueryMaps"
  /\ query_failure' = FALSE
  /\ maps' = storage
  /\ place' = "QueryConfig"
  /\ blocked' = 0
  /\ UNCHANGED <<fencerVars, discoveryVars, config, active_set, stale_luns,
                 config_query_error, storage, age, untilWake, busy, untilPoll>>

\* The poll ends without an evaluation.
EndPoll ==
  /\ place' = "Waiting"
  /\ active_set' = {}
  /\ maps' = {}
  /\ blocked' = 0

QueryFails ==
  /\ "query_fails" \in faults
  /\ place = "QueryMaps"
  /\ query_failure' = TRUE
  /\ EndPoll
  /\ UNCHANGED <<fencerVars, discoveryVars, config, stale_luns, config_query_error,
                 storage, age, untilWake, busy, untilPoll>>

\* A reply that cannot be parsed: the query itself has succeeded.
ReplyRejected ==
  /\ "bad_reply" \in faults
  /\ place = "QueryMaps"
  /\ query_failure' = FALSE
  /\ EndPoll
  /\ UNCHANGED <<fencerVars, discoveryVars, config, stale_luns, config_query_error,
                 storage, age, untilWake, busy, untilPoll>>

\* "show config local" succeeds or fails, and in both cases the maps of the
\* first query are evaluated.
Evaluate ==
  /\ place = "QueryConfig"
  /\ config_query_error' \in IF "query_fails" \in faults THEN BOOLEAN ELSE {FALSE}
  /\ F!update_with_maps(maps, active_set)
  /\ place' = IF triggered' /\ ~test_mode THEN "Fencing" ELSE "Waiting"
  /\ active_set' = {}
  /\ maps' = {}
  /\ blocked' = 0
  /\ UNCHANGED <<discoveryVars, config, stale_luns, query_failure, storage,
                 age, untilWake, busy, untilPoll>>

\* trigger_fencing returns with the node still up (module TriggerFencing).
FencingReturns ==
  /\ place = "Fencing"
  /\ place' = "Waiting"
  /\ UNCHANGED <<fencerVars, discoveryVars, config, active_set, maps, stale_luns,
                 query_failure, config_query_error, storage, clockVars>>
-----------------------------------------------------------------------------
\* Time passes while each thread sleeps or is blocked for no longer than it may.
DiscoveryMayWait ==
  IF phase = "Sleeping" THEN untilWake > 0
  ELSE busy < DiscoveryTicks \/ "discovery_hangs" \in faults

LoopMayWait ==
  \/ place = "Waiting" /\ untilPoll > 0
  \/ place \in {"QueryMaps", "QueryConfig"} /\ blocked < QueryTicks
  \/ place = "Fencing"

Tick ==
  /\ DiscoveryMayWait
  /\ LoopMayWait
  /\ age' = D!AtMost(age + 1, AgeCap)
  /\ IF phase = "Sleeping" THEN untilWake' = untilWake - 1 /\ UNCHANGED busy
     ELSE busy' = D!AtMost(busy + 1, DiscoveryTicks) /\ UNCHANGED untilWake
  /\ untilPoll' = IF untilPoll > -MaxLag THEN untilPoll - 1 ELSE untilPoll
  /\ IF place \in {"QueryMaps", "QueryConfig"} THEN blocked' = blocked + 1
     ELSE UNCHANGED blocked
  /\ UNCHANGED <<fencerVars, discoveryVars, config, loopVars, storage>>

DiscoveryThread ==
  DiscoverySteps \/ DiscoverySucceeds \/ DiscoveryFails \/ DiscoveryWakes

MainThread ==
  SkipStale \/ StartPoll \/ QueryAnswered \/ QueryFails \/ ReplyRejected \/ Evaluate
  \/ FencingReturns

DaemonNext == VMsChange \/ StorageChanges \/ DiscoveryThread \/ MainThread \/ Tick

DaemonSpec == DaemonInit /\ [][DaemonNext]_daemonVars
=============================================================================
