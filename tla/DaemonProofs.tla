---------------------------- MODULE DaemonProofs ----------------------------
(***************************************************************************)
(* Proofs about the composed daemon.  It implements its two parts:        *)
(* whatever the clock, the faults and the other thread do, its Fencer only *)
(* takes steps of Fencer and its discovery thread only takes steps of      *)
(* Discovery, so that what is proved of the parts holds in the daemon.     *)
(* And it keeps its times: a loss that lasts is fenced, blindness is told, *)
(* and a decision is for VMs that have run, each within a known time.      *)
(*                                                                         *)
(* An evaluation is a step of Fencer only for a reply and an active set    *)
(* that it may be given, so these have to be followed through a poll.      *)
(***************************************************************************)
EXTENDS DaemonObserver, TLAPS, FiniteSetTheorems

\* The published LUNs, the ones a poll works with and the reply that it evaluates.
IInv ==
  /\ running \subseteq VMs /\ todo \subseteq VMs
  /\ found \subseteq D!AllLuns /\ luns \subseteq D!AllLuns /\ active_set \subseteq D!AllLuns
  /\ storage \in Replies
  /\ place = "QueryConfig" => maps \in Replies
-----------------------------------------------------------------------------
THEOREM InitInv == DaemonInit => IInv
BY DEF DaemonInit, IInv, D!DiscoveryInit

\* The discovery thread and the VMs: only what they find is published.
LEMMA DiscoveryStep ==
  ASSUME IInv, DiscoveryThread \/ VMsChange
  PROVE  IInv'
<1> USE DEF IInv, loopVars
<1>1. CASE VMsChange
  BY <1>1 DEF VMsChange, D!VMsChange
<1>2. CASE DiscoverySteps
  <2>1. CASE D!list_running_vms
    BY <1>2, <2>1 DEF DiscoverySteps, D!list_running_vms
  <2>2. ASSUME NEW v \in VMs, D!get_vm_config(v) PROVE IInv'
    <3>1. LunsOf[v] \subseteq D!AllLuns
      BY DEF D!AllLuns
    <3> QED
      BY <1>2, <2>2, <3>1 DEF DiscoverySteps, D!get_vm_config
  <2> QED
    BY <1>2, <2>1, <2>2 DEF DiscoverySteps
<1>3. CASE DiscoverySucceeds
  BY <1>3 DEF DiscoverySucceeds, D!Publish
<1>4. CASE DiscoveryFails
  BY <1>4 DEF DiscoveryFails, D!Fail
<1>5. CASE DiscoveryWakes
  BY <1>5 DEF DiscoveryWakes, D!Wake
<1> QED
  BY <1>1, <1>2, <1>3, <1>4, <1>5 DEF DiscoveryThread

\* The monitoring loop: it takes over what is published and what is replied.
LEMMA LoopStep ==
  ASSUME IInv, MainThread
  PROVE  IInv'
<1> USE DEF IInv, discoveryVars
<1>1. CASE SkipStale
  BY <1>1 DEF SkipStale
<1>2. CASE StartPoll
  BY <1>2 DEF StartPoll
<1>3. CASE QueryAnswered
  BY <1>3 DEF QueryAnswered
<1>4. CASE QueryFails
  BY <1>4 DEF QueryFails, EndPoll
<1>5. CASE ReplyRejected
  BY <1>5 DEF ReplyRejected, EndPoll
<1>6. CASE Evaluate
  BY <1>6 DEF Evaluate
<1>7. CASE FencingReturns
  BY <1>7 DEF FencingReturns
<1> QED
  BY <1>1, <1>2, <1>3, <1>4, <1>5, <1>6, <1>7 DEF MainThread

THEOREM StepInv == IInv /\ [DaemonNext]_daemonVars => IInv'
<1> SUFFICES ASSUME IInv, [DaemonNext]_daemonVars PROVE IInv'
  OBVIOUS
<1>1. CASE StorageChanges \/ Tick \/ UNCHANGED daemonVars
  BY <1>1 DEF IInv, StorageChanges, Tick, daemonVars, discoveryVars, loopVars
<1> QED
  BY <1>1, DiscoveryStep, LoopStep DEF DaemonNext

\* The replies and the active sets of a poll are ones that the Fencer may be given.
THEOREM Inductive == DaemonSpec => []IInv
<1>1. DaemonSpec => DaemonInit /\ [][DaemonNext]_daemonVars
  BY PTL DEF DaemonSpec
<1> QED
  BY <1>1, InitInv, StepInv, PTL
-----------------------------------------------------------------------------
\* Only an evaluation touches the Fencer.
LEMMA OnlyEvaluations ==
  ASSUME [DaemonNext]_daemonVars
  PROVE  Evaluate \/ UNCHANGED fencerVars
<1>1. CASE MainThread
  BY <1>1 DEF MainThread, SkipStale, StartPoll, QueryAnswered, QueryFails,
     ReplyRejected, FencingReturns
<1>2. CASE DiscoveryThread
  BY <1>2 DEF DiscoveryThread, DiscoverySteps, DiscoverySucceeds, DiscoveryFails,
     DiscoveryWakes
<1>3. CASE VMsChange \/ StorageChanges \/ Tick \/ UNCHANGED daemonVars
  BY <1>3 DEF VMsChange, StorageChanges, Tick, daemonVars
<1> QED
  BY <1>1, <1>2, <1>3 DEF DaemonNext

\* An evaluation is a whole call of the Fencer.
LEMMA FencerStep ==
  ASSUME IInv, SUBSET D!AllLuns \subseteq ActiveSets, [DaemonNext]_daemonVars
  PROVE  [F!Next]_(F!fencerVars)
<1>1. CASE Evaluate
  <2>1. maps \in Replies /\ active_set \in ActiveSets
    BY <1>1 DEF IInv, Evaluate
  <2> QED
    BY <1>1, <2>1 DEF Evaluate, F!Next
<1>2. CASE UNCHANGED fencerVars
  BY <1>2 DEF fencerVars, F!fencerVars, F!tracking, F!issues
<1> QED
  BY <1>1, <1>2, OnlyEvaluations

\* The Fencer in the daemon is a Fencer: it is given whole replies and published sets,
\* once per poll, whatever delays, faults and interleavings there are.
THEOREM DaemonImplementsFencer ==
  ASSUME SUBSET D!AllLuns \subseteq ActiveSets
  PROVE  DaemonSpec => F!Spec
<1>1. DaemonInit => F!Init
  BY DEF DaemonInit
<1>2. IInv /\ [DaemonNext]_daemonVars => [F!Next]_(F!fencerVars)
  BY FencerStep
<1>3. DaemonSpec => DaemonInit /\ [][DaemonNext]_daemonVars
  BY PTL DEF DaemonSpec
<1>4. F!Init /\ [][F!Next]_(F!fencerVars) => F!Spec
  BY PTL DEF F!Spec
<1> QED
  BY <1>1, <1>2, <1>3, <1>4, Inductive, PTL

\* The monitoring loop, its faults and the clock take no part in a discovery.
LEMMA DiscoveryAlone ==
  ASSUME [DaemonNext]_daemonVars
  PROVE  [D!DiscoveryNext]_(D!discoveryVars)
<1>1. CASE UNCHANGED discoveryVars
  BY <1>1 DEF discoveryVars, D!discoveryVars
<1>2. CASE VMsChange
  BY <1>2 DEF VMsChange, D!DiscoveryNext
<1>3. CASE DiscoveryThread
  BY <1>3 DEF DiscoveryThread, DiscoverySteps, DiscoverySucceeds, DiscoveryFails,
     DiscoveryWakes, D!DiscoveryNext, D!Discover
<1>4. CASE MainThread
  BY <1>1, <1>4 DEF MainThread, SkipStale, StartPoll, QueryAnswered, QueryFails,
     ReplyRejected, Evaluate, FencingReturns
<1>5. CASE StorageChanges \/ Tick \/ UNCHANGED daemonVars
  BY <1>1, <1>5 DEF StorageChanges, Tick, daemonVars
<1> QED
  BY <1>2, <1>3, <1>4, <1>5 DEF DaemonNext

\* The discovery thread in the daemon takes the steps of Discovery, timed or not.
THEOREM DaemonImplementsDiscovery == DaemonSpec => D!DiscoverySpec
<1>1. DaemonInit => D!DiscoveryInit
  BY DEF DaemonInit
<1>2. [DaemonNext]_daemonVars => [D!DiscoveryNext]_(D!discoveryVars)
  BY DiscoveryAlone
<1>3. DaemonSpec => DaemonInit /\ [][DaemonNext]_daemonVars
  BY PTL DEF DaemonSpec
<1>4. D!DiscoveryInit /\ [][D!DiscoveryNext]_(D!discoveryVars) => D!DiscoverySpec
  BY PTL DEF D!DiscoverySpec
<1> QED
  BY <1>1, <1>2, <1>3, <1>4, PTL
-----------------------------------------------------------------------------
(* The types.                                                              *)

LEMMA Parameters ==
  /\ max_failures \in Nat \ {0} /\ U64_MAX \in Nat /\ max_failures <= U64_MAX
  /\ discovery_interval \in Nat \ {0} /\ discovery_max_retries \in Nat
  /\ discovery_backoff_base \in Nat /\ discovery_backoff_max \in Nat
  /\ U64_BITS \in Nat \ {0} /\ FailureCap \in Nat
  /\ poll_interval \in Nat \ {0} /\ QueryTicks \in Nat /\ DiscoveryTicks \in Nat
  /\ MaxLag \in Nat
<1>1. max_failures \in Nat \ {0} /\ U64_MAX \in Nat /\ max_failures <= U64_MAX
  BY PartsAssumption DEF F!ThresholdAssumption
<1>2. /\ discovery_interval \in Nat \ {0} /\ discovery_max_retries \in Nat
      /\ discovery_backoff_base \in Nat /\ discovery_backoff_max \in Nat
      /\ U64_BITS \in Nat \ {0} /\ FailureCap \in Nat
  BY PartsAssumption DEF D!DiscoveryAssumption, D!CapAssumption
<1> QED
  BY <1>1, <1>2, ClockAssumption

\* A power of two is the number of subsets of as many elements.
LEMMA PowerIsNat ==
  ASSUME NEW n \in Nat
  PROVE  2 ^ n \in Nat
<1>1. IsFiniteSet(1 .. n) /\ Cardinality(1 .. n) = n
  BY FS_Interval
<1>2. IsFiniteSet(SUBSET (1 .. n)) /\ Cardinality(SUBSET (1 .. n)) = 2 ^ Cardinality(1 .. n)
  BY <1>1, FS_SUBSET
<1> QED
  BY <1>1, <1>2, FS_CardinalityType

LEMMA SleepIsNat ==
  ASSUME NEW failures \in Nat, D!Sleep(failures)
  PROVE  delay' \in Nat
<1>1. CASE D!BacksOff(failures)
  <2>1. PICK n \in Nat : n = failures - discovery_max_retries
    BY <1>1, Parameters DEF D!BacksOff
  <2>2. PICK k \in Nat : k = D!AtMost(n, discovery_backoff_max)
    BY Parameters DEF D!AtMost
  <2>3. PICK p \in Nat : p = 2 ^ k
    BY PowerIsNat
  <2>4. discovery_backoff_base * p \in Nat
    BY <2>3, Parameters
  <2>5. D!CappedPower(n) = D!AtMost(discovery_backoff_base * p, discovery_backoff_max)
    BY <2>2, <2>3 DEF D!CappedPower
  <2>6. D!CappedPower(n) \in Nat
    BY <2>4, <2>5, Parameters DEF D!AtMost
  <2> QED
    BY <1>1, <2>1, <2>6 DEF D!Sleep, D!BackoffDelay
<1> QED
  BY <1>1, Parameters DEF D!Sleep

\* A failure of the discovery leaves its counter and its issues in their types.
LEMMA FailTyped ==
  ASSUME D!DiscoveryTypeOK, D!Fail
  PROVE  D!DiscoveryTypeOK' /\ phase' = "Sleeping"
<1>1. discovery_failures' \in 0 .. FailureCap
  BY Parameters DEF D!DiscoveryTypeOK, D!Fail, D!AtMost
<1>2. delay' \in Nat
  BY <1>1, SleepIsNat, Parameters DEF D!Fail
<1>3. phase' = "Sleeping" /\ failure_issue' \in BOOLEAN /\ backoff_issue' \in BOOLEAN
  BY DEF D!Fail, D!Sleep, D!BacksOff, D!DiscoveryTypeOK
<1> QED
  BY <1>1, <1>2, <1>3 DEF D!DiscoveryTypeOK, D!Fail

LEMMA PublishTyped ==
  ASSUME D!DiscoveryTypeOK, D!Publish
  PROVE  /\ D!DiscoveryTypeOK' /\ phase' = "Sleeping"
         /\ delay' = discovery_interval
<1>1. phase' = "Sleeping" /\ delay' = discovery_interval
  BY DEF D!Publish, D!Sleep, D!BacksOff
<1>2. discovery_failures' \in 0 .. FailureCap
  BY Parameters DEF D!Publish
<1> QED
  BY <1>1, <1>2, Parameters DEF D!DiscoveryTypeOK, D!Publish

LEMMA DiscoveryTyped ==
  ASSUME D!DiscoveryTypeOK, [D!DiscoveryNext]_(D!discoveryVars)
  PROVE  D!DiscoveryTypeOK'
<1>1. CASE D!list_running_vms
  BY <1>1 DEF D!DiscoveryTypeOK, D!list_running_vms, D!DiscoveryIssues
<1>2. ASSUME NEW v \in VMs, D!get_vm_config(v) PROVE D!DiscoveryTypeOK'
  <2>1. LunsOf[v] \subseteq D!AllLuns
    BY DEF D!AllLuns
  <2> QED
    BY <1>2, <2>1 DEF D!DiscoveryTypeOK, D!get_vm_config, D!DiscoveryIssues
<1>3. CASE D!Wake
  BY <1>3 DEF D!DiscoveryTypeOK, D!Wake, D!DiscoveryIssues
<1>4. CASE D!VMsChange
  BY <1>4 DEF D!DiscoveryTypeOK, D!VMsChange, D!DiscoveryIssues
<1>5. CASE UNCHANGED D!discoveryVars
  BY <1>5 DEF D!DiscoveryTypeOK, D!discoveryVars
<1> QED
  BY <1>1, <1>2, <1>3, <1>4, <1>5, FailTyped, PublishTyped DEF D!DiscoveryNext, D!Discover

\* What one evaluation decides: the threshold is exact, and reaching it is visible.
LEMMA Decision ==
  ASSUME F!TypeOK, NEW monitored, NEW active,
         \/ F!NothingMonitored(monitored, active)
         \/ F!StorageHealthy(monitored, active)
         \/ F!StorageFailing(monitored, active)
  PROVE  /\ consecutive_failures' \in 0 .. U64_MAX
         /\ triggered' \in BOOLEAN
         /\ triggered' <=> consecutive_failures' >= max_failures
         /\ fencing_issue' \in {"None", "Warning", "Critical"}
         /\ triggered' => fencing_issue' = "Critical"
<1>1. ~(0 >= max_failures) /\ 0 \in 0 .. U64_MAX
  BY Parameters
<1>2. CASE F!NothingMonitored(monitored, active) \/ F!StorageHealthy(monitored, active)
  <2>1. consecutive_failures' = 0 /\ triggered' = FALSE
    BY <1>2 DEF F!NothingMonitored, F!StorageHealthy
  <2>2. fencing_issue' \in {"None", "Warning", "Critical"}
    BY <1>2 DEF F!NothingMonitored, F!StorageHealthy, F!TypeOK
  <2> QED
    BY <1>1, <2>1, <2>2, Zenon
<1>3. CASE F!StorageFailing(monitored, active)
  <2> DEFINE reached == consecutive_failures' >= max_failures
  <2>1. consecutive_failures' \in 0 .. U64_MAX
    BY <1>3, Parameters DEF F!StorageFailing, F!SaturatingInc, F!TypeOK
  <2>2. reached \in BOOLEAN
    BY <2>1, Parameters
  <2>3. triggered' = reached
    BY <1>3 DEF F!StorageFailing
  <2> HIDE DEF reached
  <2>4. triggered' \in BOOLEAN /\ (triggered' <=> reached)
    BY <2>2, <2>3
  <2>5. /\ fencing_issue' \in {"None", "Warning", "Critical"}
        /\ triggered' => fencing_issue' = "Critical"
    BY <1>3 DEF F!StorageFailing
  <2> QED
    BY <2>1, <2>4, <2>5 DEF reached
<1> QED
  BY <1>2, <1>3

\* One evaluation leaves the Fencer's variables in their types.
LEMMA FencerTyped ==
  ASSUME F!TypeOK, NEW reply \in Replies, NEW active, F!update_with_maps(reply, active)
  PROVE  F!TypeOK'
<1> DEFINE monitored == F!MonitoredMaps(reply, active)
<1>1. /\ F!Track(monitored)
      /\ \/ F!NothingMonitored(monitored, active)
         \/ F!StorageHealthy(monitored, active)
         \/ F!StorageFailing(monitored, active)
  BY DEF F!update_with_maps
<1>2. \A m \in monitored : m.name \in MapNames
  BY PartsAssumption DEF F!RepliesAssumption, F!MonitoredMaps
<1>3. F!NamesOf(monitored) \subseteq MapNames
  BY <1>2 DEF F!NamesOf
<1> HIDE DEF monitored
<1>4. /\ previous_map_states' \in UNION {[S -> BOOLEAN] : S \in SUBSET MapNames}
      /\ had_working_paths' \subseteq MapNames /\ permanently_broken_luns' \subseteq MapNames
  <2>1. previous_map_states' \in [F!NamesOf(monitored) -> BOOLEAN]
    BY <1>1 DEF F!Track
  <2> QED
    BY <1>1, <1>3, <2>1 DEF F!Track
<1>5. missing_dm_st' \subseteq MapNames /\ missing_path_groups' \subseteq MapNames
  BY <1>1, <1>2 DEF F!Track, F!TypeOK
<1>6. /\ consecutive_failures' \in 0 .. U64_MAX /\ triggered' \in BOOLEAN
      /\ fencing_issue' \in {"None", "Warning", "Critical"}
  BY <1>1, Decision
<1> QED
  BY <1>4, <1>5, <1>6 DEF F!TypeOK

LEMMA FencerInitTyped == F!Init => F!TypeOK
<1> SUFFICES ASSUME F!Init PROVE F!TypeOK
  OBVIOUS
<1>1. previous_map_states \in [{} -> BOOLEAN]
  BY DEF F!Init
<1>2. previous_map_states \in UNION {[S -> BOOLEAN] : S \in SUBSET MapNames}
  BY <1>1
<1>3. triggered \in BOOLEAN /\ fencing_issue \in {"None", "Warning", "Critical"}
  BY DEF F!Init
<1>4. consecutive_failures \in 0 .. U64_MAX
  BY Parameters DEF F!Init
<1>5. /\ had_working_paths \subseteq MapNames /\ permanently_broken_luns \subseteq MapNames
      /\ missing_dm_st \subseteq MapNames /\ missing_path_groups \subseteq MapNames
  BY DEF F!Init
<1> QED
  BY <1>2, <1>3, <1>4, <1>5 DEF F!TypeOK

\* The monitoring loop and the clock.
LoopTypes ==
  /\ test_mode \in BOOLEAN
  /\ faults \in FaultSets
  /\ place \in {"Waiting", "QueryMaps", "QueryConfig", "Fencing"}
  /\ active_set \subseteq D!AllLuns
  /\ maps \in Replies \cup {{}}
  /\ stale_luns \in BOOLEAN /\ query_failure \in BOOLEAN /\ config_query_error \in BOOLEAN
  /\ storage \in Replies

ClockTypes ==
  /\ age \in 0 .. AgeCap
  /\ untilWake \in Nat
  /\ busy \in 0 .. DiscoveryTicks
  /\ untilPoll \in -MaxLag .. poll_interval
  /\ blocked \in 0 .. QueryTicks

WatchTypes ==
  /\ exposure \in 0 .. Watch[faults].exposure
  /\ blind \in 0 .. Watch[faults].blind
  /\ vacant \in 0 .. Watch[faults].vacant
  /\ lossSpan \in 0 .. Watch[faults].lossSpan

Types == F!TypeOK /\ D!DiscoveryTypeOK /\ LoopTypes /\ ClockTypes /\ WatchTypes

LEMMA TypesAreTypes == Types <=> AllTypesOK
BY DEF Types, LoopTypes, ClockTypes, WatchTypes, AllTypesOK, DaemonTypeOK

LEMMA LoopTyped ==
  ASSUME Types, IInv, [DaemonNext]_daemonVars
  PROVE  LoopTypes'
<1> USE DEF Types, LoopTypes, loopVars, config
<1>1. CASE SkipStale \/ StartPoll
  BY <1>1 DEF SkipStale, StartPoll, IInv
<1>2. CASE QueryAnswered \/ FencingReturns
  BY <1>2 DEF QueryAnswered, FencingReturns
<1>3. CASE QueryFails \/ ReplyRejected
  BY <1>3 DEF QueryFails, ReplyRejected, EndPoll
<1>4. CASE Evaluate
  <2>1. config_query_error' \in BOOLEAN
    BY <1>4 DEF Evaluate
  <2>2. place' \in {"Waiting", "Fencing"}
    BY <1>4 DEF Evaluate
  <2> QED
    BY <1>4, <2>1, <2>2 DEF Evaluate
<1>5. CASE DiscoveryThread
  BY <1>5 DEF DiscoveryThread, DiscoverySteps, DiscoverySucceeds, DiscoveryFails, DiscoveryWakes
<1>6. CASE VMsChange \/ StorageChanges \/ Tick \/ UNCHANGED daemonVars
  BY <1>6 DEF VMsChange, StorageChanges, Tick, daemonVars
<1> QED
  BY <1>1, <1>2, <1>3, <1>4, <1>5, <1>6 DEF DaemonNext, MainThread

\* The phase that a discovery ends in, with its delay.
LEMMA DiscoveryEndsTyped ==
  ASSUME D!DiscoveryTypeOK, D!Publish \/ D!Fail
  PROVE  delay' \in Nat /\ phase' = "Sleeping"
BY FailTyped, PublishTyped DEF D!DiscoveryTypeOK

LEMMA ClockTyped ==
  ASSUME Types, [DaemonNext]_daemonVars
  PROVE  ClockTypes'
<1> USE Parameters DEF Types, ClockTypes, clockVars
<1>1. CASE SkipStale \/ StartPoll
  BY <1>1 DEF SkipStale, StartPoll, PollDue
<1>2. CASE QueryAnswered \/ FencingReturns
  BY <1>2 DEF QueryAnswered, FencingReturns
<1>3. CASE QueryFails \/ ReplyRejected
  BY <1>3 DEF QueryFails, ReplyRejected, EndPoll
<1>4. CASE Evaluate
  BY <1>4 DEF Evaluate
<1>5. CASE DiscoverySucceeds \/ DiscoveryFails
  <2>1. delay' \in Nat
    BY <1>5, DiscoveryEndsTyped DEF DiscoverySucceeds, DiscoveryFails
  <2>2. 0 \in 0 .. AgeCap
    BY DEF AgeCap, MaxAge
  <2> QED
    BY <1>5, <2>1, <2>2 DEF DiscoverySucceeds, DiscoveryFails
<1>6. CASE DiscoverySteps \/ DiscoveryWakes
  BY <1>6 DEF DiscoverySteps, DiscoveryWakes
<1>7. CASE VMsChange \/ StorageChanges \/ UNCHANGED daemonVars
  BY <1>7 DEF VMsChange, StorageChanges, daemonVars
<1>8. CASE Tick
  <2>1. age' \in 0 .. AgeCap
    BY <1>8 DEF Tick, D!AtMost, AgeCap, MaxAge
  <2>2. untilWake' \in Nat /\ busy' \in 0 .. DiscoveryTicks
    BY <1>8 DEF Tick, D!AtMost, DiscoveryMayWait
  <2>3. untilPoll' \in -MaxLag .. poll_interval /\ blocked' \in 0 .. QueryTicks
    BY <1>8 DEF Tick, LoopMayWait
  <2> QED
    BY <2>1, <2>2, <2>3
<1> QED
  BY <1>1, <1>2, <1>3, <1>4, <1>5, <1>6, <1>7, <1>8 DEF DaemonNext, MainThread, DiscoveryThread

\* The stopwatches count up to their limits.
LEMMA WatchBounds ==
  ASSUME LoopTypes
  PROVE  \A w \in {"exposure", "blind", "vacant", "lossSpan"} : Watch[faults][w] \in Nat
BY WatchAssumption DEF LoopTypes

LEMMA LaterTyped ==
  ASSUME LoopTypes, NEW w \in {"exposure", "blind", "vacant", "lossSpan"},
         NEW n \in 0 .. Watch[faults][w]
  PROVE  /\ Later(n, w) \in 0 .. Watch[faults][w]
         /\ Later(n, w) <= n + 1
BY WatchBounds DEF Later, D!AtMost

LEMMA FaultsAreFixed ==
  ASSUME [DaemonNext]_daemonVars
  PROVE  UNCHANGED config
<1>1. CASE MainThread
  BY <1>1 DEF MainThread, SkipStale, StartPoll, QueryAnswered, QueryFails, ReplyRejected,
     Evaluate, FencingReturns
<1>2. CASE DiscoveryThread
  BY <1>2 DEF DiscoveryThread, DiscoverySteps, DiscoverySucceeds, DiscoveryFails, DiscoveryWakes
<1>3. CASE VMsChange \/ StorageChanges \/ Tick \/ UNCHANGED daemonVars
  BY <1>3 DEF VMsChange, StorageChanges, Tick, daemonVars
<1> QED
  BY <1>1, <1>2, <1>3 DEF DaemonNext

\* A step of the observed daemon is a step of the daemon.
LEMMA ObservedStep ==
  ASSUME [ObserverNext]_vars
  PROVE  [DaemonNext]_daemonVars
BY DEF ObserverNext, DaemonNext, vars

LEMMA WatchTyped ==
  ASSUME Types, [ObserverNext]_vars
  PROVE  WatchTypes'
<1>1. UNCHANGED faults
  BY ObservedStep, FaultsAreFixed DEF config
<1>2. CASE Tick /\ OnTick
  <2> USE DEF Types, WatchTypes
  <2>1. LoopTypes
    OBVIOUS
  <2>2. exposure' \in 0 .. Watch[faults].exposure
    BY <1>2, <2>1, LaterTyped, WatchBounds DEF OnTick
  <2>3. blind' \in 0 .. Watch[faults].blind
    BY <1>2, <2>1, LaterTyped, WatchBounds DEF OnTick
  <2>4. vacant' \in 0 .. Watch[faults].vacant
    BY <1>2, <2>1, LaterTyped, WatchBounds DEF OnTick
  <2>5. lossSpan' \in 0 .. Watch[faults].lossSpan
    BY <1>2, <2>1, LaterTyped, WatchBounds DEF OnTick
  <2> QED
    BY <1>1, <2>2, <2>3, <2>4, <2>5
<1>3. CASE OnStep
  <2> USE DEF Types, WatchTypes
  <2>1. /\ Watch[faults].exposure \in Nat /\ Watch[faults].blind \in Nat
        /\ Watch[faults].vacant \in Nat /\ Watch[faults].lossSpan \in Nat
    BY WatchBounds
  <2>2. /\ exposure' \in {0, exposure} /\ blind' \in {0, blind} /\ vacant' \in {0, vacant}
        /\ lossSpan' \in {0, lossSpan, D!AtMost(blocked, Watch[faults].lossSpan)}
    BY <1>3 DEF OnStep
  <2>3. D!AtMost(blocked, Watch[faults].lossSpan) \in 0 .. Watch[faults].lossSpan
    BY <2>1, Parameters DEF D!AtMost, ClockTypes
  <2> QED
    BY <1>1, <2>1, <2>2, <2>3
<1>4. CASE UNCHANGED vars
  BY <1>4 DEF Types, WatchTypes, vars, observer, daemonVars, config
<1> QED
  BY <1>2, <1>3, <1>4 DEF ObserverNext

TypeInv == IInv /\ Types

LEMMA TypeInvInit == ObserverInit => TypeInv
<1> SUFFICES ASSUME ObserverInit PROVE TypeInv
  OBVIOUS
<1> USE DEF ObserverInit, DaemonInit
<1>1. IInv
  BY InitInv
<1>2. D!DiscoveryTypeOK
  <2>1. discovery_failures \in 0 .. FailureCap /\ delay \in Nat
    BY Parameters DEF D!DiscoveryInit
  <2> QED
    BY <2>1 DEF D!DiscoveryInit, D!DiscoveryTypeOK
<1>3. LoopTypes
  BY DEF LoopTypes
<1>4. ClockTypes
  BY Parameters DEF ClockTypes, AgeCap, MaxAge
<1>5. WatchTypes
  BY <1>3, WatchBounds DEF WatchTypes
<1> QED
  BY <1>1, <1>2, <1>3, <1>4, <1>5, FencerInitTyped DEF TypeInv, Types

LEMMA TypeInvStep == TypeInv /\ [ObserverNext]_vars => TypeInv'
<1> SUFFICES ASSUME TypeInv, [ObserverNext]_vars PROVE TypeInv'
  OBVIOUS
<1> USE DEF TypeInv
<1>1. [DaemonNext]_daemonVars
  BY ObservedStep
<1>2. IInv'
  BY <1>1, StepInv
<1>3. F!TypeOK'
  <2>1. CASE UNCHANGED fencerVars
    BY <2>1 DEF Types, fencerVars, F!TypeOK
  <2>2. CASE Evaluate
    <3>1. maps \in Replies
      BY <2>2 DEF Evaluate, IInv
    <3>2. F!update_with_maps(maps, active_set)
      BY <2>2 DEF Evaluate
    <3> QED
      BY <3>1, <3>2, FencerTyped DEF Types
  <2> QED
    BY <1>1, <2>1, <2>2, OnlyEvaluations
<1>4. D!DiscoveryTypeOK'
  BY <1>1, DiscoveryAlone, DiscoveryTyped DEF Types
<1> QED
  BY <1>1, <1>2, <1>3, <1>4, LoopTyped, ClockTyped, WatchTyped DEF Types

\* Every variable of the daemon and every stopwatch stays in its type, whatever the
\* parameters.
THEOREM TypesCorrect == ObserverSpec => []AllTypesOK
<1>1. ObserverSpec => []TypeInv
  BY TypeInvInit, TypeInvStep, PTL DEF ObserverSpec
<1>2. TypeInv => AllTypesOK
  BY TypesAreTypes DEF TypeInv
<1> QED
  BY <1>1, <1>2, PTL
-----------------------------------------------------------------------------
(* What the bounds on the times rest on.                                   *)

\* A call asks for fencing when the counter has reached the threshold, and the loop
\* only waits for a fencing that was asked for.
CounterDecides ==
  /\ triggered <=> consecutive_failures >= max_failures
  /\ place = "Fencing" => triggered /\ fencing_issue = "Critical"

\* The published LUNs have been found by a discovery that began one discovery ago.
PublishedInTime ==
  IF phase = "Sleeping" THEN busy = 0 /\ age + untilWake <= discovery_interval
  ELSE age <= discovery_interval + busy

\* The ticks until the next poll starts, at most.
LargerOf(m, n) == IF m > n THEN m ELSE n

QueriesLeft == CASE place = "QueryMaps" -> 2 * QueryTicks - blocked
                 [] place = "QueryConfig" -> QueryTicks - blocked
                 [] OTHER -> 0

Left == LargerOf(LargerOf(untilPoll, 0), QueriesLeft)

\* The loss has lasted for no longer than so many polls, the present one included.
Within(polls) == exposure + Left <= polls * PollTicks

\* The poll under way will find the loss: it works with LUNs, and once it has a reply
\* that reply shows the loss of each.
SeesLoss ==
  /\ active_set # {}
  /\ place = "QueryConfig" => \A lun \in active_set : LunLost(lun, maps)

\* A loss that lasts has been counted by every poll but the one under way when it began.
LossCounted ==
  /\ exposure > 0 => Lost /\ ~triggered
  /\ place = "Waiting" => Within(consecutive_failures + 1)
  /\ place \in {"QueryMaps", "QueryConfig"} =>
       Within(1) \/ (SeesLoss /\ Within(consecutive_failures + 2))

LossInv == faults = {} => PublishedInTime /\ LossCounted

\* How long the daemon can have been blind, step by step.
BlindInv ==
  "bad_reply" \notin faults =>
    /\ blind <= poll_interval + 2 * QueryTicks
    /\ place = "Waiting" =>
         /\ blind <= poll_interval + QueryTicks
         /\ ~query_failure => blind <= poll_interval
         /\ ~BlindnessShown => blind + LargerOf(untilPoll, 0) <= poll_interval
    /\ place = "QueryMaps" =>
         /\ blind <= poll_interval + QueryTicks
         /\ ~query_failure => blind <= poll_interval + blocked
    /\ place = "QueryConfig" => blind <= poll_interval + QueryTicks + blocked
    /\ place = "Fencing" => blind = 0

\* How long ago the VMs ran for which LUNs are known, step by step.
VacantInv ==
  "discovery_hangs" \notin faults =>
    /\ phase = "Reading" /\ (todo # {} \/ found # {}) => vacant <= busy
    /\ luns # {} /\ ~is_stale => vacant <= age + DiscoveryTicks
    /\ place = "QueryMaps" /\ active_set # {} =>
         vacant <= MaxAge + DiscoveryTicks + blocked
    /\ place = "QueryConfig" /\ active_set # {} =>
         vacant <= MaxAge + DiscoveryTicks + QueryTicks + blocked

LEMMA InitTimed == ObserverInit => CounterDecides /\ LossInv /\ BlindInv /\ VacantInv
<1> SUFFICES ASSUME ObserverInit PROVE CounterDecides /\ LossInv /\ BlindInv /\ VacantInv
  OBVIOUS
<1> USE Parameters DEF ObserverInit, DaemonInit
<1>1. CounterDecides
  BY DEF CounterDecides, F!Init
<1>2. LossInv
  BY DEF LossInv, PublishedInTime, LossCounted, Within, Left, QueriesLeft, LargerOf, PollTicks,
     D!DiscoveryInit, F!Init
<1>3. BlindInv
  BY DEF BlindInv, LargerOf
<1>4. VacantInv
  BY DEF VacantInv, D!DiscoveryInit
<1> QED
  BY <1>1, <1>2, <1>3, <1>4

LEMMA CounterStep ==
  ASSUME TypeInv, CounterDecides, [DaemonNext]_daemonVars
  PROVE  CounterDecides'
<1>1. CASE Evaluate
  <2>1. /\ triggered' <=> consecutive_failures' >= max_failures
        /\ triggered' => fencing_issue' = "Critical"
    BY <1>1, Decision DEF Evaluate, F!update_with_maps, TypeInv, Types
  <2>2. place' = "Fencing" => triggered'
    BY <1>1 DEF Evaluate
  <2> QED
    BY <2>1, <2>2 DEF CounterDecides
<1>2. CASE ~Evaluate
  <2>1. place' = "Fencing" => place = "Fencing"
    BY <1>2 DEF DaemonNext, MainThread, DiscoveryThread, SkipStale, StartPoll, QueryAnswered,
       QueryFails, ReplyRejected, EndPoll, FencingReturns, DiscoverySteps, DiscoverySucceeds,
       DiscoveryFails, DiscoveryWakes, VMsChange, StorageChanges, Tick, daemonVars, loopVars
  <2>2. UNCHANGED <<consecutive_failures, triggered, fencing_issue>>
    BY <1>2, OnlyEvaluations DEF fencerVars
  <2> QED
    BY <2>1, <2>2 DEF CounterDecides
<1> QED
  BY <1>1, <1>2
-----------------------------------------------------------------------------
(* The status shows when the daemon does not look.                         *)

LEMMA BlindTick ==
  ASSUME TypeInv, BlindInv, CounterDecides, Tick, OnTick
  PROVE  BlindInv'
<1>1. /\ UNCHANGED <<faults, place, query_failure, stale_luns, fencing_issue, triggered>>
      /\ place \in {"Waiting", "QueryMaps", "QueryConfig", "Fencing"}
  BY DEF Tick, config, loopVars, fencerVars, TypeInv, Types, LoopTypes
<1>2. BlindnessShown' <=> BlindnessShown
  BY <1>1 DEF BlindnessShown
<1>3. ClockTypes /\ ClockTypes' /\ LoopTypes
  BY ClockTyped DEF DaemonNext, TypeInv, Types
<1>4. blind \in Nat /\ Later(blind, "blind") \in Nat /\ Later(blind, "blind") <= blind + 1
  BY LaterTyped, WatchBounds DEF TypeInv, Types, WatchTypes
<1>5. /\ blocked' \in Nat /\ blocked \in Nat /\ untilPoll \in Int /\ untilPoll' \in Int
      /\ poll_interval \in Nat \ {0} /\ QueryTicks \in Nat
  BY <1>3, Parameters DEF ClockTypes
<1>6. CASE BlindnessShown
  <2>1. blind' = 0
    BY <1>6 DEF OnTick
  <2>2. PICK b \in Nat : blocked' = b
    BY <1>5
  <2> QED
    BY <1>1, <1>2, <1>5, <1>6, <2>1, <2>2 DEF BlindInv
<1>7. CASE ~BlindnessShown
  <2>1. blind' \in Nat /\ blind' <= blind + 1
    BY <1>4, <1>7 DEF OnTick
  <2>2. PICK t \in Nat : blind' = t
    BY <2>1
  <2>3. t <= blind + 1
    BY <2>1, <2>2
  <2>4. ~query_failure /\ place # "Fencing"
    BY <1>7 DEF BlindnessShown, CounterDecides
  <2>5. CASE place = "Waiting"
    <3>1. untilPoll > 0 /\ untilPoll' = untilPoll - 1
      BY <1>3, <2>5, Parameters DEF Tick, LoopMayWait, ClockTypes
    <3> QED
      BY <1>1, <1>4, <1>5, <1>7, <2>2, <2>3, <2>4, <2>5, <3>1 DEF BlindInv, LargerOf
  <2>6. CASE place \in {"QueryMaps", "QueryConfig"}
    <3>1. blocked < QueryTicks /\ blocked' = blocked + 1
      BY <2>6 DEF Tick, LoopMayWait
    <3> QED
      BY <1>1, <1>4, <1>5, <2>2, <2>3, <2>4, <2>6, <3>1 DEF BlindInv
  <2> QED
    BY <1>1, <2>4, <2>5, <2>6
<1> QED
  BY <1>6, <1>7

LEMMA BlindStep ==
  ASSUME TypeInv, BlindInv, CounterDecides, CounterDecides', OnStep,
         VMsChange \/ StorageChanges \/ DiscoveryThread \/ MainThread
  PROVE  BlindInv'
<1> USE Parameters DEF TypeInv, Types, ClockTypes, LoopTypes, LargerOf
<1>1. PICK t \in Nat : blind' = t /\ t <= blind /\ (Evaluate => t = 0)
  BY WatchBounds DEF OnStep, WatchTypes
<1>2. blind \in Nat
  BY WatchBounds DEF WatchTypes
<1>3. CASE VMsChange \/ StorageChanges \/ DiscoveryThread
  <2>1. UNCHANGED <<faults, place, query_failure, stale_luns, fencing_issue, untilPoll,
                    blocked>>
    BY <1>3 DEF VMsChange, StorageChanges, DiscoveryThread, DiscoverySteps, DiscoverySucceeds,
       DiscoveryFails, DiscoveryWakes, config, loopVars, fencerVars, clockVars
  <2>2. BlindnessShown' <=> BlindnessShown
    BY <2>1 DEF BlindnessShown
  <2> QED
    BY <1>1, <1>2, <2>1, <2>2 DEF BlindInv
<1>4. CASE SkipStale
  BY <1>1, <1>2, <1>4 DEF SkipStale, PollDue, BlindInv, BlindnessShown, config, fencerVars
<1>5. CASE StartPoll
  BY <1>1, <1>2, <1>5 DEF StartPoll, PollDue, BlindInv, config
<1>6. CASE QueryAnswered
  BY <1>1, <1>2, <1>6 DEF QueryAnswered, BlindInv, config
<1>7. CASE QueryFails
  BY <1>1, <1>2, <1>7 DEF QueryFails, EndPoll, BlindInv, BlindnessShown, config
<1>8. CASE ReplyRejected
  BY <1>8 DEF ReplyRejected, BlindInv, config
<1>9. CASE Evaluate
  <2>1. t = 0 /\ UNCHANGED <<faults, untilPoll, query_failure>> /\ blocked' = 0
    BY <1>1, <1>9 DEF Evaluate, config
  <2>2. place' \in {"Waiting", "Fencing"}
    BY <1>9 DEF Evaluate
  <2> QED
    BY <1>1, <2>1, <2>2 DEF BlindInv
<1>10. CASE FencingReturns
  <2>1. blind = 0 \/ "bad_reply" \in faults
    BY <1>10 DEF FencingReturns, BlindInv
  <2>2. /\ place' = "Waiting" /\ BlindnessShown'
        /\ UNCHANGED <<faults, untilPoll, query_failure, stale_luns, fencing_issue>>
    BY <1>10 DEF FencingReturns, config, clockVars, fencerVars, BlindnessShown, CounterDecides
  <2> QED
    BY <1>1, <1>2, <2>1, <2>2 DEF BlindInv
<1> QED
  BY <1>3, <1>4, <1>5, <1>6, <1>7, <1>8, <1>9, <1>10 DEF MainThread
-----------------------------------------------------------------------------
(* The VMs for which the daemon decides have run a known time ago.         *)

LEMMA VacantTick ==
  ASSUME TypeInv, VacantInv, Tick, OnTick
  PROVE  VacantInv'
<1> SUFFICES ASSUME "discovery_hangs" \notin faults' PROVE VacantInv'
  BY DEF VacantInv
<1>1. UNCHANGED <<faults, phase, todo, found, luns, place, active_set>>
  BY DEF Tick, config, loopVars, discoveryVars
<1>2. /\ vacant \in Nat /\ age \in Nat /\ busy \in Nat /\ blocked \in Nat
      /\ QueryTicks \in Nat /\ DiscoveryTicks \in Nat /\ MaxAge \in Nat
  BY WatchBounds, Parameters DEF TypeInv, Types, WatchTypes, ClockTypes, AgeCap, MaxAge
<1>3. PICK t \in Nat : vacant' = t /\ t <= vacant + 1
  BY WatchBounds, LaterTyped DEF TypeInv, Types, WatchTypes, OnTick
<1>4. phase = "Reading" => busy' = busy + 1
  BY <1>1, <1>2 DEF Tick, DiscoveryMayWait, D!AtMost
<1>5. ~is_stale' => ~is_stale /\ age' = age + 1
  BY <1>2 DEF Tick, is_stale, AgeCap, D!AtMost, MaxAge
<1>6. place \in {"QueryMaps", "QueryConfig"} => blocked' = blocked + 1
  BY DEF Tick
<1>7. phase' = "Reading" /\ (todo' # {} \/ found' # {}) => vacant' <= busy'
  BY <1>1, <1>2, <1>3, <1>4 DEF VacantInv
<1>8. luns' # {} /\ ~is_stale' => vacant' <= age' + DiscoveryTicks
  BY <1>1, <1>2, <1>3, <1>5 DEF VacantInv
<1>9. place' = "QueryMaps" /\ active_set' # {} => vacant' <= MaxAge + DiscoveryTicks + blocked'
  BY <1>1, <1>2, <1>3, <1>6 DEF VacantInv
<1>10. place' = "QueryConfig" /\ active_set' # {} =>
         vacant' <= MaxAge + DiscoveryTicks + QueryTicks + blocked'
  BY <1>1, <1>2, <1>3, <1>6 DEF VacantInv
<1> QED
  BY <1>7, <1>8, <1>9, <1>10 DEF VacantInv, MaxAge

LEMMA VacantStep ==
  ASSUME TypeInv, VacantInv, OnStep,
         VMsChange \/ StorageChanges \/ DiscoveryThread \/ MainThread
  PROVE  VacantInv'
<1> SUFFICES ASSUME "discovery_hangs" \notin faults' PROVE VacantInv'
  BY DEF VacantInv
<1>1. "discovery_hangs" \notin faults
  BY FaultsAreFixed DEF config, DaemonNext
<1>2. /\ vacant \in Nat /\ age \in Nat /\ busy \in 0 .. DiscoveryTicks
      /\ blocked \in 0 .. QueryTicks
      /\ QueryTicks \in Nat /\ DiscoveryTicks \in Nat /\ MaxAge \in Nat
  BY WatchBounds, Parameters DEF TypeInv, Types, WatchTypes, ClockTypes, AgeCap, MaxAge
<1>3. PICK t \in Nat : vacant' = t /\ t <= vacant /\ (running' # {} => t = 0)
  BY <1>2 DEF OnStep
<1> USE DEF VacantInv, is_stale
<1>4. CASE VMsChange \/ StorageChanges \/ DiscoveryWakes
  <2>1. UNCHANGED <<luns, todo, found, place, active_set, age, busy, blocked>>
    BY <1>4 DEF VMsChange, D!VMsChange, StorageChanges, DiscoveryWakes, D!Wake, discoveryVars,
       loopVars, clockVars
  <2>2. phase' = "Reading" => phase = "Reading"
    BY <1>4 DEF VMsChange, D!VMsChange, StorageChanges, DiscoveryWakes, D!Wake, discoveryVars
  <2> QED
    BY <1>1, <1>2, <1>3, <2>1, <2>2
<1>5. CASE DiscoverySteps
  <2>1. UNCHANGED <<luns, place, active_set, age, busy, blocked>>
    BY <1>5 DEF DiscoverySteps, D!list_running_vms, D!get_vm_config, loopVars, clockVars
  <2>2. CASE D!list_running_vms
    BY <1>1, <1>2, <1>3, <2>1, <2>2 DEF D!list_running_vms
  <2>3. ASSUME NEW v \in VMs, D!get_vm_config(v) PROVE VacantInv'
    BY <1>1, <1>2, <1>3, <2>1, <2>3 DEF D!get_vm_config
  <2> QED
    BY <1>5, <2>2, <2>3 DEF DiscoverySteps
<1>6. CASE DiscoverySucceeds
  <2>1. /\ UNCHANGED <<place, active_set, blocked>>
        /\ age' = 0 /\ luns' = found /\ phase = "Reading"
    BY <1>6 DEF DiscoverySucceeds, D!Publish, loopVars
  <2>2. phase' # "Reading"
    BY <1>6 DEF DiscoverySucceeds, D!Publish, D!Sleep
  <2> QED
    BY <1>1, <1>2, <1>3, <2>1, <2>2
<1>7. CASE DiscoveryFails
  <2>1. UNCHANGED <<luns, place, active_set, age, blocked>> /\ phase' # "Reading"
    BY <1>7 DEF DiscoveryFails, D!Fail, D!Sleep, loopVars
  <2> QED
    BY <1>1, <1>2, <1>3, <2>1
<1>8. CASE MainThread
  <2>1. UNCHANGED <<running, phase, todo, found, luns, age, busy>>
    BY <1>8 DEF MainThread, SkipStale, StartPoll, QueryAnswered, QueryFails, ReplyRejected,
       Evaluate, FencingReturns, discoveryVars, clockVars
  <2>2. CASE SkipStale
    BY <1>1, <1>2, <1>3, <2>1, <2>2 DEF SkipStale
  <2>3. CASE StartPoll
    BY <1>1, <1>2, <1>3, <2>1, <2>3 DEF StartPoll
  <2>4. CASE QueryAnswered
    BY <1>1, <1>2, <1>3, <2>1, <2>4 DEF QueryAnswered
  <2>5. CASE QueryFails \/ ReplyRejected \/ Evaluate \/ FencingReturns
    <3>1. place' \notin {"QueryMaps", "QueryConfig"}
      BY <2>5 DEF QueryFails, ReplyRejected, EndPoll, Evaluate, FencingReturns
    <3> QED
      BY <1>1, <1>2, <1>3, <2>1, <3>1
  <2> QED
    BY <1>8, <2>2, <2>3, <2>4, <2>5 DEF MainThread
<1> QED
  BY <1>4, <1>5, <1>6, <1>7, <1>8 DEF DiscoveryThread

\* Without LUNs nothing is monitored, so nothing is decided.
LEMMA DecisionHasLuns ==
  ASSUME Evaluate, triggered'
  PROVE  active_set # {}
<1> SUFFICES ASSUME active_set = {} PROVE FALSE
  OBVIOUS
<1>1. F!MonitoredMaps(maps, active_set) = {}
  BY DEF F!MonitoredMaps, F!IsActive
<1>2. triggered' = FALSE
  BY <1>1 DEF Evaluate, F!update_with_maps, F!NothingMonitored, F!StorageHealthy,
     F!StorageFailing
<1> QED
  BY <1>2
-----------------------------------------------------------------------------
\* The daemon that is told of its blindness and decides for VMs that have run, at every
\* moment: the invariant behind both.
ToldInv == TypeInv /\ CounterDecides /\ BlindInv /\ VacantInv

LEMMA ToldStep == ToldInv /\ [ObserverNext]_vars => ToldInv'
<1> SUFFICES ASSUME ToldInv, [ObserverNext]_vars PROVE ToldInv'
  OBVIOUS
<1> USE DEF ToldInv
<1>1. TypeInv' /\ [DaemonNext]_daemonVars
  BY TypeInvStep, ObservedStep
<1>2. CounterDecides'
  BY <1>1, CounterStep
<1>3. CASE Tick /\ OnTick
  BY <1>1, <1>2, <1>3, BlindTick, VacantTick
<1>4. CASE (VMsChange \/ StorageChanges \/ DiscoveryThread \/ MainThread) /\ OnStep
  BY <1>1, <1>2, <1>4, BlindStep, VacantStep
<1>5. CASE UNCHANGED vars
  <2>1. BlindInv'
    BY <1>5 DEF BlindInv, BlindnessShown, vars, observer, daemonVars, config, loopVars,
       clockVars, fencerVars
  <2>2. VacantInv'
    BY <1>5 DEF VacantInv, is_stale, vars, observer, daemonVars, config, loopVars,
       clockVars, discoveryVars
  <2> QED
    BY <1>1, <1>2, <2>1, <2>2
<1> QED
  BY <1>3, <1>4, <1>5 DEF ObserverNext

\* What the daemon knows and tells stays within its times.
THEOREM ToldInductive == ObserverSpec => []ToldInv
<1>1. ObserverInit => ToldInv
  BY TypeInvInit, InitTimed DEF ToldInv
<1> QED
  BY <1>1, ToldStep, PTL DEF ObserverSpec

\* A daemon that has not evaluated the storage for longer than a poll and two queries
\* take says so in its status, for every interval, duration of a query, number of VMs
\* and combination of faults but the replies it rejects.
THEOREM BlindnessCorrect == ObserverSpec => []BlindnessIsVisible
<1>1. ToldInv => BlindnessIsVisible
  BY DEF ToldInv, BlindInv, BlindnessIsVisible
<1> QED
  BY <1>1, ToldInductive, PTL

\* A decision to fence is never for VMs that have been gone for longer than the staleness
\* limit, a discovery and two queries, whatever else fails.
THEOREM DecisionsCorrect == ObserverSpec => DecisionsUseCurrentVMs
<1> DEFINE Recent ==
      Evaluate /\ triggered' /\ "discovery_hangs" \notin faults =>
        vacant <= MaxAge + DiscoveryTicks + 2 * QueryTicks
<1>1. ToldInv => Recent
  <2> SUFFICES ASSUME ToldInv, Evaluate, triggered', "discovery_hangs" \notin faults
               PROVE  vacant <= MaxAge + DiscoveryTicks + 2 * QueryTicks
    OBVIOUS
  <2>1. place = "QueryConfig" /\ active_set # {}
    BY DecisionHasLuns DEF Evaluate
  <2>2. vacant <= MaxAge + DiscoveryTicks + QueryTicks + blocked
    BY <2>1 DEF ToldInv, VacantInv
  <2>3. /\ vacant \in Nat /\ blocked \in 0 .. QueryTicks /\ MaxAge \in Nat
        /\ QueryTicks \in Nat /\ DiscoveryTicks \in Nat
    BY WatchBounds, Parameters DEF ToldInv, TypeInv, Types, WatchTypes, ClockTypes, MaxAge
  <2> QED
    BY <2>2, <2>3
<1>2. ToldInv /\ [ObserverNext]_vars => [Recent]_vars
  BY <1>1
<1> QED
  BY <1>2, ToldInductive, PTL DEF ObserverSpec, DecisionsUseCurrentVMs
-----------------------------------------------------------------------------
(* A loss that lasts is counted by every poll, and fenced in time.         *)

LEMMA PollFacts ==
  PollTicks \in Nat /\ poll_interval <= PollTicks /\ 2 * QueryTicks <= PollTicks
BY Parameters DEF PollTicks

\* So many polls take as many times as long.
LEMMA MorePolls ==
  ASSUME NEW m \in Nat, NEW n \in Nat, m <= n
  PROVE  /\ m * PollTicks \in Nat /\ n * PollTicks \in Nat
         /\ m * PollTicks <= n * PollTicks
         /\ (m + 1) * PollTicks = m * PollTicks + PollTicks
         /\ 1 * PollTicks = PollTicks
<1>1. PICK d \in Nat : n = m + d
  <2>1. n - m \in Nat /\ n = m + (n - m)
    OBVIOUS
  <2> QED
    BY <2>1
<1>2. PICK p \in Nat : PollTicks = p
  BY PollFacts
<1>3. (m + d) * p = m * p + d * p /\ d * p \in Nat /\ m * p \in Nat
  OBVIOUS
<1>4. (m + 1) * p = m * p + p /\ 1 * p = p
  OBVIOUS
<1> QED
  BY <1>1, <1>2, <1>3, <1>4

\* The next poll starts within the time of one.
LEMMA LeftFacts == ClockTypes /\ LoopTypes => Left \in Nat /\ Left <= PollTicks
<1> SUFFICES ASSUME ClockTypes, LoopTypes PROVE Left \in Nat /\ Left <= PollTicks
  OBVIOUS
<1>1. /\ untilPoll \in Int /\ untilPoll <= poll_interval /\ blocked \in 0 .. QueryTicks
      /\ QueryTicks \in Nat /\ poll_interval \in Nat
  BY Parameters DEF ClockTypes
<1>2. QueriesLeft \in Nat /\ QueriesLeft <= 2 * QueryTicks
  BY <1>1 DEF QueriesLeft, LoopTypes
<1> QED
  BY <1>1, <1>2, PollFacts DEF Left, LargerOf

\* The times that are left after a step are in their types, too.
LEMMA LeftFactsNext == ClockTypes' /\ LoopTypes' => (Left \in Nat /\ Left <= PollTicks)'
BY LeftFacts, PTL

\* A poll that sees the loss of every LUN that it works with counts a failure.
LEMMA LossIsCounted ==
  ASSUME TypeInv, CounterDecides, ~triggered, SeesLoss, Evaluate
  PROVE  consecutive_failures' = consecutive_failures + 1
<1> DEFINE monitored == F!MonitoredMaps(maps, active_set)
<1>1. \A lun \in active_set : F!GroupFailed(lun, monitored)
  <2> SUFFICES ASSUME NEW lun \in active_set PROVE F!GroupFailed(lun, monitored)
    OBVIOUS
  <2>1. PICK m \in maps : lun \cap F!Idents(m) # {} /\ F!IsTargeted(m) /\ F!is_map_dead(m)
    BY DEF SeesLoss, LunLost, Evaluate
  <2>2. m \in monitored
    BY <2>1 DEF F!MonitoredMaps, F!IsActive
  <2>3. m.name \in F!DeadNow(monitored)
    BY <2>1, <2>2 DEF F!DeadNow
  <2> QED
    BY <2>1, <2>2, <2>3 DEF F!GroupFailed
<1>2. monitored # {}
  BY <1>1 DEF SeesLoss, F!GroupFailed
<1>3. F!FencingCondition(monitored, active_set)
  BY <1>1 DEF F!FencingCondition
<1> HIDE DEF monitored
<1>4. consecutive_failures' = F!SaturatingInc(consecutive_failures)
  BY <1>2, <1>3 DEF Evaluate, F!update_with_maps, F!NothingMonitored, F!StorageHealthy,
     F!StorageFailing, monitored
<1>5. consecutive_failures < U64_MAX
  <2>1. consecutive_failures \in Nat
    BY DEF TypeInv, Types, F!TypeOK
  <2>2. ~(consecutive_failures >= max_failures)
    BY DEF CounterDecides
  <2> QED
    BY <2>1, <2>2, Parameters
<1> QED
  BY <1>4, <1>5 DEF F!SaturatingInc

\* While nothing fails, the published LUNs are renewed before they are stale.
LEMMA PublishedStep ==
  ASSUME TypeInv, PublishedInTime, faults = {}, [DaemonNext]_daemonVars
  PROVE  PublishedInTime'
<1> USE DEF PublishedInTime
<1>1. /\ age \in Nat /\ untilWake \in Nat /\ busy \in 0 .. DiscoveryTicks
      /\ DiscoveryTicks \in Nat /\ discovery_interval \in Nat
      /\ phase \in {"Listing", "Reading", "Sleeping"}
  BY Parameters DEF TypeInv, Types, ClockTypes, AgeCap, MaxAge, D!DiscoveryTypeOK
<1>2. CASE DiscoverySucceeds
  <2>1. /\ phase' = "Sleeping" /\ delay' = discovery_interval
        /\ age' = 0 /\ untilWake' = delay' /\ busy' = 0
    BY <1>2, PublishTyped DEF DiscoverySucceeds, TypeInv, Types
  <2> QED
    BY <1>1, <2>1
<1>3. CASE DiscoverySteps
  <2>1. phase # "Sleeping" /\ phase' # "Sleeping" /\ UNCHANGED <<age, busy>>
    BY <1>3 DEF DiscoverySteps, D!list_running_vms, D!get_vm_config, clockVars
  <2> QED
    BY <1>1, <2>1
<1>4. CASE DiscoveryWakes
  <2>1. /\ phase = "Sleeping" /\ untilWake = 0 /\ phase' = "Listing"
        /\ UNCHANGED <<age, busy>>
    BY <1>4 DEF DiscoveryWakes, D!Wake, clockVars
  <2> QED
    BY <1>1, <2>1
<1>5. CASE Tick
  <2>1. UNCHANGED phase
    BY <1>5 DEF Tick, discoveryVars
  <2>2. PICK a \in Nat : age' = a /\ a <= age + 1
    BY <1>1, <1>5, Parameters DEF Tick, D!AtMost, AgeCap, MaxAge
  <2>3. CASE phase = "Sleeping"
    <3>1. untilWake' = untilWake - 1 /\ UNCHANGED busy
      BY <1>5, <2>3 DEF Tick
    <3> QED
      BY <1>1, <2>1, <2>2, <2>3, <3>1
  <2>4. CASE phase # "Sleeping"
    <3>1. busy' = busy + 1
      BY <1>1, <1>5, <2>4 DEF Tick, DiscoveryMayWait, D!AtMost
    <3> QED
      BY <1>1, <2>1, <2>2, <2>4, <3>1
  <2> QED
    BY <2>3, <2>4
<1>6. CASE VMsChange \/ StorageChanges \/ MainThread \/ UNCHANGED daemonVars
  <2>1. UNCHANGED <<phase, age, untilWake, busy>>
    BY <1>6 DEF VMsChange, D!VMsChange, StorageChanges, MainThread, SkipStale, StartPoll,
       QueryAnswered, QueryFails, ReplyRejected, Evaluate, FencingReturns, daemonVars,
       discoveryVars, clockVars
  <2> QED
    BY <2>1
<1> QED
  BY <1>2, <1>3, <1>4, <1>5, <1>6 DEF DaemonNext, DiscoveryThread, DiscoveryFails

\* Without exposure there is nothing to have counted.
LEMMA NoExposure == ClockTypes /\ LoopTypes /\ F!TypeOK /\ exposure = 0 => LossCounted
<1> SUFFICES ASSUME ClockTypes, LoopTypes, F!TypeOK, exposure = 0 PROVE LossCounted
  OBVIOUS
<1>1. Left \in Nat /\ Left <= PollTicks /\ PollTicks \in Nat
  BY LeftFacts, PollFacts
<1>2. \A n \in Nat : n > 0 => Within(n)
  <2> SUFFICES ASSUME NEW n \in Nat, n > 0 PROVE Within(n)
    OBVIOUS
  <2>1. 1 * PollTicks <= n * PollTicks /\ 1 * PollTicks = PollTicks /\ n * PollTicks \in Nat
    BY MorePolls
  <2> QED
    BY <1>1, <2>1 DEF Within
<1>3. Within(1) /\ Within(consecutive_failures + 1)
  <2>1. consecutive_failures + 1 \in Nat /\ consecutive_failures + 1 > 0
    BY DEF F!TypeOK
  <2> QED
    BY <1>2, <2>1
<1>4. ~(exposure > 0)
  OBVIOUS
<1> QED
  BY <1>3, <1>4, Zenon DEF LossCounted

LEMMA NoExposureNext ==
  (ClockTypes /\ LoopTypes /\ F!TypeOK /\ exposure = 0 => LossCounted)'
BY NoExposure, PTL

\* A tick adds to the exposure what it takes from the time to the next poll.
LEMMA LossTick ==
  ASSUME TypeInv, TypeInv', CounterDecides, LossCounted, Tick, OnTick
  PROVE  LossCounted'
<1>1. CASE exposure' = 0
  BY <1>1, NoExposureNext DEF TypeInv, Types
<1>2. CASE exposure' # 0
  <2>1. /\ UNCHANGED <<place, active_set, maps, consecutive_failures, triggered, luns, storage>>
        /\ Lost /\ ~triggered
    BY <1>2 DEF Tick, OnTick, loopVars, fencerVars, discoveryVars
  <2>2. Lost' /\ ~triggered' /\ (SeesLoss => SeesLoss')
    BY <2>1 DEF Lost, SeesLoss
  <2>3. PICK e \in Nat : exposure' = e /\ e <= exposure + 1
    BY <2>1, LaterTyped, WatchBounds DEF OnTick, TypeInv, Types, WatchTypes
  <2>4. PICK l \in Nat : Left' = l /\ l + 1 <= Left
    <3> USE Parameters DEF TypeInv, Types, ClockTypes, LoopTypes
    <3>1. PICK u \in Int :
            /\ untilPoll' = u
            /\ u = IF untilPoll > -MaxLag THEN untilPoll - 1 ELSE untilPoll
      BY DEF Tick
    <3>2. CASE place = "Waiting"
      <4>1. untilPoll > 0
        BY <3>2 DEF Tick, LoopMayWait
      <4>2. Left = untilPoll /\ Left' = u
        BY <2>1, <3>1, <3>2, <4>1 DEF Left, LargerOf, QueriesLeft
      <4> QED
        BY <3>1, <4>1, <4>2
    <3>3. CASE place \in {"QueryMaps", "QueryConfig"}
      <4>1. blocked < QueryTicks /\ blocked' = blocked + 1
        BY <3>3 DEF Tick, LoopMayWait
      <4>2. PICK q \in Nat : QueriesLeft = q + 1 /\ QueriesLeft' = q
        <5>1. CASE place = "QueryMaps"
          <6> DEFINE r == 2 * QueryTicks - blocked - 1
          <6>1. r \in Nat /\ QueriesLeft = r + 1 /\ QueriesLeft' = r
            BY <2>1, <4>1, <5>1 DEF QueriesLeft
          <6> QED
            BY <6>1
        <5>2. CASE place = "QueryConfig"
          <6> DEFINE r == QueryTicks - blocked - 1
          <6>1. r \in Nat /\ QueriesLeft = r + 1 /\ QueriesLeft' = r
            BY <2>1, <4>1, <5>2 DEF QueriesLeft
          <6> QED
            BY <6>1
        <5> QED
          BY <3>3, <5>1, <5>2
      <4> QED
        BY <3>1, <4>2 DEF Left, LargerOf
    <3>4. place # "Fencing"
      BY <2>1 DEF CounterDecides
    <3> QED
      BY <3>2, <3>3, <3>4
  <2>5. ASSUME NEW n \in Nat, Within(n) PROVE (Within(n))'
    <3>1. exposure \in Nat /\ Left \in Nat
      BY LeftFacts, WatchBounds DEF TypeInv, Types, WatchTypes
    <3>2. n <= n /\ n * PollTicks \in Nat
      BY MorePolls
    <3> QED
      BY <2>3, <2>4, <2>5, <3>1, <3>2 DEF Within
  <2>6. consecutive_failures + 1 \in Nat /\ consecutive_failures + 2 \in Nat
    BY DEF TypeInv, Types, F!TypeOK
  <2> QED
    BY <2>1, <2>2, <2>5, <2>6 DEF LossCounted
<1> QED
  BY <1>1, <1>2

\* No other step adds to the exposure, and a poll that ends has counted it.
LEMMA LossStep ==
  ASSUME TypeInv, TypeInv', CounterDecides, PublishedInTime, LossCounted, OnStep,
         faults = {}, DiscoveryTicks <= discovery_interval,
         VMsChange \/ StorageChanges \/ DiscoveryThread \/ MainThread
  PROVE  LossCounted'
<1>1. CASE exposure' = 0
  BY <1>1, NoExposureNext DEF TypeInv, Types
<1>2. CASE exposure' # 0
  <2> DEFINE n == consecutive_failures
  <2>1. exposure \in Nat /\ exposure' \in Nat /\ n \in Nat /\ n' \in Nat
    BY WatchBounds DEF TypeInv, Types, WatchTypes, LoopTypes, F!TypeOK
  <2>2. exposure' = exposure /\ Lost' /\ ~triggered'
    BY <1>2 DEF OnStep
  <2>3. exposure > 0 /\ Lost /\ ~triggered
    BY <1>2, <2>1, <2>2 DEF LossCounted
  <2>4. Left \in Nat /\ Left <= PollTicks /\ PollTicks \in Nat
    BY LeftFacts, PollFacts DEF TypeInv, Types
  <2>5. PICK l \in Nat : Left' = l /\ l <= PollTicks
    BY LeftFactsNext DEF TypeInv, Types
  <2>6. ASSUME NEW k \in Nat, Within(k), l <= Left PROVE (Within(k))'
    <3>1. k <= k /\ k * PollTicks \in Nat
      BY MorePolls
    <3> QED
      BY <2>1, <2>2, <2>4, <2>5, <2>6, <3>1 DEF Within
  <2>7. n + 1 \in Nat /\ n + 2 \in Nat
    BY <2>1
  <2>8. CASE VMsChange \/ StorageChanges \/ DiscoveryThread
    <3>1. /\ UNCHANGED <<place, active_set, maps, untilPoll, blocked, consecutive_failures>>
      BY <2>8 DEF VMsChange, StorageChanges, DiscoveryThread, DiscoverySteps, DiscoverySucceeds,
         DiscoveryFails, DiscoveryWakes, loopVars, fencerVars, clockVars
    <3>2. Left' = Left /\ (SeesLoss => SeesLoss')
      BY <3>1 DEF Left, QueriesLeft, SeesLoss
    <3>3. l <= Left
      BY <2>4, <2>5, <3>2
    <3> QED
      BY <2>2, <2>3, <2>6, <2>7, <3>1, <3>2, <3>3 DEF LossCounted
  <2>9. CASE SkipStale
    <3>1. /\ age \in Nat /\ untilWake \in Nat /\ busy \in 0 .. DiscoveryTicks
          /\ DiscoveryTicks \in Nat /\ discovery_interval \in Nat
      BY Parameters DEF TypeInv, Types, ClockTypes, AgeCap, MaxAge
    <3>2. age <= MaxAge
      BY <3>1 DEF PublishedInTime, MaxAge
    <3> QED
      BY <2>9, <3>1, <3>2 DEF SkipStale, is_stale, MaxAge
  <2>10. CASE StartPoll
    <3>1. /\ place = "Waiting" /\ place' = "QueryMaps" /\ active_set' = luns
          /\ UNCHANGED <<luns, consecutive_failures>>
      BY <2>10 DEF StartPoll, PollDue, discoveryVars, fencerVars
    <3>2. SeesLoss'
      BY <2>2, <3>1 DEF SeesLoss, Lost
    <3>3. exposure <= (n + 1) * PollTicks
      <4>1. n + 1 <= n + 1 /\ (n + 1) * PollTicks \in Nat
        BY <2>7, MorePolls
      <4> QED
        BY <2>1, <2>4, <3>1, <4>1 DEF LossCounted, Within
    <3>4. (n + 2) * PollTicks = (n + 1) * PollTicks + PollTicks /\ (n + 1) * PollTicks \in Nat
      <4>1. n + 1 <= n + 1 /\ n + 2 = (n + 1) + 1
        BY <2>1
      <4> QED
        BY <2>7, <4>1, MorePolls
    <3>5. (Within(n + 2))'
      BY <2>1, <2>2, <2>4, <2>5, <3>1, <3>3, <3>4 DEF Within
    <3> QED
      BY <2>2, <3>1, <3>2, <3>5 DEF LossCounted
  <2>11. CASE QueryAnswered
    <3>1. /\ place = "QueryMaps" /\ place' = "QueryConfig" /\ maps' = storage /\ blocked' = 0
          /\ UNCHANGED <<luns, storage, active_set, untilPoll, consecutive_failures>>
      BY <2>11 DEF QueryAnswered, discoveryVars, fencerVars
    <3>2. SeesLoss => SeesLoss'
      BY <2>2, <3>1 DEF SeesLoss, Lost
    <3>3. l <= Left
      <4>1. blocked \in 0 .. QueryTicks /\ QueryTicks \in Nat /\ untilPoll \in Int
        BY Parameters DEF TypeInv, Types, ClockTypes
      <4>2. QueriesLeft' = QueryTicks /\ QueriesLeft \in Nat /\ QueryTicks <= QueriesLeft
        BY <3>1, <4>1 DEF QueriesLeft
      <4> QED
        BY <2>5, <3>1, <4>1, <4>2 DEF Left, LargerOf
    <3> QED
      BY <2>2, <2>3, <2>6, <2>7, <3>1, <3>2, <3>3 DEF LossCounted
  <2>12. CASE QueryFails \/ ReplyRejected
    BY <2>12 DEF QueryFails, ReplyRejected
  <2>13. CASE Evaluate
    <3>1. place = "QueryConfig" /\ place' = "Waiting" /\ UNCHANGED untilPoll
      BY <2>2, <2>13 DEF Evaluate
    <3>2. l <= Left
      <4>1. untilPoll \in Int /\ QueriesLeft \in Nat /\ QueriesLeft' = 0
        <5>1. blocked \in 0 .. QueryTicks /\ QueryTicks \in Nat /\ untilPoll \in Int
          BY Parameters DEF TypeInv, Types, ClockTypes
        <5> QED
          BY <3>1, <5>1 DEF QueriesLeft
      <4> QED
        BY <2>5, <3>1, <4>1 DEF Left, LargerOf
    <3>3. CASE Within(1)
      <4>1. (Within(1))'
        BY <2>6, <3>2, <3>3
      <4>2. PICK c \in Nat : n' = c
        BY <2>1
      <4>3. /\ 1 * PollTicks \in Nat /\ (c + 1) * PollTicks \in Nat
            /\ 1 * PollTicks <= (c + 1) * PollTicks
        BY MorePolls
      <4>4. (Within(n + 1))'
        BY <2>1, <2>2, <2>5, <4>1, <4>2, <4>3 DEF Within
      <4> QED
        BY <2>2, <3>1, <4>4 DEF LossCounted
    <3>4. CASE SeesLoss /\ Within(n + 2)
      <4>1. n' = n + 1
        BY <2>3, <2>13, <3>4, LossIsCounted
      <4>2. n + 2 <= n + 2 /\ (n + 2) * PollTicks \in Nat
        BY <2>7, MorePolls
      <4>3. PICK c \in Nat : n' = c /\ c + 1 = n + 2
        BY <2>1, <4>1
      <4>4. (c + 1) * PollTicks = (n + 2) * PollTicks
        BY <4>3
      <4>5. exposure + l <= (c + 1) * PollTicks
        BY <2>1, <2>4, <3>2, <3>4, <4>2, <4>4 DEF Within
      <4>6. (Within(n + 1))'
        BY <2>2, <2>5, <4>3, <4>5 DEF Within
      <4> QED
        BY <2>2, <3>1, <4>6 DEF LossCounted
    <3> QED
      BY <3>1, <3>3, <3>4 DEF LossCounted
  <2>14. CASE FencingReturns
    BY <2>3, <2>14 DEF FencingReturns, CounterDecides
  <2> QED
    BY <2>8, <2>9, <2>10, <2>11, <2>12, <2>13, <2>14 DEF MainThread
<1> QED
  BY <1>1, <1>2
-----------------------------------------------------------------------------
\* The daemon whose storage is lost, counted poll by poll.
CountedInv == TypeInv /\ CounterDecides /\ LossInv

LEMMA CountedStep ==
  ASSUME DiscoveryTicks <= discovery_interval
  PROVE  CountedInv /\ [ObserverNext]_vars => CountedInv'
<1> SUFFICES ASSUME CountedInv, [ObserverNext]_vars PROVE CountedInv'
  OBVIOUS
<1> USE DEF CountedInv
<1>1. TypeInv' /\ [DaemonNext]_daemonVars
  BY TypeInvStep, ObservedStep
<1>2. CounterDecides'
  BY <1>1, CounterStep
<1>3. ASSUME faults' = {} PROVE PublishedInTime' /\ LossCounted'
  <2>1. faults = {}
    BY <1>1, <1>3, FaultsAreFixed DEF config
  <2>2. PublishedInTime /\ LossCounted
    BY <2>1 DEF LossInv
  <2>3. PublishedInTime'
    BY <1>1, <2>1, <2>2, PublishedStep
  <2>4. CASE Tick /\ OnTick
    BY <1>1, <2>2, <2>3, <2>4, LossTick
  <2>5. CASE (VMsChange \/ StorageChanges \/ DiscoveryThread \/ MainThread) /\ OnStep
    BY <1>1, <2>1, <2>2, <2>3, <2>5, LossStep
  <2>6. CASE UNCHANGED vars
    BY <2>2, <2>3, <2>6 DEF LossCounted, Within, Left, QueriesLeft, SeesLoss, Lost, vars, observer,
       daemonVars, loopVars, clockVars, fencerVars, discoveryVars
  <2> QED
    BY <2>3, <2>4, <2>5, <2>6 DEF ObserverNext
<1> QED
  BY <1>1, <1>2, <1>3 DEF LossInv

\* A loss that lasts has been counted by every poll since it began, and the set that the
\* polls work with is never too old, when a discovery is no slower than its interval.
THEOREM CountedInductive ==
  ASSUME DiscoveryTicks <= discovery_interval
  PROVE  ObserverSpec => []CountedInv
<1>1. ObserverInit => CountedInv
  BY TypeInvInit, InitTimed DEF CountedInv
<1>2. CountedInv /\ [ObserverNext]_vars => CountedInv'
  BY CountedStep
<1> QED
  BY <1>1, <1>2, PTL DEF ObserverSpec

LEMMA CountedInTime ==
  ASSUME CountedInv
  PROVE  SustainedLossFences
<1> DEFINE n == consecutive_failures
<1> SUFFICES ASSUME faults = {} PROVE exposure <= FenceBound
  BY DEF SustainedLossFences
<1>1. /\ exposure \in Nat /\ n \in Nat /\ Left \in Nat /\ max_failures \in Nat
      /\ place \in {"Waiting", "QueryMaps", "QueryConfig", "Fencing"}
  BY LeftFacts, WatchBounds, Parameters
     DEF CountedInv, TypeInv, Types, WatchTypes, LoopTypes, F!TypeOK
<1>2. FenceBound \in Nat
  BY <1>1, MorePolls DEF FenceBound
<1>3. CASE exposure = 0
  BY <1>2, <1>3
<1>4. CASE exposure > 0
  <2>1. Lost /\ ~triggered /\ n < max_failures /\ place # "Fencing"
    BY <1>1, <1>4 DEF CountedInv, CounterDecides, LossInv, LossCounted
  <2>2. ASSUME NEW k \in Nat, k <= max_failures + 1, Within(k) PROVE exposure <= FenceBound
    <3>1. k * PollTicks \in Nat /\ k * PollTicks <= (max_failures + 1) * PollTicks
      BY <1>1, <2>2, MorePolls
    <3> QED
      BY <1>1, <1>2, <2>2, <3>1 DEF Within, FenceBound
  <2>3. /\ 1 \in Nat /\ 1 <= max_failures + 1
        /\ n + 1 \in Nat /\ n + 1 <= max_failures + 1
        /\ n + 2 \in Nat /\ n + 2 <= max_failures + 1
    BY <1>1, <2>1
  <2> QED
    BY <1>1, <2>1, <2>2, <2>3 DEF CountedInv, LossInv, LossCounted
<1> QED
  BY <1>1, <1>3, <1>4

\* A node that has lost every LUN in use is fenced within max_failures + 1 polls, for
\* every threshold, interval, duration of a query, set of VMs and of LUNs, and whatever
\* the VMs, the storage and the interleaving of the two threads do meanwhile.
THEOREM SustainedLossCorrect ==
  ASSUME DiscoveryTicks <= discovery_interval
  PROVE  ObserverSpec => []SustainedLossFences
<1>1. ObserverSpec => []CountedInv
  BY CountedInductive
<1>2. CountedInv => SustainedLossFences
  BY CountedInTime
<1> QED
  BY <1>1, <1>2, PTL
=============================================================================
