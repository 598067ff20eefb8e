----------------------------- MODULE PartsProofs -----------------------------
(***************************************************************************)
(* Proofs about the two parts that the daemon is composed of: that the     *)
(* Fencer decides correctly for every set of replies and active sets, every*)
(* threshold and every list of target WWIDs, and that the issues of the    *)
(* discovery loop tell its state and it retries in time, for any VMs and   *)
(* LUNs and any delays and limits.                                         *)
(*                                                                         *)
(* The Fencer's decision is not inductive by itself: that a call asks for  *)
(* fencing exactly on a sustained loss needs the Fencer's memory to agree  *)
(* with the observer's history (MemoryAgrees) and its counter to agree     *)
(* with the observer's run (CounterAgrees).                                *)
(***************************************************************************)
EXTENDS FencerObserver, Discovery, TLAPS, FiniteSetTheorems

\* The Fencer's two sets are the observer's.
MemoryAgrees == had_working_paths = seen /\ permanently_broken_luns = dark

\* The observer counts to max_failures, the Fencer to U64_MAX.
CounterAgrees ==
  lossRun = IF consecutive_failures < max_failures
            THEN consecutive_failures ELSE max_failures

\* A latched map was judged dead when it was last evaluated.
LatchedIsDead ==
  \A n \in permanently_broken_luns :
    n \in DOMAIN previous_map_states => previous_map_states[n]

IInv ==
  /\ AllTypesOK
  /\ MemoryAgrees
  /\ CounterAgrees
  /\ FenceExactlyOnSustainedLoss
  /\ MemoryPruned
  /\ LatchedIsDead
  /\ FailureIsVisible
-----------------------------------------------------------------------------
\* What a call monitors is part of the reply, so its names are map names and
\* two monitored maps with one name are the same map.
LEMMA MonitoredFacts ==
  ASSUME NEW maps \in Replies, NEW active_luns \in ActiveSets,
         NEW monitored, monitored = MonitoredMaps(maps, active_luns)
  PROVE  /\ NamesOf(monitored) \subseteq MapNames
         /\ \A m1, m2 \in monitored : m1.name = m2.name => m1 = m2
<1>1. monitored \subseteq maps
  BY DEF MonitoredMaps
<1>2. \A m \in monitored : m.name \in MapNames
  BY <1>1, RepliesAssumption
<1>3. ASSUME NEW m1 \in monitored, NEW m2 \in monitored, m1.name = m2.name
      PROVE  m1 = m2
  <2>1. m1.name \in Idents(m1) \cap Idents(m2)
    BY <1>3 DEF Idents
  <2> QED
    BY <1>1, <2>1, RepliesAssumption
<1> QED
  BY <1>2, <1>3 DEF NamesOf

\* The pruned sets of the Fencer are the observer's sets, one reply later.
LEMMA MemoryStep ==
  ASSUME NEW monitored,
         \A m1, m2 \in monitored : m1.name = m2.name => m1 = m2,
         NEW listing, listing = {m.name : m \in {x \in monitored : HasPaths(x)}},
         MemoryAgrees
  PROVE  /\ WorkingNow(monitored) \cap NamesOf(monitored) =
              (seen \cap NamesOf(monitored)) \cup listing
         /\ BrokenNow(monitored) \cap NamesOf(monitored) =
              (dark \cap NamesOf(monitored)) \cup
                (seen \cap (NamesOf(monitored) \ listing))
BY DEF MemoryAgrees, WorkingNow, BrokenNow, NamesOf

\* A monitored map is judged dead when its report shows no usable path or its
\* name is latched.
LEMMA DeadMap ==
  ASSUME NEW monitored, NEW m \in monitored,
         \A m1, m2 \in monitored : m1.name = m2.name => m1 = m2
  PROVE  m.name \in DeadNow(monitored) <=>
           is_map_dead(m) \/ m.name \in BrokenNow(monitored) \cap NamesOf(monitored)
BY DEF DeadNow, NamesOf

\* The condition computed LUN by LUN and part by part is the observer's loss.
LEMMA ConditionIsLoss ==
  ASSUME NEW monitored, NEW active_luns,
         \A m1, m2 \in monitored : m1.name = m2.name => m1 = m2,
         monitored # {},
         NEW gone, gone = BrokenNow(monitored) \cap NamesOf(monitored)
  PROVE  FencingCondition(monitored, active_luns) <=> Loss(monitored, active_luns, gone)
<1>1. ASSUME NEW lun
      PROVE  GroupFailed(lun, monitored) <=> LunLost(lun, monitored, gone)
  <2>1. \A m \in monitored : m.name \in DeadNow(monitored) <=>
                               is_map_dead(m) \/ m.name \in gone
    BY DeadMap
  <2> QED
    BY <2>1 DEF GroupFailed, LunLost
<1> QED
  BY <1>1 DEF FencingCondition, Loss
-----------------------------------------------------------------------------
LEMMA InitIInv == ObserverInit => IInv
<1> SUFFICES ASSUME ObserverInit PROVE IInv
  OBVIOUS
<1>1. previous_map_states \in [{} -> BOOLEAN]
  BY DEF ObserverInit, Init
<1>2. previous_map_states \in UNION {[S -> BOOLEAN] : S \in SUBSET MapNames}
  BY <1>1
<1>3. triggered \in BOOLEAN /\ evaluated \in BOOLEAN
  BY DEF ObserverInit, Init
<1>4. /\ consecutive_failures \in 0 .. U64_MAX
      /\ lossRun \in 0 .. max_failures
  BY ThresholdAssumption DEF ObserverInit, Init
<1>5. AllTypesOK
  BY <1>2, <1>3, <1>4 DEF ObserverInit, Init, AllTypesOK, TypeOK, ObserverTypeOK
<1> QED
  BY <1>5, ThresholdAssumption
     DEF IInv, ObserverInit, Init, MemoryAgrees, CounterAgrees,
         FenceExactlyOnSustainedLoss, MemoryPruned, LatchedIsDead,
         FailureIsVisible

\* A call that restarts the counter and does not ask for fencing.
LEMMA ResetFacts ==
  ASSUME consecutive_failures' = 0, lossRun' = 0, triggered' = FALSE
  PROVE  /\ consecutive_failures' \in 0 .. U64_MAX
         /\ triggered' \in BOOLEAN
         /\ lossRun' \in 0 .. max_failures
         /\ CounterAgrees'
         /\ FenceExactlyOnSustainedLoss'
         /\ FailureIsVisible'
<1>1. lossRun' # max_failures
  BY ThresholdAssumption
<1>2. FenceExactlyOnSustainedLoss'
  BY <1>1 DEF FenceExactlyOnSustainedLoss
<1>3. /\ consecutive_failures' \in 0 .. U64_MAX
      /\ lossRun' \in 0 .. max_failures
      /\ CounterAgrees'
      /\ FailureIsVisible'
  BY ThresholdAssumption DEF CounterAgrees, FailureIsVisible
<1> QED
  BY <1>2, <1>3

\* A reply that is evaluated keeps the inductive invariant.
LEMMA EvaluationStep ==
  ASSUME IInv, NEW maps \in Replies, NEW active_luns \in ActiveSets,
         update_with_maps(maps, active_luns), Observe(maps, active_luns)
  PROVE  IInv'
<1> DEFINE monitored == MonitoredMaps(maps, active_luns)
           names == NamesOf(monitored)
           listing == {m.name : m \in {x \in monitored : HasPaths(x)}}
<1>1. /\ names \subseteq MapNames
      /\ \A m1, m2 \in monitored : m1.name = m2.name => m1 = m2
  BY MonitoredFacts
<1>2. Track(monitored)
  BY DEF update_with_maps
<1>3. /\ previous_map_states' = [n \in names |-> n \in DeadNow(monitored)]
      /\ had_working_paths' = WorkingNow(monitored) \cap names
      /\ permanently_broken_luns' = BrokenNow(monitored) \cap names
  BY <1>2 DEF Track
<1>4. /\ seen' = (seen \cap names) \cup listing
      /\ dark' = (dark \cap names) \cup (seen \cap (names \ listing))
      /\ lossRun' = IF ~Loss(monitored, active_luns, dark') THEN 0
                    ELSE IF lossRun < max_failures THEN lossRun + 1 ELSE lossRun
      /\ evaluated' = TRUE
  BY DEF Observe
<1>5. MemoryAgrees'
  <2>1. MemoryAgrees
    BY DEF IInv
  <2> QED
    BY <1>1, <1>3, <1>4, <2>1, MemoryStep DEF MemoryAgrees
<1>6. MemoryPruned' /\ LatchedIsDead'
  <2>1. BrokenNow(monitored) \cap names \subseteq DeadNow(monitored)
    BY DEF DeadNow, NamesOf
  <2> QED
    BY <1>3, <2>1 DEF MemoryPruned, LatchedIsDead
<1>7. previous_map_states' \in [names -> BOOLEAN]
  BY <1>3
<1>8. /\ missing_dm_st' \subseteq MapNames
      /\ missing_path_groups' \subseteq MapNames
  <2>1. missing_path_groups \subseteq MapNames
    BY DEF IInv, AllTypesOK, TypeOK
  <2>2. \A m \in monitored : m.name \in MapNames
    BY <1>1 DEF NamesOf
  <2> HIDE DEF monitored
  <2> QED
    BY <1>2, <2>1, <2>2 DEF Track
<1>9. /\ dark' = BrokenNow(monitored) \cap names
      /\ monitored # {} => (FencingCondition(monitored, active_luns) <=>
                              Loss(monitored, active_luns, dark'))
  <2>1. dark' = BrokenNow(monitored) \cap names
    BY <1>3, <1>5 DEF MemoryAgrees
  <2> QED
    BY <1>1, <2>1, ConditionIsLoss
<1>10. /\ consecutive_failures \in 0 .. U64_MAX
       /\ lossRun = IF consecutive_failures < max_failures
                    THEN consecutive_failures ELSE max_failures
       /\ fencing_issue \in {"None", "Warning", "Critical"}
  BY DEF IInv, AllTypesOK, TypeOK, CounterAgrees
<1>11. /\ consecutive_failures' \in 0 .. U64_MAX
       /\ triggered' \in BOOLEAN
       /\ fencing_issue' \in {"None", "Warning", "Critical"}
       /\ lossRun' \in 0 .. max_failures
       /\ CounterAgrees'
       /\ FenceExactlyOnSustainedLoss'
       /\ FailureIsVisible'
  <2> USE ThresholdAssumption
  <2>1. CASE NothingMonitored(monitored, active_luns)
    <3>1. ~Loss(monitored, active_luns, dark')
      BY <2>1 DEF NothingMonitored, Loss
    <3>2. /\ consecutive_failures' = 0
          /\ triggered' = FALSE
          /\ fencing_issue' = fencing_issue
          /\ lossRun' = 0
      BY <2>1, <3>1, <1>4 DEF NothingMonitored
    <3> QED
      BY <3>2, <1>10, ResetFacts
  <2>2. CASE StorageHealthy(monitored, active_luns)
    <3>1. ~Loss(monitored, active_luns, dark')
      BY <2>2, <1>9 DEF StorageHealthy
    <3>2. /\ consecutive_failures' = 0
          /\ triggered' = FALSE
          /\ fencing_issue' = "None"
          /\ lossRun' = 0
      BY <2>2, <3>1, <1>4 DEF StorageHealthy
    <3> QED
      BY <3>2, ResetFacts
  <2>3. CASE StorageFailing(monitored, active_luns)
    <3>1. lossRun' = IF lossRun < max_failures THEN lossRun + 1 ELSE lossRun
      BY <2>3, <1>4, <1>9 DEF StorageFailing
    <3>2. /\ consecutive_failures' = SaturatingInc(consecutive_failures)
          /\ triggered' = (consecutive_failures' >= max_failures)
          /\ fencing_issue' = IF triggered' THEN "Critical" ELSE "Warning"
      BY <2>3 DEF StorageFailing
    <3>3. /\ consecutive_failures' \in 0 .. U64_MAX
          /\ lossRun' \in 0 .. max_failures
          /\ CounterAgrees'
          /\ consecutive_failures' >= max_failures <=> lossRun' = max_failures
      BY <3>1, <3>2, <1>10 DEF SaturatingInc, CounterAgrees
    <3>4. /\ triggered' \in BOOLEAN
          /\ triggered' <=> consecutive_failures' >= max_failures
      <4> DEFINE reached == consecutive_failures' >= max_failures
      <4>1. reached \in BOOLEAN
        BY <3>3
      <4> HIDE DEF reached
      <4>2. triggered' = reached
        BY <3>2 DEF reached
      <4> QED
        BY <4>1, <4>2, Zenon DEF reached
    <3>5. FenceExactlyOnSustainedLoss'
      BY <3>3, <3>4, <1>4 DEF FenceExactlyOnSustainedLoss
    <3>6. fencing_issue' = IF consecutive_failures' >= max_failures
                           THEN "Critical" ELSE "Warning"
      BY <3>2
    <3>7. fencing_issue' \in {"None", "Warning", "Critical"} /\ FailureIsVisible'
      BY <3>6 DEF FailureIsVisible
    <3> QED
      BY <3>3, <3>4, <3>5, <3>7, Zenon
  <2> QED
    BY <2>1, <2>2, <2>3 DEF update_with_maps
<1>12. AllTypesOK'
  <2>1. /\ had_working_paths' \subseteq MapNames
        /\ permanently_broken_luns' \subseteq MapNames
        /\ seen' \subseteq MapNames
        /\ dark' \subseteq MapNames
    BY <1>1, <1>3, <1>5 DEF MemoryAgrees
  <2>2. previous_map_states' \in UNION {[S -> BOOLEAN] : S \in SUBSET MapNames}
    BY <1>1, <1>7
  <2>3. evaluated' \in BOOLEAN
    BY <1>4
  <2> QED
    BY <1>8, <1>11, <2>1, <2>2, <2>3 DEF AllTypesOK, TypeOK, ObserverTypeOK
<1> QED
  BY <1>5, <1>6, <1>11, <1>12 DEF IInv

\* A reply that cannot be parsed keeps it too: nothing is counted, no call asks.
LEMMA UnparsedStep ==
  ASSUME IInv, UpdateUnparsed, evaluated' = FALSE, UNCHANGED <<seen, dark, lossRun>>
  PROVE  IInv'
<1>1. UNCHANGED <<consecutive_failures, tracking, issues>> /\ triggered' = FALSE
  BY DEF UpdateUnparsed
<1> QED
  BY <1>1 DEF IInv, AllTypesOK, TypeOK, ObserverTypeOK, MemoryAgrees, CounterAgrees,
              FenceExactlyOnSustainedLoss, MemoryPruned, LatchedIsDead, FailureIsVisible,
              tracking, issues

\* The inductive invariant holds in every reachable state.
THEOREM Inductive == ObserverSpec => []IInv
<1>1. ASSUME IInv, [ObserverNext]_vars
      PROVE  IInv'
  <2>1. CASE ObserverNext
    BY <1>1, <2>1, EvaluationStep, UnparsedStep DEF ObserverNext
  <2>2. CASE UNCHANGED vars
    BY <1>1, <2>2 DEF IInv, AllTypesOK, TypeOK, ObserverTypeOK, MemoryAgrees,
         CounterAgrees, FenceExactlyOnSustainedLoss, MemoryPruned, LatchedIsDead,
         FailureIsVisible,
         vars, fencerVars, observer, tracking, issues
  <2> QED
    BY <1>1, <2>1, <2>2
<1> QED
  BY InitIInv, <1>1, PTL DEF ObserverSpec
-----------------------------------------------------------------------------
\* Every variable of the Fencer and of its observer stays in its type.
THEOREM TypesCorrect == ObserverSpec => []AllTypesOK
BY Inductive, PTL DEF IInv

\* update_with_maps returns true exactly after max_failures evaluations in a
\* row that showed a loss.
THEOREM FencingCorrect == ObserverSpec => []FenceExactlyOnSustainedLoss
BY Inductive, PTL DEF IInv

\* permanently_broken_luns holds exactly the maps that went dark.
THEOREM LatchCorrect == ObserverSpec => []LatchExact
<1>1. IInv => LatchExact
  BY DEF IInv, MemoryAgrees, LatchExact
<1> QED
  BY Inductive, <1>1, PTL

\* The Fencer's memory never exceeds the maps of the latest evaluated reply.
THEOREM MemoryBounded == ObserverSpec => []MemoryPruned
BY Inductive, PTL DEF IInv

\* A counted failure is in the status, at the level the counter calls for.
THEOREM StatusCorrect == ObserverSpec => []FailureIsVisible
BY Inductive, PTL DEF IInv

\* No reply clears the latch of a map that stays monitored.
THEOREM LatchPermanent == ObserverSpec => LatchOutlivesRecovery
<1> DEFINE Kept == \A n \in permanently_broken_luns :
                     n \in DOMAIN previous_map_states' => previous_map_states'[n]
<1>1. ASSUME IInv, ObserverNext PROVE Kept
  <2>1. CASE \E maps \in Replies, active_luns \in ActiveSets :
               update_with_maps(maps, active_luns) /\ Observe(maps, active_luns)
    <3>1. PICK maps \in Replies, active_luns \in ActiveSets :
                 update_with_maps(maps, active_luns)
      BY <2>1
    <3> DEFINE monitored == MonitoredMaps(maps, active_luns)
    <3>2. previous_map_states' =
            [n \in NamesOf(monitored) |-> n \in DeadNow(monitored)]
      BY <3>1 DEF update_with_maps, Track
    <3>3. permanently_broken_luns \cap NamesOf(monitored) \subseteq DeadNow(monitored)
      BY DEF DeadNow, BrokenNow, NamesOf
    <3> QED
      BY <3>2, <3>3
  <2>2. CASE UpdateUnparsed
    BY <1>1, <2>2 DEF IInv, LatchedIsDead, UpdateUnparsed, tracking
  <2> QED
    BY <1>1, <2>1, <2>2 DEF ObserverNext
<1> QED
  BY Inductive, <1>1, PTL DEF ObserverSpec, LatchOutlivesRecovery
-----------------------------------------------------------------------------
\* The discovery loop's types and the two promises are inductive together.
DiscoveryInv == DiscoveryTypeOK /\ IssuesTellFailures /\ RetriedInTime
-----------------------------------------------------------------------------
\* A power of two is a number: it is the number of subsets of as many elements.
LEMMA PowerIsNat ==
  ASSUME NEW n \in Nat
  PROVE  2 ^ n \in Nat
<1>1. IsFiniteSet(1 .. n) /\ Cardinality(1 .. n) = n
  BY FS_Interval
<1>2. IsFiniteSet(SUBSET (1 .. n)) /\ Cardinality(SUBSET (1 .. n)) = 2 ^ Cardinality(1 .. n)
  BY <1>1, FS_SUBSET
<1>3. Cardinality(SUBSET (1 .. n)) \in Nat
  BY <1>2, FS_CardinalityType
<1> QED
  BY <1>1, <1>2, <1>3

LEMMA AtMostFacts ==
  ASSUME NEW m \in Nat, NEW bound \in Nat
  PROVE  AtMost(m, bound) \in Nat /\ AtMost(m, bound) <= bound /\ AtMost(m, bound) <= m
BY DEF AtMost

\* Whatever the exponent, the delay of a failure is within the configured limit,
\* also where the power of two overflows.
LEMMA DelayBounded ==
  ASSUME NEW n \in Nat
  PROVE  BackoffDelay(n) \in Nat /\ BackoffDelay(n) <= discovery_backoff_max
<1>1. discovery_backoff_max \in Nat /\ discovery_backoff_base \in Nat /\ U64_BITS \in Nat
  BY DiscoveryAssumption
<1>2. PICK k \in Nat : k = AtMost(n, discovery_backoff_max)
  BY <1>1, AtMostFacts
<1>3. PICK p \in Nat : p = 2 ^ k
  BY PowerIsNat
<1>4. discovery_backoff_base * p \in Nat
  BY <1>1, <1>3
<1>5. CappedPower(n) = AtMost(discovery_backoff_base * p, discovery_backoff_max)
  BY <1>2, <1>3 DEF CappedPower
<1>6. CappedPower(n) \in Nat /\ CappedPower(n) <= discovery_backoff_max
  BY <1>1, <1>4, <1>5, AtMostFacts
<1> QED
  BY <1>1, <1>6 DEF BackoffDelay

\* The sleep that ends an iteration is within one of the two limits.
LEMMA SleepBounded ==
  ASSUME NEW failures \in Nat, Sleep(failures)
  PROVE  /\ phase' = "Sleeping" /\ delay' \in Nat
         /\ delay' <= discovery_interval \/ delay' <= discovery_backoff_max
<1>1. discovery_max_retries \in Nat /\ discovery_interval \in Nat /\ discovery_backoff_max \in Nat
  BY DiscoveryAssumption
<1>2. CASE BacksOff(failures)
  <2>1. PICK n \in Nat : n = failures - discovery_max_retries
    BY <1>1, <1>2 DEF BacksOff
  <2>2. delay' = BackoffDelay(n)
    BY <1>2, <2>1 DEF Sleep
  <2> QED
    BY <1>1, <2>2, DelayBounded DEF Sleep
<1>3. CASE ~BacksOff(failures)
  BY <1>1, <1>3 DEF Sleep
<1> QED
  BY <1>2, <1>3

\* The counter only stops where the loop backs off already.
LEMMA FailureCounted ==
  ASSUME DiscoveryTypeOK, discovery_failures' = AtMost(discovery_failures + 1, FailureCap)
  PROVE  /\ discovery_failures' \in 0 .. FailureCap /\ discovery_failures' > 0
         /\ BacksOff(discovery_failures) => BacksOff(discovery_failures')
<1>1. discovery_max_retries \in Nat /\ U64_BITS \in Nat \ {0}
  BY DiscoveryAssumption
<1>2. FailureCap \in Nat /\ FailureCap > discovery_max_retries + U64_BITS
  BY CapAssumption
<1>3. discovery_failures \in 0 .. FailureCap
  BY DEF DiscoveryTypeOK
<1> QED
  BY <1>1, <1>2, <1>3 DEF AtMost, BacksOff
-----------------------------------------------------------------------------
THEOREM DiscoveryInitInv == DiscoveryInit => DiscoveryInv
<1> SUFFICES ASSUME DiscoveryInit PROVE DiscoveryInv
  OBVIOUS
<1>1. FailureCap \in Nat
  BY CapAssumption
<1>2. DiscoveryTypeOK
  <2>1. discovery_failures \in 0 .. FailureCap /\ delay \in Nat
    BY <1>1 DEF DiscoveryInit
  <2> QED
    BY <2>1 DEF DiscoveryInit, DiscoveryTypeOK
<1>3. IssuesTellFailures /\ RetriedInTime
  BY DEF DiscoveryInit, IssuesTellFailures, RetriedInTime, BacksOff
<1> QED
  BY <1>2, <1>3 DEF DiscoveryInv

LEMMA PublishStep == DiscoveryInv /\ Publish => DiscoveryInv'
<1> SUFFICES ASSUME DiscoveryInv, Publish PROVE DiscoveryInv'
  OBVIOUS
<1> USE DEF DiscoveryInv
<1>1. /\ phase' = "Sleeping" /\ delay' \in Nat
      /\ delay' <= discovery_interval \/ delay' <= discovery_backoff_max
  BY SleepBounded DEF Publish
<1>2. DiscoveryTypeOK'
  <2>1. discovery_failures' \in 0 .. FailureCap
    BY CapAssumption DEF Publish
  <2> QED
    BY <1>1, <2>1 DEF Publish, DiscoveryTypeOK
<1>3. IssuesTellFailures'
  BY DEF Publish, IssuesTellFailures, BacksOff
<1>4. RetriedInTime'
  BY <1>1 DEF RetriedInTime
<1> QED
  BY <1>2, <1>3, <1>4

LEMMA FailStep == DiscoveryInv /\ Fail => DiscoveryInv'
<1> SUFFICES ASSUME DiscoveryInv, Fail PROVE DiscoveryInv'
  OBVIOUS
<1> USE DEF DiscoveryInv
<1>1. /\ discovery_failures' \in 0 .. FailureCap /\ discovery_failures' > 0
      /\ BacksOff(discovery_failures) => BacksOff(discovery_failures')
  BY FailureCounted DEF Fail
<1>2. /\ phase' = "Sleeping" /\ delay' \in Nat
      /\ delay' <= discovery_interval \/ delay' <= discovery_backoff_max
  <2>1. PICK f \in Nat : f = discovery_failures'
    BY <1>1, CapAssumption
  <2>2. Sleep(f)
    BY <2>1 DEF Fail, Sleep
  <2> QED
    BY <2>2, SleepBounded
<1>3. DiscoveryTypeOK'
  BY <1>1, <1>2 DEF Fail, DiscoveryTypeOK
<1>4. IssuesTellFailures'
  <2>1. backoff_issue' = (backoff_issue \/ BacksOff(discovery_failures')) /\ failure_issue' = TRUE
    BY DEF Fail
  <2>2. backoff_issue <=> BacksOff(discovery_failures)
    BY DEF IssuesTellFailures
  <2>3. backoff_issue' <=> BacksOff(discovery_failures')
    BY <1>1, <2>1, <2>2
  <2> QED
    BY <1>1, <2>1, <2>3 DEF IssuesTellFailures, BacksOff
<1>5. RetriedInTime'
  BY <1>2 DEF RetriedInTime
<1> QED
  BY <1>3, <1>4, <1>5

\* The other steps leave the counter and the issues, and do not end an iteration.
LEMMA OtherSteps ==
  ASSUME DiscoveryInv,
         VMsChange \/ list_running_vms \/ Wake \/ UNCHANGED discoveryVars
           \/ \E v \in VMs : get_vm_config(v)
  PROVE  DiscoveryInv'
<1> USE DEF DiscoveryInv
<1>1. UNCHANGED <<discovery_failures, DiscoveryIssues>>
  BY DEF VMsChange, list_running_vms, get_vm_config, Wake, discoveryVars, DiscoveryIssues
<1>2. /\ phase' \in {"Listing", "Reading"} \/ (phase' = phase /\ delay' = delay)
      /\ delay' \in Nat
  BY DEF VMsChange, list_running_vms, get_vm_config, Wake, discoveryVars, DiscoveryTypeOK
<1>3. \A v \in VMs : LunsOf[v] \subseteq AllLuns
  BY DEF AllLuns
<1>4. running' \subseteq VMs /\ todo' \subseteq VMs /\ found' \subseteq AllLuns /\ luns' \subseteq AllLuns
  <2>1. CASE VMsChange \/ list_running_vms \/ Wake \/ UNCHANGED discoveryVars
    BY <2>1 DEF VMsChange, list_running_vms, Wake, discoveryVars, DiscoveryTypeOK
  <2>2. CASE \E v \in VMs : get_vm_config(v)
    BY <2>2, <1>3 DEF get_vm_config, DiscoveryTypeOK
  <2> QED
    BY <2>1, <2>2
<1>5. phase' \in {"Listing", "Reading", "Sleeping"}
  BY <1>2 DEF DiscoveryTypeOK
<1>6. DiscoveryTypeOK'
  BY <1>1, <1>2, <1>4, <1>5 DEF DiscoveryTypeOK, DiscoveryIssues
<1>7. IssuesTellFailures'
  BY <1>1 DEF IssuesTellFailures, BacksOff, DiscoveryIssues
<1>8. RetriedInTime'
  BY <1>2 DEF RetriedInTime
<1> QED
  BY <1>6, <1>7, <1>8

THEOREM DiscoveryStepInv == DiscoveryInv /\ [DiscoveryNext]_discoveryVars => DiscoveryInv'
<1> SUFFICES ASSUME DiscoveryInv, [DiscoveryNext]_discoveryVars PROVE DiscoveryInv'
  OBVIOUS
<1>1. CASE Publish BY <1>1, PublishStep
<1>2. CASE Fail BY <1>2, FailStep
<1>3. CASE VMsChange \/ list_running_vms \/ Wake \/ UNCHANGED discoveryVars
             \/ \E v \in VMs : get_vm_config(v)
  BY <1>3, OtherSteps
<1> QED
  BY <1>1, <1>2, <1>3 DEF DiscoveryNext, Discover
-----------------------------------------------------------------------------
\* The invariant of the discovery loop, for any VMs and any settings.
THEOREM DiscoveryInductive == DiscoverySpec => []DiscoveryInv
<1>1. DiscoveryInit => DiscoveryInv
  BY DiscoveryInitInv
<1>2. DiscoveryInv /\ [DiscoveryNext]_discoveryVars => DiscoveryInv'
  BY DiscoveryStepInv
<1> QED
  BY <1>1, <1>2, PTL DEF DiscoverySpec

\* Type correctness: what is published is always a set of LUNs of VMs.
THEOREM DiscoveryTypesCorrect == DiscoverySpec => []DiscoveryTypeOK
<1>1. DiscoveryInv => DiscoveryTypeOK
  BY DEF DiscoveryInv
<1> QED
  BY <1>1, DiscoveryInductive, PTL

\* The issues in the status tell exactly whether the latest discovery failed and
\* whether the loop backs off.
THEOREM IssuesCorrect == DiscoverySpec => []IssuesTellFailures
<1>1. DiscoveryInv => IssuesTellFailures
  BY DEF DiscoveryInv
<1> QED
  BY <1>1, DiscoveryInductive, PTL

\* The thread never sleeps longer than the larger of the two configured limits,
\* for any number of failures and also where the arithmetic overflows.
THEOREM RetriesCorrect == DiscoverySpec => []RetriedInTime
<1>1. DiscoveryInv => RetriedInTime
  BY DEF DiscoveryInv
<1> QED
  BY <1>1, DiscoveryInductive, PTL
=============================================================================
