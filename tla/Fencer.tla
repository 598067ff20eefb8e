------------------------------- MODULE Fencer -------------------------------
(***************************************************************************)
(* The Fencer: the state that decides, reply by reply, whether the node    *)
(* has lost the storage of its running VMs.  One step is one whole call of *)
(* update or update_with_maps, including the status issues that the call   *)
(* sets and clears.                                                        *)
(*                                                                         *)
(* A LUN of the active set is the set of identifiers it was built from: a  *)
(* plain "mpatha" is {"mpatha"}, a spanned volume group "mpatha+mpathb" is *)
(* {"mpatha", "mpathb"}.  A reply is a set of maps; multipathd gives no    *)
(* identifier to two maps.                                                 *)
(***************************************************************************)
EXTENDS MultipathMaps

CONSTANTS
  MapNames,       \* the names that maps can have
  Replies,        \* the decoded replies multipathd may send, each a set of maps
  ActiveSets,     \* the active sets the discovery thread may publish
  target_wwids,   \* --target-wwids; empty means every map in use
  max_failures,   \* --max-failures
  U64_MAX         \* where the u64 failure counter saturates

ASSUME ThresholdAssumption ==
  /\ U64_MAX \in Nat
  /\ max_failures \in 1 .. U64_MAX

ASSUME RepliesAssumption ==
  \A maps \in Replies :
    /\ \A m \in maps : m.name \in MapNames
    /\ \A m1, m2 \in maps : m1 # m2 => Idents(m1) \cap Idents(m2) = {}

VARIABLES
  consecutive_failures,
  previous_map_states,       \* partial function: map name -> was it dead
  had_working_paths,
  permanently_broken_luns,
  triggered,                 \* the result of the latest call
  fencing_issue,             \* level of the status issue "fencing"
  missing_dm_st,             \* maps with a status issue "missing_dm_st_<map>"
  missing_path_groups        \* maps with a status issue "missing_path_groups_<map>"

tracking == <<previous_map_states, had_working_paths, permanently_broken_luns>>
issues == <<fencing_issue, missing_dm_st, missing_path_groups>>
fencerVars == <<consecutive_failures, tracking, triggered, issues>>

TypeOK ==
  /\ consecutive_failures \in 0 .. U64_MAX
  /\ previous_map_states \in UNION {[S -> BOOLEAN] : S \in SUBSET MapNames}
  /\ had_working_paths \subseteq MapNames
  /\ permanently_broken_luns \subseteq MapNames
  /\ triggered \in BOOLEAN
  /\ fencing_issue \in {"None", "Warning", "Critical"}
  /\ missing_dm_st \subseteq MapNames
  /\ missing_path_groups \subseteq MapNames

Init ==
  /\ consecutive_failures = 0
  /\ previous_map_states = [n \in {} |-> FALSE]
  /\ had_working_paths = {}
  /\ permanently_broken_luns = {}
  /\ triggered = FALSE
  /\ fencing_issue = "None"
  /\ missing_dm_st = {}
  /\ missing_path_groups = {}
-----------------------------------------------------------------------------
IsActive(m, active_luns) == \E lun \in active_luns : lun \cap Idents(m) # {}

IsTargeted(m) == target_wwids = {} \/ target_wwids \cap Idents(m) # {}

MonitoredMaps(maps, active_luns) ==
  {m \in maps : IsActive(m, active_luns) /\ IsTargeted(m)}

NamesOf(maps) == {m.name : m \in maps}

\* The first loop of update_with_maps, for the maps it monitors: which names
\* have listed a path, which of those no longer list any, and which are dead.
WorkingNow(monitored) ==
  had_working_paths \cup {m.name : m \in {x \in monitored : HasPaths(x)}}

\* Mutant: only a reply that reports path_groups latches.
BrokenNowReported(monitored) ==
  permanently_broken_luns \cup
    {m.name : m \in {x \in monitored : /\ ~HasPaths(x) /\ x.path_groups # Missing
                                       /\ x.name \in had_working_paths}}

BrokenNow(monitored) ==
  permanently_broken_luns \cup
    {m.name : m \in {x \in monitored : ~HasPaths(x) /\ x.name \in had_working_paths}}

\* Mutant: the latch does not count.
DeadNowUnlatched(monitored) == {m.name : m \in {x \in monitored : is_map_dead(x)}}

DeadNow(monitored) ==
  {m.name : m \in {x \in monitored : is_map_dead(x) \/ x.name \in BrokenNow(monitored)}}

\* Mutant: had_working_paths is not pruned.
TrackUnpruned(monitored) ==
  /\ previous_map_states' = [n \in NamesOf(monitored) |-> n \in DeadNow(monitored)]
  /\ had_working_paths' = WorkingNow(monitored)
  /\ permanently_broken_luns' = BrokenNow(monitored) \cap NamesOf(monitored)
  /\ UNCHANGED <<missing_dm_st, missing_path_groups>>

\* What survives the loop is pruned to the maps monitored in this reply.
Track(monitored) ==
  LET names == NamesOf(monitored) IN
  /\ previous_map_states' = [n \in names |-> n \in DeadNow(monitored)]
  /\ had_working_paths' = WorkingNow(monitored) \cap names
  /\ permanently_broken_luns' = BrokenNow(monitored) \cap names
  /\ missing_dm_st' = {m.name : m \in {x \in monitored : MeetsMissingDmSt(x)}}
  /\ missing_path_groups' = missing_path_groups \cup
       {m.name : m \in {x \in monitored : x.path_groups = Missing}}

\* The second loop: a LUN has failed when one of its parts is a dead map.
Spanned(lun) == \E p, q \in lun : p # q

GroupFailed(lun, monitored) ==
  \E part \in lun : \E m \in monitored :
    part \in Idents(m) /\ m.name \in DeadNow(monitored)

FencingCondition(monitored, active_luns) ==
  \/ \E lun \in active_luns : Spanned(lun) /\ GroupFailed(lun, monitored)
  \/ \A lun \in active_luns : GroupFailed(lun, monitored)

\* Mutant: the counter is incremented without saturating.
PlainInc(n) == n + 1

SaturatingInc(n) == IF n < U64_MAX THEN n + 1 ELSE U64_MAX
-----------------------------------------------------------------------------
\* No active map is monitored: the counter restarts, the status is not touched.
NothingMonitored(monitored, active_luns) ==
  /\ monitored = {}
  /\ consecutive_failures' = 0
  /\ triggered' = FALSE
  /\ UNCHANGED fencing_issue

StorageHealthy(monitored, active_luns) ==
  /\ monitored # {}
  /\ ~FencingCondition(monitored, active_luns)
  /\ consecutive_failures' = 0
  /\ triggered' = FALSE
  /\ fencing_issue' = "None"

\* Mutant: off by one, fencing only past the threshold.
StorageFailingLate(monitored, active_luns) ==
  /\ monitored # {}
  /\ FencingCondition(monitored, active_luns)
  /\ consecutive_failures' = SaturatingInc(consecutive_failures)
  /\ triggered' = (consecutive_failures' > max_failures)
  /\ fencing_issue' = IF triggered' THEN "Critical" ELSE "Warning"

StorageFailing(monitored, active_luns) ==
  /\ monitored # {}
  /\ FencingCondition(monitored, active_luns)
  /\ consecutive_failures' = SaturatingInc(consecutive_failures)
  /\ triggered' = (consecutive_failures' >= max_failures)
  /\ fencing_issue' = IF triggered' THEN "Critical" ELSE "Warning"

update_with_maps(maps, active_luns) ==
  LET monitored == MonitoredMaps(maps, active_luns) IN
  /\ Track(monitored)
  /\ \/ NothingMonitored(monitored, active_luns)
     \/ StorageHealthy(monitored, active_luns)
     \/ StorageFailing(monitored, active_luns)

\* update on a reply that parse_multipathd_response rejects.
UpdateUnparsed ==
  /\ triggered' = FALSE
  /\ UNCHANGED <<consecutive_failures, tracking, issues>>

Next ==
  \/ \E maps \in Replies, active_luns \in ActiveSets :
       update_with_maps(maps, active_luns)
  \/ UpdateUnparsed

Spec == Init /\ [][Next]_fencerVars
=============================================================================
