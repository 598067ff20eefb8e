---------------------------- MODULE FencerClaims ----------------------------
(***************************************************************************)
(* What the repository's documents and comments say of the Fencer, beyond  *)
(* what its code does.  The history kept here is the one those sentences   *)
(* talk about; each claim is refuted by a run of its own.                  *)
(***************************************************************************)
EXTENDS Fencer

VARIABLES
  shownDead,    \* monitored maps of which some reply reported groups, none of them usable
  latchedInUse, \* maps latched since which some active LUN has always named them
  omitting,     \* monitored maps whose path_groups the latest evaluated reply omits
  deadRun,      \* for each map, latest evaluations in a row that found it dead
  allDeadRun    \* latest evaluations in a row that found every monitored map dead

claimVars == <<fencerVars, shownDead, latchedInUse, omitting, deadRun, allDeadRun>>

ClaimsInit ==
  /\ Init
  /\ shownDead = {}
  /\ latchedInUse = {}
  /\ omitting = {}
  /\ deadRun = [n \in MapNames |-> 0]
  /\ allDeadRun = 0

UpToThreshold(run) == IF run < max_failures THEN run + 1 ELSE run

Remember(maps, active_luns) ==
  LET monitored == MonitoredMaps(maps, active_luns) IN
  /\ shownDead' = (shownDead \cap NamesOf(monitored)) \cup
                    {m.name : m \in {x \in monitored : is_map_dead(x)}}
  /\ latchedInUse' =
       {n \in latchedInUse \cup permanently_broken_luns' : \E lun \in active_luns : n \in lun}
  /\ omitting' = {m.name : m \in {x \in monitored : x.path_groups = Missing}}
  /\ deadRun' = [n \in MapNames |->
                   IF n \in DeadNow(monitored) THEN UpToThreshold(deadRun[n]) ELSE 0]
  /\ allDeadRun' = IF monitored # {} /\ DeadNow(monitored) = NamesOf(monitored)
                   THEN UpToThreshold(allDeadRun) ELSE 0

ClaimsNext ==
  \E maps \in Replies, active_luns \in ActiveSets :
    update_with_maps(maps, active_luns) /\ Remember(maps, active_luns)

ClaimsSpec == ClaimsInit /\ [][ClaimsNext]_claimVars
-----------------------------------------------------------------------------
\* PLAN.md and the comment in is_map_dead: a missing path_groups is treated as
\* alive, so a map is judged dead only if some reply really showed it dead.
OmissionIsNotDeath ==
  \A n \in DOMAIN previous_map_states : previous_map_states[n] => n \in shownDead

\* PLAN.md: a latched map is forced to be dead "for all future cycles"; at least
\* as long as a running VM uses it.
LatchedForAllCycles ==
  \A n \in latchedInUse \cap DOMAIN previous_map_states : previous_map_states[n]

\* MONITORING.md: the warning "Consecutive storage failure" means that storage
\* in use by running VMs has failed; without such a failure it is not shown.
FencingIssueIsCurrent == fencing_issue # "None" => consecutive_failures > 0

\* PLAN.md: OK is returned when no problem is currently detected, so the issue
\* about an omitted path_groups goes away once the field is back.
MissingGroupsIssueIsCurrent == missing_path_groups \subseteq omitting

\* MONITORING.md: OK means that all monitored storage paths are healthy, so no
\* monitored map is dead while the daemon has no issue to show.
OkMeansHealthy ==
  (fencing_issue = "None" /\ missing_dm_st = {} /\ missing_path_groups = {}) =>
    \A n \in DOMAIN previous_map_states : ~previous_map_states[n]

\* README.md: the node is fenced if all paths for any monitored WWID are down
\* for the threshold of consecutive checks.
AnyDeadWwidFences == (\E n \in MapNames : deadRun[n] = max_failures) => triggered

\* pve-san-fenced(8): with --target-wwids only those WWIDs are monitored, so
\* losing every one of them for the threshold fences the node.
TargetedLossFences == allDeadRun = max_failures => triggered
=============================================================================
