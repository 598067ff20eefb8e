--------------------------- MODULE DaemonObserver ---------------------------
(***************************************************************************)
(* The daemon under a stopwatch: how long storage in use has been lost,    *)
(* how long the daemon has not looked, how old the knowledge is on which   *)
(* it decides.  The observer influences no step.                           *)
(***************************************************************************)
EXTENDS Daemon

CONSTANT Watch   \* how far each stopwatch counts, by the faults that are admitted

VARIABLES
  exposure,   \* ticks for which every LUN in use has been lost without a decision
  blind,      \* ticks since the latest evaluation or status issue that tells of none
  vacant,     \* ticks for which no VM has been running
  lossSpan    \* ticks since the reply that began the current run of failures

observer == <<exposure, blind, vacant, lossSpan>>
vars == <<daemonVars, observer>>

ASSUME WatchAssumption ==
  Watch \in [FaultSets -> [{"exposure", "blind", "vacant", "lossSpan"} -> Nat]]

ObserverInit ==
  DaemonInit /\ exposure = 0 /\ blind = 0 /\ vacant = 0 /\ lossSpan = 0

\* Every LUN that is published, or that the poll under way works with, names a
\* reported and targeted map without a usable path.
LunLost(lun, maps_now) ==
  \E m \in maps_now : lun \cap F!Idents(m) # {} /\ F!IsTargeted(m) /\ F!is_map_dead(m)

Lost == luns # {} /\ \A lun \in luns \cup active_set : LunLost(lun, storage)

\* The status says why the storage is not being evaluated.
BlindnessShown == stale_luns \/ query_failure \/ fencing_issue = "Critical"

Later(n, watch) == D!AtMost(n + 1, Watch[faults][watch])

OnTick ==
  /\ exposure' = IF Lost /\ ~triggered THEN Later(exposure, "exposure") ELSE 0
  /\ blind' = IF BlindnessShown THEN 0 ELSE Later(blind, "blind")
  /\ vacant' = IF running = {} THEN Later(vacant, "vacant") ELSE 0
  /\ lossSpan' = IF consecutive_failures > 0 THEN Later(lossSpan, "lossSpan") ELSE 0

OnStep ==
  /\ exposure' = IF Lost' /\ ~triggered' THEN exposure ELSE 0
  /\ vacant' = IF running' = {} THEN vacant ELSE 0
  /\ blind' = IF Evaluate THEN 0 ELSE blind
  /\ lossSpan' = IF consecutive_failures' = 0 THEN 0
                 ELSE IF consecutive_failures = 0
                 THEN D!AtMost(blocked, Watch[faults].lossSpan) ELSE lossSpan

ObserverNext ==
  \/ Tick /\ OnTick
  \/ (VMsChange \/ StorageChanges \/ DiscoveryThread \/ MainThread) /\ OnStep

ObserverSpec == ObserverInit /\ [][ObserverNext]_vars
-----------------------------------------------------------------------------
\* The variables of the daemon stay in their types; the stopwatches stop.
AllTypesOK ==
  /\ DaemonTypeOK
  /\ exposure \in 0 .. Watch[faults].exposure
  /\ blind \in 0 .. Watch[faults].blind
  /\ vacant \in 0 .. Watch[faults].vacant
  /\ lossSpan \in 0 .. Watch[faults].lossSpan

PollTicks == IF poll_interval > 2 * QueryTicks THEN poll_interval ELSE 2 * QueryTicks

\* One evaluation of a loss takes a poll, or the queries of a poll when those
\* are slower than the timer; the poll under way when the loss begins is lost.
FenceBound == (max_failures + 1) * PollTicks

\* A loss of every LUN in use that lasts is fenced within that time, whatever the
\* VMs, the discovery and the timer do, while nothing fails but the storage.
SustainedLossFences == faults = {} => exposure <= FenceBound

\* A daemon that has not evaluated the storage for longer than a poll takes says
\* so in its status, unless it is multipathd's replies that it rejects.
BlindnessIsVisible ==
  "bad_reply" \notin faults => blind <= poll_interval + 2 * QueryTicks

\* The node is not fenced for VMs that have been gone for more than the staleness
\* limit and the time that a discovery and the queries take, unless a discovery
\* takes longer than it should.
DecisionsUseCurrentVMs ==
  [][Evaluate /\ triggered' /\ "discovery_hangs" \notin faults =>
       vacant <= MaxAge + DiscoveryTicks + 2 * QueryTicks]_vars
-----------------------------------------------------------------------------
\* What the documents say, and the code does not do.

\* PLAN.md: a discovery thread that blocks does not prevent the monitoring thread
\* from fencing.
BlockedDiscoveryDoesNotPreventFencing ==
  faults \subseteq {"discovery_hangs"} => exposure <= FenceBound

\* PLAN.md: the status shows a warning whenever the daemon runs into an issue.
EveryBlindnessIsVisible == blind <= poll_interval + 2 * QueryTicks

\* MONITORING.md: the node is not fenced on outdated information about its VMs.
NoDecisionIsOutdated ==
  [][Evaluate /\ triggered' =>
       vacant <= MaxAge + DiscoveryTicks + 2 * QueryTicks]_vars

\* README.md: multipathd is queried at regular intervals, so that max_failures
\* failures in a row span max_failures - 1 intervals.
FencingTakesThreshold ==
  [][Evaluate /\ triggered' =>
       lossSpan - blocked >= (max_failures - 1) * poll_interval]_vars
=============================================================================
