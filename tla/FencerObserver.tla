--------------------------- MODULE FencerObserver ---------------------------
(***************************************************************************)
(* The Fencer watched by an observer that remembers the replies it was     *)
(* given.  The observer's variables never influence a step: they are the   *)
(* history against which the Fencer's decisions are judged.                *)
(***************************************************************************)
EXTENDS Fencer

VARIABLES
  seen,        \* maps that listed a path since they have been monitored without a break
  dark,        \* maps of seen that listed no path in a later reply of the same period
  lossRun,     \* latest evaluations in a row that showed a loss, counted to max_failures
  evaluated    \* the latest call evaluated a reply

observer == <<seen, dark, lossRun, evaluated>>
vars == <<fencerVars, observer>>

ObserverTypeOK ==
  /\ seen \subseteq MapNames
  /\ dark \subseteq MapNames
  /\ lossRun \in 0 .. max_failures
  /\ evaluated \in BOOLEAN

ObserverInit == Init /\ seen = {} /\ dark = {} /\ lossRun = 0 /\ evaluated = FALSE

\* The storage behind a LUN is lost when a monitored map it names reports no
\* usable path, or is known to have gone dark.
LunLost(lun, monitored, gone) ==
  \E m \in monitored : /\ lun \cap Idents(m) # {}
                       /\ is_map_dead(m) \/ m.name \in gone

\* A loss: every LUN in use is lost, or a spanned one has lost a part.
Loss(monitored, active_luns, gone) ==
  /\ monitored # {}
  /\ \/ \A lun \in active_luns : LunLost(lun, monitored, gone)
     \/ \E lun \in active_luns : Spanned(lun) /\ LunLost(lun, monitored, gone)

Observe(maps, active_luns) ==
  LET monitored == MonitoredMaps(maps, active_luns)
      listing == {m.name : m \in {x \in monitored : HasPaths(x)}}
  IN
  /\ seen' = (seen \cap NamesOf(monitored)) \cup listing
  /\ dark' = (dark \cap NamesOf(monitored)) \cup
               (seen \cap (NamesOf(monitored) \ listing))
  /\ lossRun' = IF ~Loss(monitored, active_luns, dark') THEN 0
                ELSE IF lossRun < max_failures THEN lossRun + 1 ELSE lossRun
  /\ evaluated' = TRUE

ObserverNext ==
  \/ \E maps \in Replies, active_luns \in ActiveSets :
       update_with_maps(maps, active_luns) /\ Observe(maps, active_luns)
  \/ UpdateUnparsed /\ evaluated' = FALSE /\ UNCHANGED <<seen, dark, lossRun>>

ObserverSpec == ObserverInit /\ [][ObserverNext]_vars
-----------------------------------------------------------------------------
\* Every variable stays in its type, the saturating counter included.
AllTypesOK == TypeOK /\ ObserverTypeOK

\* A call asks for fencing exactly when the latest max_failures evaluated
\* replies, with no healthy or unmonitored one between them, all showed a loss;
\* rejected replies neither count nor break the run, and a counter that has
\* saturated keeps asking.
FenceExactlyOnSustainedLoss ==
  triggered <=> evaluated /\ lossRun = max_failures

\* The latch holds exactly the maps that listed a path and, without leaving the
\* monitored set in between, listed none in a later reply.
LatchExact == permanently_broken_luns = dark

\* The node must fence even if paths return: a latched map that a later reply
\* monitors is judged dead whatever that reply says about its paths.
LatchOutlivesRecovery ==
  [][\A n \in permanently_broken_luns :
       n \in DOMAIN previous_map_states' => previous_map_states'[n]]_vars

\* The Fencer remembers nothing about a map that the latest evaluated reply did
\* not monitor, so its memory is bounded by the maps in use.
MemoryPruned ==
  had_working_paths \cup permanently_broken_luns \subseteq DOMAIN previous_map_states

\* While failures are being counted the status carries the issue "fencing", and
\* it is critical exactly when the threshold has been reached.
FailureIsVisible ==
  consecutive_failures > 0 =>
    fencing_issue = IF consecutive_failures >= max_failures
                    THEN "Critical" ELSE "Warning"
=============================================================================
