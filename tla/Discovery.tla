----------------------------- MODULE Discovery -----------------------------
(***************************************************************************)
(* The discovery thread: list the running VMs, read the configuration of   *)
(* each, publish the LUNs they use, sleep, start over; after failures in a *)
(* row, sleep for a delay that backs off exponentially.                    *)
(*                                                                         *)
(* A discovery never yields to the runtime before it returns, so nothing   *)
(* can cut it short: the timeout of 30 seconds around it has no action.    *)
(***************************************************************************)
EXTENDS Naturals

CONSTANTS
  VMs,                      \* the VMs that may run on this node
  LunsOf,                   \* LunsOf[v]: the LUNs behind the disks of VM v
  discovery_interval,
  discovery_max_retries,
  discovery_backoff_base,
  discovery_backoff_max,
  U64_BITS,                 \* the width of the u64 in which 2^n is computed
  FailureCap                \* where the model stops counting failures

ASSUME DiscoveryAssumption ==
  /\ discovery_interval \in Nat \ {0}
  /\ discovery_max_retries \in Nat
  /\ discovery_backoff_base \in Nat
  /\ discovery_backoff_max \in Nat
  /\ U64_BITS \in Nat \ {0}

\* Past the cap the delay does not change any more.
ASSUME CapAssumption ==
  FailureCap \in Nat /\ FailureCap > discovery_max_retries + U64_BITS

VARIABLES
  running,              \* the VMs that run on this node now
  phase,                \* what the thread is doing
  todo,                 \* listed VMs whose configuration is still to be read
  found,                \* LUNs of the VMs whose configuration has been read
  luns,                 \* the active LUNs published last
  discovery_failures,   \* consecutive_failures of the discovery loop
  delay,                \* the sleep the thread has chosen, in seconds
  failure_issue,        \* status issue "discovery_failure"
  backoff_issue         \* status issue "discovery_backoff"

discoveryVars == <<running, phase, todo, found, luns, discovery_failures,
                   delay, failure_issue, backoff_issue>>

DiscoveryIssues == <<failure_issue, backoff_issue>>

AllLuns == UNION {LunsOf[v] : v \in VMs}

DiscoveryTypeOK ==
  /\ running \subseteq VMs
  /\ phase \in {"Listing", "Reading", "Sleeping"}
  /\ todo \subseteq VMs
  /\ found \subseteq AllLuns
  /\ luns \subseteq AllLuns
  /\ discovery_failures \in 0 .. FailureCap
  /\ delay \in Nat
  /\ failure_issue \in BOOLEAN
  /\ backoff_issue \in BOOLEAN

DiscoveryInit ==
  /\ running \in SUBSET VMs
  /\ phase = "Listing"
  /\ todo = {}
  /\ found = {}
  /\ luns = {}
  /\ discovery_failures = 0
  /\ delay = 0
  /\ failure_issue = FALSE
  /\ backoff_issue = FALSE
-----------------------------------------------------------------------------
AtMost(n, bound) == IF n < bound THEN n ELSE bound

\* min(base * 2^n, max); an exponent larger than the limit exceeds it all the more.
CappedPower(n) ==
  AtMost(discovery_backoff_base * 2 ^ AtMost(n, discovery_backoff_max), discovery_backoff_max)

\* Mutant: the delay is not capped.
UncappedDelay(n) == discovery_backoff_base * 2 ^ n

\* In the release build 2u64.pow(n) wraps around to 0 from n = 64 on.
BackoffDelay(n) == IF n < U64_BITS THEN CappedPower(n) ELSE 0

BacksOff(failures) ==
  /\ failures > 0
  /\ discovery_max_retries > 0
  /\ failures >= discovery_max_retries

\* The end of an iteration of the loop: choose the delay and go to sleep.
Sleep(failures) ==
  /\ phase' = "Sleeping"
  /\ delay' = IF BacksOff(failures) THEN BackoffDelay(failures - discovery_max_retries)
              ELSE discovery_interval
-----------------------------------------------------------------------------
\* VMs start, stop and migrate at any time.
VMsChange ==
  /\ running' \in SUBSET VMs \ {running}
  /\ UNCHANGED <<phase, todo, found, luns, discovery_failures, delay, DiscoveryIssues>>

list_running_vms ==
  /\ phase = "Listing"
  /\ phase' = "Reading"
  /\ todo' = running
  /\ found' = {}
  /\ UNCHANGED <<running, luns, discovery_failures, delay, DiscoveryIssues>>

\* Mutant: the maps are joined for each VM instead of for each disk.
get_vm_config_joined(v) ==
  /\ phase = "Reading"
  /\ v \in todo
  /\ todo' = todo \ {v}
  /\ found' = found \cup {UNION LunsOf[v]}
  /\ UNCHANGED <<running, phase, luns, discovery_failures, delay, DiscoveryIssues>>

\* The configuration of a listed VM is read, or cannot be read: then the VM is
\* left out of the result and the discovery goes on.
get_vm_config(v) ==
  /\ phase = "Reading"
  /\ v \in todo
  /\ todo' = todo \ {v}
  /\ \/ found' = found \cup LunsOf[v]
     \/ UNCHANGED found
  /\ UNCHANGED <<running, phase, luns, discovery_failures, delay, DiscoveryIssues>>

\* Mutant: a success does not clear the backoff issue.
PublishKeepsBackoff ==
  /\ phase = "Reading"
  /\ todo = {}
  /\ luns' = found
  /\ discovery_failures' = 0
  /\ failure_issue' = FALSE
  /\ Sleep(0)
  /\ UNCHANGED <<running, todo, found, backoff_issue>>

Publish ==
  /\ phase = "Reading"
  /\ todo = {}
  /\ luns' = found
  /\ discovery_failures' = 0
  /\ failure_issue' = FALSE
  /\ backoff_issue' = FALSE
  /\ Sleep(0)
  /\ UNCHANGED <<running, todo, found>>

\* The discovery returns an error or panics.
Fail ==
  /\ phase \in {"Listing", "Reading"}
  /\ discovery_failures' = AtMost(discovery_failures + 1, FailureCap)
  /\ failure_issue' = TRUE
  /\ backoff_issue' = (backoff_issue \/ BacksOff(discovery_failures'))
  /\ Sleep(discovery_failures')
  /\ todo' = {}
  /\ found' = {}
  /\ UNCHANGED <<running, luns>>

Wake ==
  /\ phase = "Sleeping"
  /\ phase' = "Listing"
  /\ delay' = 0
  /\ UNCHANGED <<running, todo, found, luns, discovery_failures, DiscoveryIssues>>

Discover ==
  \/ list_running_vms
  \/ \E v \in VMs : get_vm_config(v)
  \/ Publish
  \/ Fail
  \/ Wake

DiscoveryNext == Discover \/ VMsChange

DiscoverySpec == DiscoveryInit /\ [][DiscoveryNext]_discoveryVars
-----------------------------------------------------------------------------
\* The two issues tell what the loop knows: the latest discovery failed, and the
\* failures in a row have reached the number at which the loop backs off.
IssuesTellFailures ==
  /\ failure_issue <=> discovery_failures > 0
  /\ backoff_issue <=> BacksOff(discovery_failures)

\* The thread never sleeps longer than the larger of the two configured limits,
\* so a failing discovery is always retried within a known time.
RetriedInTime ==
  phase = "Sleeping" =>
    delay <= discovery_interval \/ delay <= discovery_backoff_max

\* pve-san-fenced(8): the delay is base * 2^(failures - max_retries), capped at
\* --discovery-backoff-max.  It therefore never gets shorter from one failure
\* to the next.
BackoffNeverShrinks ==
  [][discovery_failures' > discovery_failures /\ BacksOff(discovery_failures)
       => delay' >= BackoffDelay(discovery_failures - discovery_max_retries)]_discoveryVars
=============================================================================
