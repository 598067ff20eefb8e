--------------------------- MODULE TriggerFencing ---------------------------
(***************************************************************************)
(* trigger_fencing: the SysRq sequence that takes the node down.  The main *)
(* thread awaits it.  Every write may fail; one that the kernel accepts    *)
(* may or may not take the node down, or kills the daemon that wrote it.   *)
(***************************************************************************)
EXTENDS Naturals, Sequences

CONSTANT SysRqSequences  \* the sequences of SysRq characters --sysrq-char may give

SysRqChars == {"s", "b", "o", "c", "u", "r", "e", "i", "f", "t", "p", "m", "w"}

\* validate_sysrq lets only non-empty sequences of known characters through.
ASSUME SequencesAssumption == SysRqSequences \subseteq Seq(SysRqChars) \ {<< >>}

VARIABLES
  chars,                \* the configured sequence
  dry_run,              \* PVE_SAN_FENCE_DRY_RUN is set
  FENCING_IN_PROGRESS,
  place,                \* where trigger_fencing is; "Idle" outside of it
  next,                 \* index of the character to send next
  sent_reboot,
  node,                 \* what became of the node and of the daemon on it
  written,              \* writes attempted by the latest sequence
  synced,               \* no 's' was written without waiting for it since
  ignored               \* the latest request was ignored as a duplicate

sysrqVars == <<chars, dry_run, FENCING_IN_PROGRESS, place, next, sent_reboot,
               node, written, synced, ignored>>

config == <<chars, dry_run>>

Places == {"Idle", "Send", "AwaitReboot", "Syncing", "Fallback", "AwaitFallback"}

TypeOK ==
  /\ chars \in SysRqSequences
  /\ dry_run \in BOOLEAN
  /\ FENCING_IN_PROGRESS \in BOOLEAN
  /\ place \in Places
  /\ next \in 1 .. Len(chars) + 1
  /\ sent_reboot \in BOOLEAN
  /\ node \in {"Up", "Down", "DaemonExited"}
  /\ written \in Seq([char : SysRqChars, ok : BOOLEAN])
  /\ synced \in BOOLEAN
  /\ ignored \in BOOLEAN

Init ==
  /\ chars \in SysRqSequences
  /\ dry_run \in BOOLEAN
  /\ FENCING_IN_PROGRESS = FALSE
  /\ place = "Idle"
  /\ next = 1
  /\ sent_reboot = FALSE
  /\ node = "Up"
  /\ written = << >>
  /\ synced = TRUE
  /\ ignored = FALSE
-----------------------------------------------------------------------------
At(p) == node = "Up" /\ place = p

\* The characters that reboot, power off or crash the node.
Lethal == {"b", "o", "c"}

\* The characters that send SIGTERM or SIGKILL to every process but init.  The
\* daemon handles no signal: the write does not return to it.
Signals == {"e", "i"}

\* One write to /proc/sysrq-trigger.
Write(c, ok) ==
  /\ written' = Append(written, [char |-> c, ok |-> ok])
  /\ synced' = (synced /\ c # "s")
  /\ node' \in CASE ok /\ c \in Lethal  -> {"Up", "Down"}
                [] ok /\ c \in Signals -> {"DaemonExited"}
                [] OTHER               -> {"Up"}

\* Mutant: the index is advanced twice.
AdvanceTwice ==
  /\ next' = next + 2
  /\ place' = IF next < Len(chars) THEN "Send"
              ELSE IF sent_reboot' THEN "Idle" ELSE "Fallback"

\* The next character of the sequence, or its end.
Advance ==
  /\ next' = next + 1
  /\ place' = IF next < Len(chars) THEN "Send"
              ELSE IF sent_reboot' THEN "Idle" ELSE "Fallback"

\* trigger_fencing is called.  A dry run flushes the status and exits.
DryRun ==
  /\ At("Idle")
  /\ dry_run
  /\ node' = "DaemonExited"
  /\ UNCHANGED <<config, FENCING_IN_PROGRESS, place, next, sent_reboot, written,
                 synced, ignored>>

IgnoreDuplicate ==
  /\ At("Idle")
  /\ ~dry_run
  /\ FENCING_IN_PROGRESS
  /\ ignored' = TRUE
  /\ UNCHANGED <<config, FENCING_IN_PROGRESS, place, next, sent_reboot, node,
                 written, synced>>

Begin ==
  /\ At("Idle")
  /\ ~dry_run
  /\ ~FENCING_IN_PROGRESS
  /\ FENCING_IN_PROGRESS' = TRUE
  /\ place' = "Send"
  /\ next' = 1
  /\ sent_reboot' = FALSE
  /\ written' = << >>
  /\ ignored' = FALSE
  /\ UNCHANGED <<config, node, synced>>

trigger_fencing == DryRun \/ IgnoreDuplicate \/ Begin

\* Mutant: a 'b' that was not accepted counts as sent.
SendRebootBlindly ==
  /\ At("Send")
  /\ chars[next] = "b"
  /\ \E ok \in BOOLEAN :
       /\ Write("b", ok)
       /\ sent_reboot' = TRUE
       /\ IF ok THEN place' = "AwaitReboot" /\ UNCHANGED next ELSE Advance
  /\ UNCHANGED <<config, FENCING_IN_PROGRESS, ignored>>

\* Send a character.  After a 'b' that was accepted the reboot is awaited;
\* after an 's', accepted or not, the sync.
SendReboot ==
  /\ At("Send")
  /\ chars[next] = "b"
  /\ \E ok \in BOOLEAN :
       /\ Write("b", ok)
       /\ IF ok THEN /\ sent_reboot' = TRUE
                     /\ place' = "AwaitReboot"
                     /\ UNCHANGED next
                ELSE UNCHANGED sent_reboot /\ Advance
  /\ UNCHANGED <<config, FENCING_IN_PROGRESS, ignored>>

\* Mutant: the sync is not awaited.
SendSyncOnly ==
  /\ At("Send")
  /\ chars[next] = "s"
  /\ \E ok \in BOOLEAN : Write("s", ok)
  /\ UNCHANGED sent_reboot
  /\ Advance
  /\ UNCHANGED <<config, FENCING_IN_PROGRESS, ignored>>

SendSync ==
  /\ At("Send")
  /\ chars[next] = "s"
  /\ \E ok \in BOOLEAN : Write("s", ok)
  /\ place' = "Syncing"
  /\ UNCHANGED <<config, FENCING_IN_PROGRESS, next, sent_reboot, ignored>>

\* Send any other character.  A daemon killed by it gets no further.
SendOther ==
  /\ At("Send")
  /\ chars[next] \notin {"b", "s"}
  /\ \E ok \in BOOLEAN : Write(chars[next], ok)
  /\ UNCHANGED sent_reboot
  /\ IF node' = "DaemonExited" THEN UNCHANGED <<next, place>> ELSE Advance
  /\ UNCHANGED <<config, FENCING_IN_PROGRESS, ignored>>

\* Mutant: the rest of the sequence is dropped after the second 'b'.
RetryRebootAndReturn ==
  /\ At("AwaitReboot")
  /\ \E ok \in BOOLEAN : Write("b", ok)
  /\ place' = "Idle"
  /\ UNCHANGED <<config, FENCING_IN_PROGRESS, next, sent_reboot, ignored>>

\* PVE_SAN_FENCE_REBOOT_TIMEOUT has passed and the node is still up: 'b' again.
RetryReboot ==
  /\ At("AwaitReboot")
  /\ \E ok \in BOOLEAN : Write("b", ok)
  /\ UNCHANGED sent_reboot
  /\ Advance
  /\ UNCHANGED <<config, FENCING_IN_PROGRESS, ignored>>

SyncWaited ==
  /\ At("Syncing")
  /\ synced' = TRUE
  /\ UNCHANGED sent_reboot
  /\ Advance
  /\ UNCHANGED <<config, FENCING_IN_PROGRESS, node, written, ignored>>

\* The sequence had no 'b', or none was accepted: reboot all the same.
FallbackReboot ==
  /\ At("Fallback")
  /\ \E ok \in BOOLEAN : Write("b", ok)
  /\ place' = "AwaitFallback"
  /\ UNCHANGED <<config, FENCING_IN_PROGRESS, next, sent_reboot, ignored>>

\* Mutant: the reboot is awaited without a limit.
FallbackAwaited == At("AwaitFallback") /\ UNCHANGED sysrqVars

FallbackWaited ==
  /\ At("AwaitFallback")
  /\ place' = "Idle"
  /\ UNCHANGED <<config, FENCING_IN_PROGRESS, next, sent_reboot, node, written,
                 synced, ignored>>

Running ==
  \/ SendReboot \/ SendSync \/ SendOther
  \/ RetryReboot \/ SyncWaited
  \/ FallbackReboot \/ FallbackWaited

Gone == node # "Up" /\ UNCHANGED sysrqVars

Next == trigger_fencing \/ Running \/ Gone

Spec == Init /\ [][Next]_sysrqVars

\* Once called, trigger_fencing keeps running: every write and sleep returns.
FairSpec == Spec /\ WF_sysrqVars(Running)
-----------------------------------------------------------------------------
Returned == place = "Idle" /\ written # << >>

Reboots == {i \in DOMAIN written : written[i].char = "b"}

\* The daemon has died of a character of its own sequence.
Killed == node = "DaemonExited" /\ ~dry_run

\* A character that kills the daemon comes before any 'b'.
SignalsFirst ==
  \E i \in DOMAIN chars : chars[i] \in Signals /\ \A j \in 1 .. i : chars[j] # "b"

\* Whichever writes fail, trigger_fencing does not return before it has tried a
\* reboot, nor, if the sequence asks for one, before it has tried it twice.  If one
\* of its characters kills the daemon, a reboot has been tried by then, unless the
\* sequence puts such a character before its first 'b'.
RebootAttempted ==
  /\ Returned => /\ Reboots # {}
                 /\ (\E i \in DOMAIN chars : chars[i] = "b")
                      => \E i, j \in Reboots : i # j
  /\ Killed /\ ~SignalsFirst => Reboots # {}

\* The first n characters are among what was written, in the configured order.
WrittenUpTo(n) ==
  \E at \in [1 .. n -> DOMAIN written] :
    /\ \A i, j \in 1 .. n : i < j => at[i] < at[j]
    /\ \A i \in 1 .. n : written[at[i]].char = chars[i]

\* Every character of the sequence is written, in the configured order; a daemon that
\* is killed has written everything up to the signal that kills it, and nothing after.
SequenceIsWritten ==
  /\ Returned => WrittenUpTo(Len(chars))
  /\ Killed => \E n \in DOMAIN chars :
                 /\ chars[n] \in Signals
                 /\ WrittenUpTo(n)
                 /\ written[Len(written)] = [char |-> chars[n], ok |-> TRUE]

\* No other character follows an 's' before the sync has been given its time.
SyncPrecedesRest == [][written' # written => synced \/ written' = << >>]_sysrqVars

\* A sequence ends: the node goes down or the main loop gets control back.
SequenceEnds == FENCING_IN_PROGRESS ~> node # "Up" \/ place = "Idle"

\* PLAN.md on trigger_fencing: "If the sequence does not include or trigger a reboot via
\* `'b'`, attempt to write "b" as a fallback to ensure the node reboots."  No call ends
\* with the node up before that.
FallbackFollows == Returned \/ Killed => Reboots # {}

\* The warning in trigger_fencing: a request is ignored because a fencing
\* operation is "already in progress".
IgnoredOnlyInProgress == [][ignored' /\ ~ignored => place # "Idle"]_sysrqVars

\* pve-san-fenced(8): if the system does not reboot within the timeout after
\* the reboot character was sent, a fallback reboot is attempted.
RebootTimeoutRetries ==
  [][place = "AwaitFallback" /\ place' = "Idle" => written' # written]_sysrqVars
=============================================================================
