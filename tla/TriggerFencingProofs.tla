------------------------ MODULE TriggerFencingProofs ------------------------
(***************************************************************************)
(* Proofs that trigger_fencing tries a reboot and writes its sequence as   *)
(* long as it lives, whatever the sequence is, whichever writes fail and   *)
(* whichever of the accepted ones have no effect.                          *)
(*                                                                         *)
(* A call that has returned only shows that its writes are there; while it *)
(* runs, the written prefix of the sequence (PrefixWritten) and the        *)
(* reboots tried so far (RebootsTried) have to be known at each place, as  *)
(* any signal in the sequence may be the last that it writes               *)
(* (KilledBySignal).                                                       *)
(***************************************************************************)
EXTENDS TriggerFencing, TLAPS

\* The index fits the place at which the call is.
Placed ==
  /\ place \in {"Send", "AwaitReboot", "Syncing"} => next <= Len(chars)
  /\ place = "AwaitReboot" => chars[next] = "b"
  /\ place = "Syncing" => chars[next] = "s"
  /\ place \in {"Fallback", "AwaitFallback"} => next = Len(chars) + 1
  /\ place = "Idle" /\ written # << >> => next = Len(chars) + 1

\* How many characters the call is done with.
Done == IF place \in {"AwaitReboot", "Syncing"} \/ Killed THEN next ELSE next - 1

PrefixWritten == WrittenUpTo(Done)

Wants == \E i \in DOMAIN chars : chars[i] = "b"
Passed == \E i \in 1 .. next - 1 : chars[i] = "b"
One == \E i \in DOMAIN written : written[i].char = "b"
Two == \E i, j \in DOMAIN written : /\ written[i].char = "b" /\ written[j].char = "b"
                                    /\ i # j

RebootsTried ==
  /\ place \in {"Send", "Syncing", "Fallback"} /\ Passed => One
  /\ place = "AwaitReboot" => One
  /\ sent_reboot /\ place # "AwaitReboot" => Two
  /\ place = "AwaitFallback" => One /\ (Wants => Two)
  /\ place = "Idle" /\ written # << >> => One /\ (Wants => Two)

\* An 's' is waited for at once.
SyncsAwaited == ~synced => place = "Syncing"

\* A killed daemon was sending a signal, and that is the last it wrote.
KilledBySignal ==
  Killed => /\ place = "Send" /\ chars[next] \in Signals
            /\ written # << >>
            /\ written[Len(written)] = [char |-> chars[next], ok |-> TRUE]

\* A dry run starts no sequence.
NeverInDryRun == place # "Idle" => ~dry_run

IInv ==
  /\ TypeOK /\ Placed /\ PrefixWritten /\ RebootsTried /\ SyncsAwaited
  /\ KilledBySignal /\ NeverInDryRun
-----------------------------------------------------------------------------
Record == [char : SysRqChars, ok : BOOLEAN]

\* The sequence is not empty and has only SysRq characters.
LEMMA SequenceFacts ==
  ASSUME NEW s \in SysRqSequences
  PROVE  /\ Len(s) \in Nat \ {0}
         /\ DOMAIN s = 1 .. Len(s)
         /\ \A i \in 1 .. Len(s) : s[i] \in SysRqChars
<1>1. s \in Seq(SysRqChars) /\ s # << >>
  BY SequencesAssumption
<1> QED
  BY <1>1

LEMMA CharsFacts ==
  ASSUME TypeOK
  PROVE  /\ Len(chars) \in Nat \ {0}
         /\ DOMAIN chars = 1 .. Len(chars)
         /\ \A i \in 1 .. Len(chars) : chars[i] \in SysRqChars
BY SequenceFacts DEF TypeOK

\* The next character is done with: the index and the place stay in their types.
LEMMA AdvanceFacts ==
  ASSUME TypeOK, next <= Len(chars), Advance, chars' = chars
  PROVE  next' \in 1 .. Len(chars') + 1 /\ place' \in Places
BY CharsFacts DEF Advance, Places, TypeOK

\* A write is appended to the log and leaves what is there.
LEMMA WriteFacts ==
  ASSUME TypeOK, NEW c \in SysRqChars, NEW ok \in BOOLEAN, Write(c, ok)
  PROVE  /\ written' \in Seq(Record) /\ written' # << >>
         /\ DOMAIN written = 1 .. Len(written)
         /\ DOMAIN written' = 1 .. Len(written) + 1
         /\ Len(written) \in Nat
         /\ \A i \in 1 .. Len(written) : written'[i] = written[i]
         /\ written'[Len(written) + 1].char = c
         /\ synced' \in BOOLEAN /\ (c # "s" => synced' = synced)
         /\ node' \in {"Up", "Down", "DaemonExited"}
<1>1. written \in Seq(Record) /\ [char |-> c, ok |-> ok] \in Record
  BY DEF TypeOK, Record
<1>2. written' = Append(written, [char |-> c, ok |-> ok])
  BY DEF Write
<1>3. /\ synced' = (synced /\ c # "s")
      /\ node' \in {"Up", "Down", "DaemonExited"}
  BY DEF Write
<1>4. synced \in BOOLEAN
  BY DEF TypeOK
<1> QED
  BY <1>1, <1>2, <1>3, <1>4

\* The write that kills the daemon is that of a signal, and the last in the log.
LEMMA KillFacts ==
  ASSUME TypeOK, NEW c \in SysRqChars, NEW ok \in BOOLEAN, Write(c, ok),
         node' = "DaemonExited"
  PROVE  /\ c \in Signals
         /\ written'[Len(written')] = [char |-> c, ok |-> TRUE]
<1>1. ok = TRUE /\ c \in Signals
  BY DEF Write
<1>2. written \in Seq(Record) /\ [char |-> c, ok |-> TRUE] \in Record
  BY DEF TypeOK, Record
<1>3. written' = Append(written, [char |-> c, ok |-> TRUE])
  BY <1>1 DEF Write
<1> QED
  BY <1>1, <1>2, <1>3

\* Only the signals kill the daemon: it is alive before and after every other step.
LEMMA Survives ==
  ASSUME Begin \/ SendReboot \/ SendSync \/ RetryReboot \/ SyncWaited \/ FallbackReboot
  PROVE  ~Killed /\ ~Killed'
<1>1. ASSUME NEW ok \in BOOLEAN, NEW c \in {"b", "s"}, Write(c, ok)
      PROVE  node' # "DaemonExited"
  BY <1>1 DEF Write, Signals
<1>2. CASE SendReboot BY <1>1, <1>2 DEF SendReboot, At, Killed
<1>3. CASE SendSync BY <1>1, <1>3 DEF SendSync, At, Killed
<1>4. CASE RetryReboot BY <1>1, <1>4 DEF RetryReboot, At, Killed
<1>5. CASE FallbackReboot BY <1>1, <1>5 DEF FallbackReboot, At, Killed
<1>6. CASE Begin \/ SyncWaited BY <1>6 DEF Begin, SyncWaited, At, Killed
<1> QED
  BY <1>2, <1>3, <1>4, <1>5, <1>6

LEMMA DryRunStep == NeverInDryRun /\ [Next]_sysrqVars => NeverInDryRun'
BY DEF NeverInDryRun, Next, trigger_fencing, Running, Gone, DryRun, IgnoreDuplicate, Begin,
       At, SendReboot, SendSync, SendOther, RetryReboot, SyncWaited, FallbackReboot,
       FallbackWaited, sysrqVars, config

\* Whatever is written next, the reboots tried before still count.
LEMMA RebootsKept ==
  ASSUME TypeOK, NEW c \in SysRqChars, NEW ok \in BOOLEAN, Write(c, ok)
  PROVE  /\ One => One'
         /\ Two => Two'
         /\ c = "b" => One'
         /\ c = "b" /\ One => Two'
BY WriteFacts DEF One, Two

\* Whatever is written next, the written prefix stays written.
LEMMA PrefixKept ==
  ASSUME TypeOK, NEW c \in SysRqChars, NEW ok \in BOOLEAN, Write(c, ok),
         NEW n \in Nat, WrittenUpTo(n), chars' = chars
  PROVE  WrittenUpTo(n)'
<1>1. PICK at \in [1 .. n -> DOMAIN written] :
        /\ \A i, j \in 1 .. n : i < j => at[i] < at[j]
        /\ \A i \in 1 .. n : written[at[i]].char = chars[i]
  BY DEF WrittenUpTo
<1>2. at \in [1 .. n -> DOMAIN written']
  BY WriteFacts
<1>3. \A i \in 1 .. n : written'[at[i]].char = chars'[i]
  BY <1>1, WriteFacts
<1> QED
  BY <1>1, <1>2, <1>3 DEF WrittenUpTo

\* Writing the next character makes the prefix longer by it.
LEMMA PrefixGrows ==
  ASSUME TypeOK, NEW n \in Nat, n < Len(chars), WrittenUpTo(n), chars' = chars,
         NEW ok \in BOOLEAN, Write(chars[n + 1], ok)
  PROVE  WrittenUpTo(n + 1)'
<1>1. PICK at \in [1 .. n -> DOMAIN written] :
        /\ \A i, j \in 1 .. n : i < j => at[i] < at[j]
        /\ \A i \in 1 .. n : written[at[i]].char = chars[i]
  BY DEF WrittenUpTo
<1>2. chars[n + 1] \in SysRqChars
  BY CharsFacts
<1>w. /\ DOMAIN written = 1 .. Len(written)
      /\ DOMAIN written' = 1 .. Len(written) + 1
      /\ Len(written) \in Nat
      /\ \A i \in 1 .. Len(written) : written'[i] = written[i]
      /\ written'[Len(written) + 1].char = chars[n + 1]
  BY <1>2, WriteFacts
<1> DEFINE longer == [i \in 1 .. n + 1 |-> IF i = n + 1 THEN Len(written) + 1 ELSE at[i]]
<1>3. \A i \in 1 .. n : longer[i] = at[i] /\ at[i] \in 1 .. Len(written)
  BY <1>w
<1>4. longer[n + 1] = Len(written) + 1
  OBVIOUS
<1>5. longer \in [1 .. n + 1 -> DOMAIN written']
  BY <1>w
<1> HIDE DEF longer
<1>6. \A i, j \in 1 .. n + 1 : i < j => longer[i] < longer[j]
  <2> SUFFICES ASSUME NEW i \in 1 .. n + 1, NEW j \in 1 .. n + 1, i < j
               PROVE  longer[i] < longer[j]
    OBVIOUS
  <2>1. CASE j = n + 1
    BY <2>1, <1>3, <1>4, <1>w
  <2>2. CASE j # n + 1
    BY <2>2, <1>1, <1>3
  <2> QED
    BY <2>1, <2>2
<1>7. \A i \in 1 .. n + 1 : written'[longer[i]].char = chars'[i]
  BY <1>1, <1>3, <1>4, <1>w
<1> QED
  BY <1>5, <1>6, <1>7 DEF WrittenUpTo
-----------------------------------------------------------------------------
THEOREM InitInv == Init => IInv
<1> SUFFICES ASSUME Init PROVE IInv
  OBVIOUS
<1>1. chars \in SysRqSequences /\ Len(chars) \in Nat \ {0}
  BY SequenceFacts DEF Init
<1>2. TypeOK
  <2>1. written \in Seq([char : SysRqChars, ok : BOOLEAN]) /\ next \in 1 .. Len(chars) + 1
    BY <1>1 DEF Init
  <2> QED
    BY <1>1, <2>1 DEF Init, TypeOK, Places
<1>3. Placed /\ RebootsTried /\ SyncsAwaited /\ KilledBySignal /\ NeverInDryRun
  BY DEF Init, Placed, RebootsTried, SyncsAwaited, Passed, KilledBySignal, Killed, NeverInDryRun
<1>4. WrittenUpTo(0)
  <2> DEFINE at == [i \in 1 .. 0 |-> i]
  <2>1. 1 .. 0 = {}
    OBVIOUS
  <2>2. at \in [1 .. 0 -> DOMAIN written]
    BY <2>1
  <2> HIDE DEF at
  <2> QED
    BY <2>1, <2>2 DEF WrittenUpTo
<1>5. PrefixWritten
  BY <1>4 DEF PrefixWritten, Done, Init, Killed
<1> QED
  BY <1>2, <1>3, <1>5 DEF IInv

\* A new call starts with nothing written.
LEMMA BeginStep == IInv /\ Begin => IInv'
<1> SUFFICES ASSUME IInv, Begin PROVE IInv'
  OBVIOUS
<1> USE DEF IInv
<1>a. ~Killed /\ ~Killed'
  BY Survives
<1>1. chars' = chars /\ written' = << >> /\ next' = 1 /\ place' = "Send" /\ ~sent_reboot'
  BY DEF Begin, config
<1>2. TypeOK'
  <2>1. next' \in 1 .. Len(chars') + 1 /\ written' \in Seq([char : SysRqChars, ok : BOOLEAN])
    BY <1>1, CharsFacts
  <2> QED
    BY <2>1 DEF Begin, TypeOK, Places, config
<1>3. Placed' /\ RebootsTried'
  BY <1>1, CharsFacts DEF Placed, RebootsTried, Passed
<1>4. WrittenUpTo(0)'
  <2> DEFINE at == [i \in 1 .. 0 |-> i]
  <2>1. 1 .. 0 = {}
    OBVIOUS
  <2>2. at \in [1 .. 0 -> DOMAIN written']
    BY <2>1
  <2> HIDE DEF at
  <2> QED
    BY <2>1, <2>2 DEF WrittenUpTo
<1>5. PrefixWritten'
  BY <1>a, <1>1, <1>4 DEF PrefixWritten, Done
<1>6. SyncsAwaited'
  BY DEF Begin, At, SyncsAwaited
<1>b. KilledBySignal'
  BY <1>a DEF KilledBySignal
<1>d. NeverInDryRun'
  BY DryRunStep DEF Next, trigger_fencing, Running
<1> QED
  BY <1>2, <1>3, <1>5, <1>6, <1>b, <1>d

\* A 'b' that is accepted is awaited; one that is not counts as passed.
LEMMA SendRebootStep == IInv /\ SendReboot => IInv'
<1> SUFFICES ASSUME IInv, SendReboot PROVE IInv'
  OBVIOUS
<1> USE DEF IInv
<1>a. ~Killed /\ ~Killed'
  BY Survives
<1>1. /\ place = "Send" /\ next <= Len(chars) /\ chars[next] = "b" /\ chars' = chars
      /\ next \in Nat /\ next >= 1
  BY DEF SendReboot, At, Placed, TypeOK, config
<1>2. PICK ok \in BOOLEAN :
        /\ Write("b", ok)
        /\ IF ok THEN sent_reboot' = TRUE /\ place' = "AwaitReboot" /\ UNCHANGED next
                 ELSE UNCHANGED sent_reboot /\ Advance
  BY DEF SendReboot
<1>3. "b" \in SysRqChars /\ synced
  BY <1>1 DEF SysRqChars, SyncsAwaited
<1>4. TypeOK'
  <2>1. next' \in 1 .. Len(chars') + 1 /\ place' \in Places /\ sent_reboot' \in BOOLEAN
    BY <1>1, <1>2, AdvanceFacts DEF TypeOK, Places
  <2>2. /\ written' \in Seq(Record) /\ synced' \in BOOLEAN
        /\ node' \in {"Up", "Down", "DaemonExited"}
    BY <1>2, <1>3, WriteFacts
  <2> QED
    BY <2>1, <2>2 DEF SendReboot, TypeOK, config, Record
<1>5. Placed'
  BY <1>1, <1>2, <1>3, CharsFacts DEF Advance, Placed
<1>6. PrefixWritten'
  <2>1. PICK n \in Nat : n = next - 1
    BY <1>1
  <2>2. WrittenUpTo(n) /\ n < Len(chars) /\ Write(chars[n + 1], ok)
    BY <1>a, <1>1, <1>2, <2>1, CharsFacts DEF PrefixWritten, Done
  <2>3. WrittenUpTo(n + 1)'
    BY <1>1, <2>2, PrefixGrows
  <2>4. Done' = n + 1
    BY <1>a, <1>1, <2>1, <1>2 DEF Advance, Done
  <2> QED
    BY <2>3, <2>4 DEF PrefixWritten, WrittenUpTo
<1>7. RebootsTried'
  <2>1. One' /\ (Two => Two')
    BY <1>2, <1>3, RebootsKept
  <2> QED
    BY <1>1, <1>2, <2>1 DEF Advance, RebootsTried
<1>8. SyncsAwaited'
  BY <1>2, <1>3, WriteFacts DEF SyncsAwaited
<1>b. KilledBySignal'
  BY <1>a DEF KilledBySignal
<1>d. NeverInDryRun'
  BY DryRunStep DEF Next, trigger_fencing, Running
<1> QED
  BY <1>4, <1>5, <1>6, <1>7, <1>8, <1>b, <1>d

LEMMA SendSyncStep == IInv /\ SendSync => IInv'
<1> SUFFICES ASSUME IInv, SendSync PROVE IInv'
  OBVIOUS
<1> USE DEF IInv
<1>a. ~Killed /\ ~Killed'
  BY Survives
<1>1. /\ place = "Send" /\ next <= Len(chars) /\ chars[next] = "s" /\ chars' = chars
      /\ next \in Nat /\ next >= 1
      /\ place' = "Syncing" /\ next' = next /\ sent_reboot' = sent_reboot
  BY DEF SendSync, At, Placed, TypeOK, config
<1>2. PICK ok \in BOOLEAN : Write("s", ok)
  BY DEF SendSync
<1>3. "s" \in SysRqChars
  BY DEF SysRqChars
<1>4. TypeOK'
  BY <1>1, <1>2, <1>3, WriteFacts, CharsFacts DEF SendSync, TypeOK, Places, config, Record
<1>5. Placed'
  BY <1>1 DEF Placed
<1>6. PrefixWritten'
  <2>1. PICK n \in Nat : n = next - 1
    BY <1>1
  <2>2. WrittenUpTo(n) /\ n < Len(chars) /\ Write(chars[n + 1], ok)
    BY <1>a, <1>1, <1>2, <2>1, CharsFacts DEF PrefixWritten, Done
  <2>3. WrittenUpTo(n + 1)'
    BY <1>1, <2>2, PrefixGrows
  <2>4. Done' = n + 1
    BY <1>a, <1>1, <2>1 DEF Done
  <2> QED
    BY <2>3, <2>4 DEF PrefixWritten, WrittenUpTo
<1>7. RebootsTried'
  <2>1. (One => One') /\ (Two => Two')
    BY <1>2, <1>3, RebootsKept
  <2>2. Passed' => Passed
    BY <1>1 DEF Passed
  <2> QED
    BY <1>1, <2>1, <2>2 DEF RebootsTried
<1>8. SyncsAwaited'
  BY <1>1 DEF SyncsAwaited
<1>b. KilledBySignal'
  BY <1>a DEF KilledBySignal
<1>d. NeverInDryRun'
  BY DryRunStep DEF Next, trigger_fencing, Running
<1> QED
  BY <1>4, <1>5, <1>6, <1>7, <1>8, <1>b, <1>d

\* A character that does not kill the daemon is passed; one that does is the last.
LEMMA SendOtherStep == IInv /\ SendOther => IInv'
<1> SUFFICES ASSUME IInv, SendOther PROVE IInv'
  OBVIOUS
<1> USE DEF IInv
<1>1. /\ place = "Send" /\ next <= Len(chars) /\ chars[next] \notin {"b", "s"}
      /\ chars' = chars /\ dry_run' = dry_run /\ next \in Nat /\ next >= 1
      /\ sent_reboot' = sent_reboot /\ ~Killed /\ ~dry_run
  BY DEF SendOther, At, Placed, TypeOK, config, Killed, NeverInDryRun
<1>2. PICK ok \in BOOLEAN : Write(chars[next], ok)
  BY DEF SendOther
<1>3. chars[next] \in SysRqChars /\ synced
  BY <1>1, CharsFacts DEF SyncsAwaited
<1>m. \/ node' = "DaemonExited" /\ Killed' /\ next' = next /\ place' = "Send"
      \/ node' # "DaemonExited" /\ ~Killed' /\ Advance
  BY <1>1 DEF SendOther, Killed
<1>4. TypeOK'
  <2>1. next' \in 1 .. Len(chars') + 1 /\ place' \in Places /\ sent_reboot' \in BOOLEAN
    BY <1>1, <1>m, AdvanceFacts DEF TypeOK, Places
  <2>2. /\ written' \in Seq(Record) /\ synced' \in BOOLEAN
        /\ node' \in {"Up", "Down", "DaemonExited"}
    BY <1>2, <1>3, WriteFacts
  <2> QED
    BY <2>1, <2>2 DEF SendOther, TypeOK, config, Record
<1>5. Placed'
  BY <1>1, <1>m, CharsFacts DEF Advance, Placed
<1>6. PrefixWritten'
  <2>1. PICK n \in Nat : n = next - 1
    BY <1>1
  <2>2. WrittenUpTo(n) /\ n < Len(chars) /\ Write(chars[n + 1], ok)
    BY <1>1, <1>2, <2>1, CharsFacts DEF PrefixWritten, Done
  <2>3. WrittenUpTo(n + 1)'
    BY <1>1, <2>2, PrefixGrows
  <2>4. ~Killed' => Done' = n + 1
    BY <1>1, <1>m, <2>1 DEF Advance, Done, Killed
  <2>5. Killed' => Done' = n + 1
    BY <1>1, <1>m, <2>1 DEF Done, Killed
  <2> QED
    BY <2>3, <2>4, <2>5 DEF PrefixWritten, WrittenUpTo
<1>7. RebootsTried'
  <2>1. (One => One') /\ (Two => Two')
    BY <1>2, <1>3, RebootsKept
  <2>2. Passed' => Passed
    BY <1>1, <1>m DEF Advance, Passed
  <2>3. Two' => One'
    BY DEF One, Two
  <2>4. place' = "Idle" => sent_reboot
    BY <1>1, <1>m DEF Advance
  <2>5. CASE place' = "Send"
    BY <1>1, <2>1, <2>2, <2>5 DEF RebootsTried
  <2>6. CASE Advance
    BY <1>1, <2>1, <2>2, <2>3, <2>4, <2>6 DEF Advance, RebootsTried
  <2> QED
    BY <1>m, <2>5, <2>6
<1>8. SyncsAwaited'
  BY <1>1, <1>2, <1>3, WriteFacts DEF SyncsAwaited
<1>9. KilledBySignal'
  <2> SUFFICES ASSUME Killed'
               PROVE  KilledBySignal'
    BY DEF KilledBySignal
  <2>1. node' = "DaemonExited" /\ next' = next /\ place' = "Send"
    BY <1>m
  <2>2. /\ written' # << >> /\ chars[next] \in Signals
        /\ written'[Len(written')] = [char |-> chars[next], ok |-> TRUE]
    BY <1>2, <1>3, <2>1, WriteFacts, KillFacts
  <2> QED
    BY <1>1, <2>1, <2>2 DEF KilledBySignal
<1>d. NeverInDryRun'
  BY DryRunStep DEF Next, trigger_fencing, Running
<1> QED
  BY <1>4, <1>5, <1>6, <1>7, <1>8, <1>9, <1>d

\* The second 'b' follows the accepted one, so there are two.
LEMMA RetryRebootStep == IInv /\ RetryReboot => IInv'
<1> SUFFICES ASSUME IInv, RetryReboot PROVE IInv'
  OBVIOUS
<1> USE DEF IInv
<1>a. ~Killed /\ ~Killed'
  BY Survives
<1>1. /\ place = "AwaitReboot" /\ next <= Len(chars) /\ chars' = chars
      /\ next \in Nat /\ next >= 1 /\ sent_reboot' = sent_reboot /\ Advance
  BY DEF RetryReboot, At, Placed, TypeOK, config
<1>2. PICK ok \in BOOLEAN : Write("b", ok)
  BY DEF RetryReboot
<1>3. "b" \in SysRqChars /\ synced
  BY <1>1 DEF SysRqChars, SyncsAwaited
<1>4. TypeOK'
  <2>1. next' \in 1 .. Len(chars') + 1 /\ place' \in Places /\ sent_reboot' \in BOOLEAN
    BY <1>1, AdvanceFacts DEF TypeOK, Places
  <2>2. /\ written' \in Seq(Record) /\ synced' \in BOOLEAN
        /\ node' \in {"Up", "Down", "DaemonExited"}
    BY <1>2, <1>3, WriteFacts
  <2> QED
    BY <2>1, <2>2 DEF RetryReboot, TypeOK, config, Record
<1>5. Placed'
  BY <1>1, CharsFacts DEF Advance, Placed
<1>6. PrefixWritten'
  <2>1. PICK n \in Nat : n = next
    BY <1>1
  <2>2. WrittenUpTo(n)'
    BY <1>a, <1>1, <1>2, <1>3, <2>1, PrefixKept DEF PrefixWritten, Done
  <2>3. Done' = n
    BY <1>a, <1>1, <2>1 DEF Advance, Done
  <2> QED
    BY <2>2, <2>3 DEF PrefixWritten, WrittenUpTo
<1>7. RebootsTried'
  <2>1. One' /\ Two'
    BY <1>1, <1>2, <1>3, RebootsKept DEF RebootsTried
  <2> QED
    BY <1>1, <2>1 DEF Advance, RebootsTried
<1>8. SyncsAwaited'
  BY <1>2, <1>3, WriteFacts DEF SyncsAwaited
<1>b. KilledBySignal'
  BY <1>a DEF KilledBySignal
<1>d. NeverInDryRun'
  BY DryRunStep DEF Next, trigger_fencing, Running
<1> QED
  BY <1>4, <1>5, <1>6, <1>7, <1>8, <1>b, <1>d

LEMMA SyncWaitedStep == IInv /\ SyncWaited => IInv'
<1> SUFFICES ASSUME IInv, SyncWaited PROVE IInv'
  OBVIOUS
<1> USE DEF IInv
<1>a. ~Killed /\ ~Killed'
  BY Survives
<1>1. /\ place = "Syncing" /\ next <= Len(chars) /\ chars[next] = "s" /\ chars' = chars
      /\ next \in Nat /\ next >= 1 /\ sent_reboot' = sent_reboot /\ Advance
      /\ written' = written
  BY DEF SyncWaited, At, Placed, TypeOK, config
<1>2. TypeOK'
  BY <1>1, CharsFacts DEF SyncWaited, Advance, TypeOK, Places, config
<1>3. Placed'
  BY <1>1, CharsFacts DEF Advance, Placed
<1>4. PrefixWritten'
  <2>1. WrittenUpTo(next) /\ Done' = next
    BY <1>a, <1>1 DEF PrefixWritten, Advance, Done
  <2> QED
    BY <1>1, <2>1 DEF PrefixWritten, WrittenUpTo
<1>5. RebootsTried'
  <2>1. One' = One /\ Two' = Two
    BY <1>1 DEF One, Two
  <2>2. Passed' => Passed
    BY <1>1 DEF Advance, Passed
  <2>3. Two => One
    BY DEF One, Two
  <2>4. place' = "Idle" => sent_reboot
    BY <1>1 DEF Advance
  <2> QED
    BY <1>1, <2>1, <2>2, <2>3, <2>4 DEF Advance, RebootsTried
<1>6. SyncsAwaited'
  BY DEF SyncWaited, SyncsAwaited
<1>b. KilledBySignal'
  BY <1>a DEF KilledBySignal
<1>d. NeverInDryRun'
  BY DryRunStep DEF Next, trigger_fencing, Running
<1> QED
  BY <1>2, <1>3, <1>4, <1>5, <1>6, <1>b, <1>d

\* Behind the sequence every 'b' of it has been passed.
LEMMA FallbackRebootStep == IInv /\ FallbackReboot => IInv'
<1> SUFFICES ASSUME IInv, FallbackReboot PROVE IInv'
  OBVIOUS
<1> USE DEF IInv
<1>a. ~Killed /\ ~Killed'
  BY Survives
<1>1. /\ place = "Fallback" /\ place' = "AwaitFallback" /\ chars' = chars
      /\ next = Len(chars) + 1 /\ next' = next /\ sent_reboot' = sent_reboot
  BY DEF FallbackReboot, At, Placed, config
<1>2. PICK ok \in BOOLEAN : Write("b", ok)
  BY DEF FallbackReboot
<1>3. "b" \in SysRqChars /\ synced
  BY <1>1 DEF SysRqChars, SyncsAwaited
<1>4. TypeOK'
  BY <1>1, <1>2, <1>3, WriteFacts DEF FallbackReboot, TypeOK, Places, config, Record
<1>5. Placed'
  BY <1>1 DEF Placed
<1>6. PrefixWritten'
  <2>1. PICK n \in Nat : n = Len(chars)
    BY CharsFacts
  <2>2. WrittenUpTo(n)
    BY <1>a, <1>1, <2>1 DEF PrefixWritten, Done
  <2>3. WrittenUpTo(n)'
    BY <1>1, <1>2, <1>3, <2>2, PrefixKept
  <2>4. Done' = n
    BY <1>a, <1>1, <2>1 DEF Done
  <2> QED
    BY <2>3, <2>4 DEF PrefixWritten, WrittenUpTo
<1>7. RebootsTried'
  <2>1. One' /\ (One => Two') /\ (Two => Two')
    BY <1>2, <1>3, RebootsKept
  <2>2. Wants' = Wants
    BY <1>1 DEF Wants
  <2>3. Wants => Passed
    BY <1>1, CharsFacts DEF Wants, Passed
  <2> QED
    BY <1>1, <2>1, <2>2, <2>3 DEF RebootsTried
<1>8. SyncsAwaited'
  BY <1>2, <1>3, WriteFacts DEF SyncsAwaited
<1>b. KilledBySignal'
  BY <1>a DEF KilledBySignal
<1>d. NeverInDryRun'
  BY DryRunStep DEF Next, trigger_fencing, Running
<1> QED
  BY <1>4, <1>5, <1>6, <1>7, <1>8, <1>b, <1>d

\* The steps that write nothing and do not move in the sequence.
LEMMA QuietStep ==
  IInv /\ (FallbackWaited \/ DryRun \/ IgnoreDuplicate \/ UNCHANGED sysrqVars) => IInv'
<1> SUFFICES ASSUME IInv, FallbackWaited \/ DryRun \/ IgnoreDuplicate \/ UNCHANGED sysrqVars
             PROVE  IInv'
  OBVIOUS
<1> USE DEF IInv
<1>1. /\ chars' = chars /\ written' = written /\ next' = next
      /\ sent_reboot' = sent_reboot /\ synced' = synced
      /\ place' = place \/ (place = "AwaitFallback" /\ place' = "Idle")
  BY DEF FallbackWaited, DryRun, IgnoreDuplicate, sysrqVars, config, At
<1>2. TypeOK'
  BY DEF FallbackWaited, DryRun, IgnoreDuplicate, sysrqVars, config, TypeOK, Places
<1>3. Placed'
  BY <1>1 DEF Placed
<1>k. /\ Killed' <=> Killed
      /\ Killed => place' = place
  BY DEF FallbackWaited, DryRun, IgnoreDuplicate, sysrqVars, config, At, Killed
<1>4. PrefixWritten'
  BY <1>1, <1>k DEF PrefixWritten, Done, WrittenUpTo
<1>7. KilledBySignal'
  BY <1>1, <1>k DEF KilledBySignal
<1>5. One' = One /\ Two' = Two /\ Wants' = Wants /\ Passed' = Passed
  BY <1>1 DEF One, Two, Wants, Passed
<1>6. RebootsTried' /\ SyncsAwaited'
  BY <1>1, <1>5 DEF RebootsTried, SyncsAwaited
<1>d. NeverInDryRun'
  BY DryRunStep DEF Next, trigger_fencing, Running
<1> QED
  BY <1>2, <1>3, <1>4, <1>6, <1>7, <1>d

THEOREM StepInv == IInv /\ [Next]_sysrqVars => IInv'
<1> SUFFICES ASSUME IInv, [Next]_sysrqVars PROVE IInv'
  OBVIOUS
<1>1. CASE Begin BY <1>1, BeginStep
<1>2. CASE SendReboot BY <1>2, SendRebootStep
<1>3. CASE SendSync BY <1>3, SendSyncStep
<1>4. CASE SendOther BY <1>4, SendOtherStep
<1>5. CASE RetryReboot BY <1>5, RetryRebootStep
<1>6. CASE SyncWaited BY <1>6, SyncWaitedStep
<1>7. CASE FallbackReboot BY <1>7, FallbackRebootStep
<1>8. CASE FallbackWaited \/ DryRun \/ IgnoreDuplicate \/ UNCHANGED sysrqVars
  BY <1>8, QuietStep
<1> QED
  BY <1>1, <1>2, <1>3, <1>4, <1>5, <1>6, <1>7, <1>8
  DEF Next, trigger_fencing, Running, Gone
-----------------------------------------------------------------------------
\* The inductive invariant holds for any set of sequences: trigger_fencing always
\* knows how far it has written and which reboots it has tried.
THEOREM Inductive == Spec => []IInv
<1>1. Init => IInv
  BY InitInv
<1>2. IInv /\ [Next]_sysrqVars => IInv'
  BY StepInv
<1> QED
  BY <1>1, <1>2, PTL DEF Spec

\* Type correctness of trigger_fencing for any set of sequences.
THEOREM TypesCorrect == Spec => []TypeOK
<1>1. IInv => TypeOK
  BY DEF IInv
<1> QED
  BY <1>1, Inductive, PTL

\* A call that returns has tried a reboot, and tried it twice if its sequence asks
\* for one; a daemon killed by its sequence has tried one unless a signal comes
\* before the first 'b'; whichever writes fail.
THEOREM RebootCorrect == Spec => []RebootAttempted
<1>1. IInv => RebootAttempted
  <2> SUFFICES ASSUME IInv PROVE RebootAttempted
    OBVIOUS
  <2>1. Returned => One /\ (Wants => Two)
    BY DEF IInv, Returned, RebootsTried
  <2>2. ASSUME Killed, ~SignalsFirst PROVE One
    <3>1. place = "Send" /\ chars[next] \in Signals
      BY <2>2 DEF IInv, KilledBySignal
    <3>2. next \in DOMAIN chars /\ next \in Nat
      BY <3>1, CharsFacts DEF IInv, Placed, TypeOK
    <3>3. PICK j \in 1 .. next : chars[j] = "b"
      BY <2>2, <3>1, <3>2 DEF SignalsFirst
    <3>4. j # next
      BY <3>1, <3>3 DEF Signals
    <3>5. Passed
      BY <3>2, <3>3, <3>4 DEF Passed
    <3> QED
      BY <3>1, <3>5 DEF IInv, RebootsTried
  <2> QED
    BY <2>1, <2>2 DEF RebootAttempted, Reboots, One, Two, Wants
<1> QED
  BY <1>1, Inductive, PTL

\* A call that returns has written all of its sequence, in its order; a daemon killed
\* by its sequence has written everything up to the signal that killed it.
THEOREM SequenceCorrect == Spec => []SequenceIsWritten
<1>1. IInv => SequenceIsWritten
  <2> SUFFICES ASSUME IInv PROVE SequenceIsWritten
    OBVIOUS
  <2>1. ASSUME Returned PROVE WrittenUpTo(Len(chars))
    <3>1. ~Killed /\ place = "Idle" /\ next = Len(chars) + 1 /\ Len(chars) \in Nat
      BY <2>1, CharsFacts DEF IInv, Returned, Placed, KilledBySignal
    <3>2. Done = Len(chars)
      BY <3>1 DEF Done
    <3> QED
      BY <3>2 DEF IInv, PrefixWritten
  <2>2. ASSUME Killed
        PROVE  \E n \in DOMAIN chars :
                 /\ chars[n] \in Signals
                 /\ WrittenUpTo(n)
                 /\ written[Len(written)] = [char |-> chars[n], ok |-> TRUE]
    <3>1. /\ place = "Send" /\ chars[next] \in Signals
          /\ written[Len(written)] = [char |-> chars[next], ok |-> TRUE]
      BY <2>2 DEF IInv, KilledBySignal
    <3>2. next \in DOMAIN chars
      BY <3>1, CharsFacts DEF IInv, Placed, TypeOK
    <3>3. WrittenUpTo(next)
      BY <2>2 DEF IInv, PrefixWritten, Done
    <3> WITNESS next \in DOMAIN chars
    <3> QED
      BY <3>1, <3>3
  <2> QED
    BY <2>1, <2>2 DEF SequenceIsWritten
<1> QED
  BY <1>1, Inductive, PTL

\* Nothing is written after an 's' before the sync has been given its time.
THEOREM SyncCorrect == Spec => SyncPrecedesRest
<1>1. IInv /\ [Next]_sysrqVars => [written' # written => synced \/ written' = << >>]_sysrqVars
  <2> SUFFICES ASSUME IInv, Next, written' # written, ~synced PROVE written' = << >>
    OBVIOUS
  <2>1. place = "Syncing"
    BY DEF IInv, SyncsAwaited
  <2> QED
    BY <2>1 DEF Next, trigger_fencing, Running, Gone, DryRun, IgnoreDuplicate, Begin, At,
                SendReboot, SendSync, SendOther, RetryReboot, SyncWaited, FallbackReboot,
                FallbackWaited, sysrqVars
<1> QED
  BY <1>1, Inductive, PTL DEF Spec, SyncPrecedesRest
=============================================================================
