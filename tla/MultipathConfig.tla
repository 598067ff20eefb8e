--------------------------- MODULE MultipathConfig ---------------------------
(***************************************************************************)
(* check_maps_config: the reply to "show config local" is parsed, the      *)
(* settings that apply to each monitored map are merged and judged, and    *)
(* the status issue "config_warnings" is set or cleared.                   *)
(*                                                                         *)
(* A reply is the sequence of its tokens.  A word is opaque: Number tells  *)
(* what it parses to, Matches which vendors and products it matches as a   *)
(* regular expression.  The parser is the loop over the tokens, one step   *)
(* for each turn of one of its loops.                                      *)
(***************************************************************************)
EXTENDS Naturals, Sequences

CONSTANTS
  Replies,            \* the replies, each a sequence of tokens
  Words,              \* the words in them
  Number,             \* Number[w]: the u64 that w denotes, for the words that do
  Matches,            \* Matches[w]: what w matches; nothing if it does not compile
  Maps,               \* the maps, records with vend and prod
  fencing_time_sec,   \* max_failures * poll_interval
  U64_RANGE,          \* 2^64
  None                \* a setting that is not given

ASSUME ConfigAssumption ==
  /\ {"{", "}"} \cap Words = {}
  /\ Replies \subseteq Seq(Words \cup {"{", "}"})
  /\ DOMAIN Number \subseteq Words
  /\ \A w \in DOMAIN Number : Number[w] \in 0 .. U64_RANGE - 1
  /\ "queue" \notin DOMAIN Number
  /\ DOMAIN Matches = Words
  /\ fencing_time_sec \in Nat
  /\ U64_RANGE \in Nat \ {0}
  /\ None \notin Words

VARIABLES
  tokens,             \* the reply of this poll
  monitored,          \* the maps of this poll that an active LUN names
  mode,               \* the loop the parser is in
  pos,                \* the token it is at
  depth,              \* open braces
  target,             \* where the block that is being parsed belongs
  block,              \* the settings of that block so far
  config,             \* the MultipathConfig so far
  config_warnings     \* status issue

parserVars == <<mode, pos, depth, target, block, config>>
configVars == <<tokens, monitored, parserVars, config_warnings>>

Settings == {"vendor", "product", "dev_loss_tmo", "no_path_retry", "polling_interval"}

Merged == {"dev_loss_tmo", "no_path_retry", "polling_interval"}

KnownKeys ==
  Settings \cup
  {"defaults", "devices", "device", "overrides", "path_grouping_policy", "path_selector",
   "path_checker", "features", "prio", "failback", "rr_weight", "rr_min_io",
   "rr_min_io_rq", "fast_io_fail_tmo"}

Braces == {"{", "}"}

DeviceConfig == [Settings -> Words \cup {None}]
Nothing == [s \in Settings |-> None]
EmptyConfig == [defaults |-> Nothing, devices |-> << >>, overrides |-> Nothing]

ConfigTypeOK ==
  /\ tokens \in Replies
  /\ monitored \subseteq Maps
  /\ mode \in {"Top", "Devices", "Block", "Skip", "Parsed", "Checked"}
  /\ pos \in 1 .. Len(tokens) + 2
  /\ depth \in 0 .. Len(tokens)
  /\ target \in {"defaults", "device", "overrides"}
  /\ block \in DeviceConfig
  /\ config \in [defaults : DeviceConfig, devices : Seq(DeviceConfig), overrides : DeviceConfig]
  /\ config_warnings \in BOOLEAN

\* A poll starts with the reply and the maps of this poll and a fresh parser.
StartParsing ==
  /\ mode' = "Top"
  /\ pos' = 1
  /\ depth' = 0
  /\ target' = "defaults"
  /\ block' = Nothing
  /\ config' = EmptyConfig

ConfigInit ==
  /\ tokens \in Replies
  /\ monitored \in SUBSET Maps
  /\ mode = "Top"
  /\ pos = 1
  /\ depth = 0
  /\ target = "defaults"
  /\ block = Nothing
  /\ config = EmptyConfig
  /\ config_warnings = FALSE
-----------------------------------------------------------------------------
AtEnd == pos > Len(tokens)

In(m) == mode = m /\ ~AtEnd

Skip(n) == pos' = pos + n

\* A keyword consumes the token after it, and opens a block if that is a brace.
Opens == pos < Len(tokens) /\ tokens[pos + 1] = "{"

EnterBlock(where) ==
  /\ Skip(2)
  /\ IF Opens THEN mode' = "Block" /\ depth' = 1 /\ target' = where /\ block' = Nothing
     ELSE UNCHANGED <<mode, depth, target, block>>
  /\ UNCHANGED config

TopSection ==
  /\ In("Top")
  /\ tokens[pos] \in {"defaults", "overrides"}
  /\ EnterBlock(tokens[pos])

TopDevices ==
  /\ In("Top")
  /\ tokens[pos] = "devices"
  /\ Skip(2)
  /\ mode' = IF Opens THEN "Devices" ELSE "Top"
  /\ UNCHANGED <<depth, target, block, config>>

\* Any other word may open a block that is skipped up to its closing brace.
TopOther ==
  /\ In("Top")
  /\ tokens[pos] \notin Braces \cup {"defaults", "overrides", "devices"}
  /\ Skip(2)
  /\ IF Opens THEN mode' = "Skip" /\ depth' = 1 ELSE UNCHANGED <<mode, depth>>
  /\ UNCHANGED <<target, block, config>>

TopBrace ==
  /\ In("Top")
  /\ tokens[pos] \in Braces
  /\ Skip(1)
  /\ UNCHANGED <<mode, depth, target, block, config>>

SkipToken ==
  /\ In("Skip")
  /\ Skip(1)
  /\ depth' = CASE tokens[pos] = "{" -> depth + 1
                [] tokens[pos] = "}" -> depth - 1
                [] OTHER -> depth
  /\ mode' = IF depth' = 0 THEN "Top" ELSE "Skip"
  /\ UNCHANGED <<target, block, config>>

DevicesDevice ==
  /\ In("Devices")
  /\ tokens[pos] = "device"
  /\ EnterBlock("device")

DevicesOther ==
  /\ In("Devices")
  /\ tokens[pos] # "device"
  /\ Skip(1)
  /\ mode' = IF tokens[pos] = "}" THEN "Top" ELSE "Devices"
  /\ UNCHANGED <<depth, target, block, config>>
-----------------------------------------------------------------------------
\* parse_block.  polling_interval is converted when it is read.
Store(key, val) ==
  [block EXCEPT ![key] =
     IF key = "polling_interval" /\ val \notin DOMAIN Number THEN None ELSE val]

\* A word counts as the value of the key before it unless it is a known key.
\* Mutant: a brace counts.
ValueUnlessKey == pos < Len(tokens) /\ tokens[pos + 1] \notin KnownKeys

\* Mutant: any word counts.
ValueUnlessBrace == pos < Len(tokens) /\ tokens[pos + 1] \notin Braces

HasValue == pos < Len(tokens) /\ tokens[pos + 1] \notin Braces \cup KnownKeys

BlockKey ==
  /\ In("Block")
  /\ depth = 1
  /\ tokens[pos] \notin Braces
  /\ Skip(IF HasValue THEN 2 ELSE 1)
  /\ block' = IF HasValue /\ tokens[pos] \in Settings
              THEN Store(tokens[pos], tokens[pos + 1]) ELSE block
  /\ UNCHANGED <<mode, depth, target, config>>

BlockOpens ==
  /\ In("Block")
  /\ tokens[pos] = "{"
  /\ Skip(1)
  /\ depth' = depth + 1
  /\ UNCHANGED <<mode, target, block, config>>

\* Inside a nested block everything up to its closing brace is ignored.
BlockNested ==
  /\ In("Block")
  /\ depth > 1
  /\ tokens[pos] # "{"
  /\ Skip(1)
  /\ depth' = IF tokens[pos] = "}" THEN depth - 1 ELSE depth
  /\ UNCHANGED <<mode, target, block, config>>

SaveBlock ==
  config' = IF target = "device" THEN [config EXCEPT !.devices = Append(@, block)]
            ELSE [config EXCEPT ![target] = block]

BlockCloses ==
  /\ In("Block")
  /\ depth = 1
  /\ tokens[pos] = "}"
  /\ Skip(1)
  /\ SaveBlock
  /\ depth' = 0
  /\ mode' = IF target = "device" THEN "Devices" ELSE "Top"
  /\ UNCHANGED <<target, block>>

\* The reply ends; a block it leaves open counts as far as it goes.
ParseEnds ==
  /\ AtEnd
  /\ mode \in {"Top", "Devices", "Block", "Skip"}
  /\ mode' = "Parsed"
  /\ IF mode = "Block" THEN SaveBlock ELSE UNCHANGED config
  /\ UNCHANGED <<pos, depth, target, block>>

Parse ==
  \/ TopSection \/ TopDevices \/ TopOther \/ TopBrace \/ SkipToken
  \/ DevicesDevice \/ DevicesOther
  \/ BlockKey \/ BlockOpens \/ BlockNested \/ BlockCloses
  \/ ParseEnds
-----------------------------------------------------------------------------
\* get_merged_config_compiled: devices override the defaults in their order, then
\* the overrides section does.
Overlay(base, over) ==
  [s \in Settings |-> IF s \in Merged /\ over[s] # None THEN over[s] ELSE base[s]]

Selects(device, map) ==
  /\ device.vendor = None \/ map.vend \in Matches[device.vendor]
  /\ device.product = None \/ map.prod \in Matches[device.product]

get_merged_config(map) ==
  LET after[n \in 0 .. Len(config.devices)] ==
        IF n = 0 THEN config.defaults
        ELSE IF Selects(config.devices[n], map) THEN Overlay(after[n - 1], config.devices[n])
        ELSE after[n - 1]
  IN Overlay(after[Len(config.devices)], config.overrides)

\* validate_merged_device_config: are there any warnings for the merged settings?
NumberOf(word, default) == IF word = None THEN default ELSE Number[word]

Numeric(word) == word \in DOMAIN Number

\* no_path_retry asks for a bounded time of queueing: that time, in u64.
QueueTime(merged) ==
  (Number[merged.no_path_retry] * NumberOf(merged.polling_interval, 5)) % U64_RANGE

QueuesFor(merged) == Numeric(merged.no_path_retry) /\ Number[merged.no_path_retry] > 0

RetryWarned(merged) ==
  /\ merged.no_path_retry # "queue"
  /\ QueuesFor(merged) => QueueTime(merged) < fencing_time_sec + 15

\* Mutant: a device that is lost just when the queueing ends is accepted.
LossWarnedLate(merged) ==
  /\ merged.dev_loss_tmo # "infinity"
  /\ Numeric(merged.dev_loss_tmo) =>
       \/ Number[merged.dev_loss_tmo] < fencing_time_sec + 60
       \/ QueuesFor(merged) /\ Number[merged.dev_loss_tmo] < QueueTime(merged)

LossWarned(merged) ==
  /\ merged.dev_loss_tmo # "infinity"
  /\ Numeric(merged.dev_loss_tmo) =>
       \/ Number[merged.dev_loss_tmo] < fencing_time_sec + 60
       \/ QueuesFor(merged) /\ Number[merged.dev_loss_tmo] <= QueueTime(merged)

HasWarnings(map) ==
  LET merged == get_merged_config(map) IN RetryWarned(merged) \/ LossWarned(merged)

\* The end of check_maps_config.
Check ==
  /\ mode = "Parsed"
  /\ mode' = "Checked"
  /\ config_warnings' = (\E map \in monitored : HasWarnings(map))
  /\ UNCHANGED <<tokens, monitored, pos, depth, target, block, config>>

\* The next poll with a reply to "show config local".
NextPoll ==
  /\ mode = "Checked"
  /\ tokens' \in Replies
  /\ monitored' \in SUBSET Maps
  /\ StartParsing
  /\ UNCHANGED config_warnings

ConfigNext ==
  \/ Parse /\ UNCHANGED <<tokens, monitored, config_warnings>>
  \/ Check
  \/ NextPoll

ConfigSpec == ConfigInit /\ [][ConfigNext]_configVars
=============================================================================
