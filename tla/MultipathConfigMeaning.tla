----------------------- MODULE MultipathConfigMeaning -----------------------
(***************************************************************************)
(* What a configuration means, defined on the lines that an administrator  *)
(* writes and indents, instead of on their tokens and braces, to judge the *)
(* parser and the check by.                                                *)
(*                                                                         *)
(* A line has the level of its indentation and the position of its first   *)
(* token in the reply.  A section is named by the line that opens it, and  *)
(* holds the lines after that one which are indented further.              *)
(***************************************************************************)
EXTENDS MultipathConfig, FiniteSetsExt

CONSTANT Documents    \* the configurations, each a sequence of lines

\* A key with its value, a key without one, "name {", "}", and a "}" too many.
TokensOf(line) ==
  CASE line.kind = "key" -> <<line.key, line.val>>
    [] line.kind = "bare" -> <<line.key>>
    [] line.kind = "open" -> <<line.key, "{">>
    [] line.kind \in {"close", "stray"} -> <<"}">>

Lines ==
  {line \in [kind : {"key", "bare", "open", "close", "stray"}, key : Words \cup {None},
             val : Words \cup {None}, level : Nat, at : Nat] :
     /\ line.kind \in {"key", "bare", "open"} => line.key # None
     /\ line.kind = "key" => line.val # None}

\* Where line i begins, and how far it is indented: the sections that are open.
Position(document, i) ==
  IF i = 1 THEN 1 ELSE document[i - 1].at + Len(TokensOf(document[i - 1]))

Indent(document, i) ==
  IF i = 1 THEN 0
  ELSE document[i - 1].level + (IF document[i - 1].kind = "open" THEN 1 ELSE 0)

LaidOut(document) ==
  \A i \in DOMAIN document :
    LET line == document[i] IN
    /\ line.at = Position(document, i)
    /\ line.level = IF line.kind = "close" THEN Indent(document, i) - 1 ELSE Indent(document, i)

\* The lines directly within the section that line j opens.
Entries(document, j) ==
  {i \in DOMAIN document :
     /\ j < i
     /\ document[i].level = document[j].level + 1
     /\ \A k \in j + 1 .. i : document[k].level > document[j].level}

Sections(document, name) ==
  {j \in DOMAIN document :
     document[j].kind = "open" /\ document[j].key = name /\ document[j].level = 0}

\* A word after a key is its value, so it is not the key of another line.
\* In "devices" there are device sections only.
Readable(document) ==
  \A i \in DOMAIN document :
    LET line == document[i] IN
    /\ line.kind = "key" => line.val \notin KnownKeys
    /\ line.kind = "bare" =>
         /\ line.level > 0
         /\ line.key # "device"
         /\ i < Len(document) => document[i + 1].kind = "close" \/ document[i + 1].key \in KnownKeys
    /\ line.kind = "stray" => line.level = 0
    /\ line.kind = "open" /\ (\E j \in Sections(document, "devices") : i \in Entries(document, j)) =>
         line.key = "device"

Renders(reply, document) ==
  /\ Len(reply) + 1 = Position(document, Len(document) + 1)
  /\ \A i \in DOMAIN document : \A k \in DOMAIN TokensOf(document[i]) :
       /\ document[i].at + k - 1 \in DOMAIN reply
       /\ reply[document[i].at + k - 1] = TokensOf(document[i])[k]

ASSUME DocumentsAssumption ==
  \A document \in Documents :
    document \in Seq(Lines) /\ LaidOut(document) /\ Readable(document)

DocumentsOf == [reply \in Replies |-> {document \in Documents : Renders(reply, document)}]

\* Every reply is one of a document, so that the properties below speak of each.
ASSUME RepliesAreDocuments == \A reply \in Replies : DocumentsOf[reply] # {}
-----------------------------------------------------------------------------
\* A setting has the value it is given last; a polling interval is a number.
ValueGiven(document, given, s) ==
  LET val == document[Max(given)].val IN
  IF given = {} \/ (s = "polling_interval" /\ val \notin DOMAIN Number) THEN None ELSE val

Given(document, j, s) ==
  {i \in Entries(document, j) : document[i].kind = "key" /\ document[i].key = s}

MeaningOf(document, j) ==
  [s \in Settings |-> ValueGiven(document, Given(document, j, s), s)]

\* Of several sections the last one counts.
LastMeaning(document, sections) ==
  IF sections = {} THEN Nothing ELSE MeaningOf(document, Max(sections))

\* The device sections, and the number of each in their order.
Devices(document) ==
  {i \in DOMAIN document :
     /\ document[i].kind = "open"
     /\ document[i].key = "device"
     /\ \E j \in Sections(document, "devices") : i \in Entries(document, j)}

Rank(document, j) == Cardinality({i \in Devices(document) : i <= j})

\* The parsed configuration holds what the document says.
Means(document) ==
  /\ config.defaults = LastMeaning(document, Sections(document, "defaults"))
  /\ config.overrides = LastMeaning(document, Sections(document, "overrides"))
  /\ Len(config.devices) = Cardinality(Devices(document))
  /\ \A j \in Devices(document) : config.devices[Rank(document, j)] = MeaningOf(document, j)

\* The setting that applies to a map: the one in overrides, else that of the last
\* device that selects the map and has one, else the default.
Applies(document, map, s) ==
  LET Meant(j) == MeaningOf(document, j)
      givers == {j \in Devices(document) : Selects(Meant(j), map) /\ Meant(j)[s] # None}
      over == LastMeaning(document, Sections(document, "overrides"))[s]
  IN IF over # None THEN over
     ELSE IF givers # {} THEN Meant(Max(givers))[s]
     ELSE LastMeaning(document, Sections(document, "defaults"))[s]

\* MONITORING.md, section 5: the queueing outlasts the fencing by 15 seconds, and
\* the device outlives the fencing by 60 seconds and the queueing.
Safe(retry, loss, interval) ==
  LET queueing == Number[retry] * (IF interval = None THEN 5 ELSE Number[interval]) IN
  /\ retry = "queue" \/ (retry \in DOMAIN Number /\ queueing >= fencing_time_sec + 15)
  /\ \/ loss = "infinity"
     \/ /\ loss \in DOMAIN Number
        /\ Number[loss] >= fencing_time_sec + 60
        /\ retry = "queue" \/ Number[loss] > queueing

SafeFor(document, map) ==
  Safe(Applies(document, map, "no_path_retry"), Applies(document, map, "dev_loss_tmo"),
       Applies(document, map, "polling_interval"))
-----------------------------------------------------------------------------
\* The parser understands what the document means, whatever sections, blocks and
\* keys without a value come between the settings it looks for, and also when the
\* reply ends before its sections do.
ParsedAsMeant ==
  mode \in {"Parsed", "Checked"} => \A document \in DocumentsOf[tokens] : Means(document)

\* The warning is shown exactly while some map in use has settings that do not
\* give the fencing its time, and it clears with the poll that sees them corrected.
WarningIsExact ==
  mode = "Checked" =>
    \A document \in DocumentsOf[tokens] :
      config_warnings <=> \E map \in monitored : ~SafeFor(document, map)
=============================================================================
