-------------------------- MODULE MCMultipathConfig --------------------------
(***************************************************************************)
(* The default fencing time of 30 seconds, so that queueing for 45 and a   *)
(* device loss of 90 seconds are the limits.  Two maps of two vendors.     *)
(***************************************************************************)
EXTENDS MultipathConfigMeaning, SequencesExt

MCMaps == { [vend |-> "IBM", prod |-> "2145"], [vend |-> "HP", prod |-> "2145"] }

MCNumber ==
  [w \in {"0", "8", "9", "12", "18", "10", "89", "90", "91"} |->
     CASE w = "0" -> 0 [] w = "8" -> 8 [] w = "9" -> 9 [] w = "12" -> 12 [] w = "18" -> 18
       [] w = "10" -> 10 [] w = "89" -> 89 [] w = "90" -> 90 [] w = "91" -> 91]

MCWords ==
  KnownKeys \cup DOMAIN MCNumber \cup
  {"queue", "fail", "infinity", "soon", "blacklist", "protocol", "find_multipaths",
   "yes", "IBM", ".*", "["}

MCMatches ==
  [w \in MCWords |-> CASE w = "IBM" -> {"IBM"}
                       [] w = ".*" -> {"IBM", "HP", "2145"}
                       [] OTHER -> {}]

\* A configuration is written down as a tree: a section is its name and its entries.
Key(key, val) == [kind |-> "key", key |-> key, val |-> val]
Bare(key) == [kind |-> "bare", key |-> key]
Section(name, entries) == [kind |-> "section", key |-> name, entries |-> entries]
Stray == [kind |-> "stray"]

Line(kind, key, val, level) ==
  [kind |-> kind, key |-> key, val |-> val, level |-> level, at |-> 0]

\* The lines of a tree, indented.
RECURSIVE Indented(_, _)
Indented(entries, level) ==
  FlattenSeq([i \in DOMAIN entries |->
    LET e == entries[i] IN
    CASE e.kind = "key" -> <<Line("key", e.key, e.val, level)>>
      [] e.kind = "bare" -> <<Line("bare", e.key, None, level)>>
      [] e.kind = "stray" -> <<Line("stray", None, None, level)>>
      [] e.kind = "section" ->
           <<Line("open", e.key, None, level)>> \o Indented(e.entries, level + 1)
             \o <<Line("close", None, None, level)>>])

\* The first n lines of a tree, each with its position.
Document(entries, n) ==
  LET lines == SubSeq(Indented(entries, 0), 1, n)
      at[i \in DOMAIN lines] ==
        IF i = 1 THEN 1 ELSE at[i - 1] + Len(TokensOf(lines[i - 1]))
  IN [i \in DOMAIN lines |-> [lines[i] EXCEPT !.at = at[i]]]

\* Entries between the settings that the parser has to get over.
Noise ==
  { Bare("vendor"), Key("find_multipaths", "yes"),
    Section("protocol", <<Key("dev_loss_tmo", "89"), Section("protocol", << >>)>>) }

Retries == {Key("no_path_retry", w) : w \in {"queue", "fail", "0", "8", "9", "18"}}
Losses == {Key("dev_loss_tmo", w) : w \in {"infinity", "soon", "89", "90", "91"}}
Intervals == { << >>, <<Key("polling_interval", "10")>> }

Good == <<Key("no_path_retry", "12"), Key("dev_loss_tmo", "infinity")>>

\* One defaults section with all settings, and noise between them.
Plain ==
  {<<Section("defaults", <<retry, n, loss>> \o interval)>> :
     retry \in Retries, n \in Noise, loss \in Losses, interval \in Intervals}

\* Sections that compete: defaults, devices by vendor, product and not at all,
\* sections to be skipped, overrides.
DeviceSections ==
  { Section("device", <<Key("vendor", "IBM"), Key("dev_loss_tmo", "89")>>),
    Section("device", <<Key("product", ".*"), Key("dev_loss_tmo", "91")>>),
    Section("device", <<Key("vendor", "["), Key("no_path_retry", "fail")>>),
    Section("device", <<Key("no_path_retry", "9"), Bare("vendor")>>) }

Competing ==
  {<<Section("blacklist", <<Section("device", <<Key("vendor", ".*")>>)>>),
     Section("defaults", Good),
     Section("devices", <<d1, d2>>),
     Section("overrides", over)>> :
     d1 \in DeviceSections, d2 \in DeviceSections,
     over \in { << >>, <<Key("dev_loss_tmo", "infinity")>>,
                <<Section("protocol", <<Key("dev_loss_tmo", "89")>>), Key("no_path_retry", "8")>> }}

\* A section and a setting given twice, an interval that is no number, braces and
\* entries in odd places, and an empty reply.
Repeated ==
  { <<Section("defaults", Good), Section("defaults", <<Key("no_path_retry", "12")>>)>>,
    <<Section("overrides", Good \o <<Key("no_path_retry", "8")>>)>>,
    <<Section("defaults", <<Key("polling_interval", "soon")>> \o Good)>>,
    <<Stray, Key("defaults", "yes"), Section("defaults", Good), Stray,
      Section("devices", <<Bare("vendor"), Section("device", <<Key("dev_loss_tmo", "89")>>),
                           Key("device", "yes"), Key("find_multipaths", "yes")>>)>>,
    << >> }

\* A reply that ends within a nested section, within a device, or between devices.
Long ==
  <<Section("blacklist", <<Section("protocol", <<Key("vendor", "IBM")>>)>>),
    Section("defaults", Good),
    Section("devices",
      <<Section("device", <<Key("no_path_retry", "8"),
                            Section("protocol", <<Key("dev_loss_tmo", "89")>>)>>),
        Section("device", <<Key("dev_loss_tmo", "90")>>)>>)>>

MCDocuments ==
  {Document(tree, Len(Indented(tree, 0))) : tree \in Plain \cup Competing \cup Repeated}
    \cup {Document(Long, n) : n \in 1 .. Len(Indented(Long, 0))}

Render(document) == FlattenSeq([i \in DOMAIN document |-> TokensOf(document[i])])

MCReplies == {Render(document) : document \in MCDocuments}
=============================================================================
