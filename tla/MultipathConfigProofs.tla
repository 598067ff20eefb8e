------------------------ MODULE MultipathConfigProofs ------------------------
(***************************************************************************)
(* Proofs that the parser understands every configuration as it is meant,  *)
(* and that the warning is exact, for any words, replies and maps.         *)
(*                                                                         *)
(* The parser keeps its place: Tracks says, for a document that the reply  *)
(* renders, which line the parser is at, in which section, and what it has *)
(* gathered from the lines before.                                         *)
(***************************************************************************)
EXTENDS MultipathConfigMeaning, TLAPS, FiniteSetTheorems, SequenceTheorems, WellFoundedInduction

\* The product of two settings fits into u64.  multipathd keeps both as int.
NoOverflow ==
  \A w \in DOMAIN Number :
    /\ Number[w] * 5 < U64_RANGE
    /\ \A v \in DOMAIN Number : Number[w] * Number[v] < U64_RANGE

\* The types, and how deep the parser is in each of its loops.
TypeInv ==
  /\ ConfigTypeOK
  /\ depth < pos
  /\ mode \in {"Skip", "Block"} => depth > 0 /\ pos <= Len(tokens) + 1
  /\ mode \in {"Top", "Devices"} => depth = 0

\* What the lines before line n mean.
DevicesBefore(document, n) == {j \in Devices(document) : j < n}

SectionsBefore(document, name, n) == {j \in Sections(document, name) : j < n}

MeansBefore(document, n) ==
  /\ config.defaults = LastMeaning(document, SectionsBefore(document, "defaults", n))
  /\ config.overrides = LastMeaning(document, SectionsBefore(document, "overrides", n))
  /\ Len(config.devices) = Cardinality(DevicesBefore(document, n))
  /\ \A j \in DevicesBefore(document, n) :
       Rank(document, j) \in DOMAIN config.devices
         /\ config.devices[Rank(document, j)] = MeaningOf(document, j)
  /\ \A k \in DOMAIN config.devices : \E j \in DevicesBefore(document, n) : Rank(document, j) = k

GivenBefore(document, j, s, n) == {i \in Given(document, j, s) : i < n}

MeaningBefore(document, j, n) ==
  [s \in Settings |-> ValueGiven(document, GivenBefore(document, j, s, n), s)]

\* Line n is in the section that line j opens, or closes it.
Within(document, j, n) ==
  /\ j \in DOMAIN document /\ j < n
  /\ document[j].kind = "open"
  /\ document[j].level < Indent(document, n)
  /\ \A k \in j + 1 .. n - 1 : document[k].level > document[j].level

\* The parser is at the first token of line n, or at the second of one of some kind.
AtLine(document, n, kinds) ==
  \/ pos = Position(document, n)
  \/ /\ pos = Position(document, n) + 1
     /\ n \in DOMAIN document
     /\ document[n].kind \in kinds

AtTop(document, n) ==
  /\ mode = "Top"
  /\ Indent(document, n) = 0
  /\ AtLine(document, n, {})
  /\ MeansBefore(document, n)

InSkipped(document, j, n) ==
  /\ mode = "Skip"
  /\ Within(document, j, n)
  /\ document[j].level = 0 /\ document[j].key # "devices"
  /\ depth = Indent(document, n)
  /\ AtLine(document, n, {"key", "open"})
  /\ MeansBefore(document, n)

InDevices(document, j, n) ==
  /\ mode = "Devices"
  /\ Within(document, j, n)
  /\ j \in Sections(document, "devices")
  /\ Indent(document, n) = 1
  /\ AtLine(document, n, {"key"})
  /\ MeansBefore(document, n)

InBlock(document, j, n) ==
  /\ mode = "Block"
  /\ Within(document, j, n)
  /\ j \in IF target = "device" THEN Devices(document) ELSE Sections(document, target)
  /\ depth = Indent(document, n) - document[j].level
  /\ AtLine(document, n, IF depth = 1 THEN {"open"} ELSE {"key", "open"})
  /\ block = MeaningBefore(document, j, n)
  /\ MeansBefore(document, j)

Tracks(document) ==
  \/ \E n \in 1 .. Len(document) + 1 :
       \/ AtTop(document, n)
       \/ \E j \in DOMAIN document :
            InSkipped(document, j, n) \/ InDevices(document, j, n) \/ InBlock(document, j, n)
  \/ mode \in {"Parsed", "Checked"} /\ MeansBefore(document, Len(document) + 1)

ParseInv == \A document \in DocumentsOf[tokens] : Tracks(document)

IInv == TypeInv /\ ParseInv
-----------------------------------------------------------------------------
\* A document that the reply renders.
Rendered(document) ==
  /\ document \in Seq(Lines)
  /\ LaidOut(document) /\ Readable(document)
  /\ Renders(tokens, document)
  /\ tokens \in Seq(Words \cup Braces)

LEMMA DocumentFacts ==
  ASSUME TypeInv, NEW d \in DocumentsOf[tokens]
  PROVE  Rendered(d)
<1>1. tokens \in Replies
  BY DEF TypeInv, ConfigTypeOK
<1>2. d \in Documents /\ Renders(tokens, d)
  BY <1>1 DEF DocumentsOf
<1>3. tokens \in Seq(Words \cup Braces)
  BY <1>1, ConfigAssumption DEF Braces
<1> QED
  BY <1>2, <1>3, DocumentsAssumption DEF Rendered

\* What the words and braces are, apart from each other.
LEMMA WordFacts ==
  /\ \A w \in Words : w \notin Braces /\ w # "{" /\ w # "}"
  /\ KnownKeys \cap Braces = {}
  /\ "{" \in Braces /\ "}" \in Braces
BY ConfigAssumption DEF Braces, KnownKeys, Settings

LEMMA Pair ==
  ASSUME NEW a, NEW b
  PROVE  /\ Len(<<a, b>>) = 2 /\ 1 \in DOMAIN <<a, b>> /\ 2 \in DOMAIN <<a, b>>
         /\ <<a, b>>[1] = a /\ <<a, b>>[2] = b
OBVIOUS

LEMMA Single ==
  ASSUME NEW a
  PROVE  Len(<<a>>) = 1 /\ 1 \in DOMAIN <<a>> /\ <<a>>[1] = a
OBVIOUS

\* The tokens of a line, where it says they are.
LEMMA TokenFacts ==
  ASSUME NEW d, Rendered(d), NEW n \in DOMAIN d
  PROVE  /\ d[n] \in Lines /\ n \in 1 .. Len(d) /\ Len(d) \in Nat
         /\ Position(d, n) = d[n].at
         /\ Position(d, n + 1) = d[n].at + Len(TokensOf(d[n]))
         /\ \A k \in DOMAIN TokensOf(d[n]) :
              d[n].at + k - 1 \in 1 .. Len(tokens) /\ tokens[d[n].at + k - 1] = TokensOf(d[n])[k]
<1>1. d \in Seq(Lines) /\ tokens \in Seq(Words \cup Braces)
  BY DEF Rendered
<1>2. d[n] \in Lines /\ n \in 1 .. Len(d) /\ Len(d) \in Nat /\ DOMAIN tokens = 1 .. Len(tokens)
  BY <1>1
<1>3. Position(d, n) = d[n].at
  BY DEF Rendered, LaidOut
<1>4. Position(d, n + 1) = d[n].at + Len(TokensOf(d[n]))
  BY <1>2 DEF Position
<1>5. \A k \in DOMAIN TokensOf(d[n]) :
        d[n].at + k - 1 \in DOMAIN tokens /\ tokens[d[n].at + k - 1] = TokensOf(d[n])[k]
  BY DEF Rendered, Renders
<1> QED
  BY <1>2, <1>3, <1>4, <1>5

LEMMA PairSpelled ==
  ASSUME NEW d, Rendered(d), NEW n \in DOMAIN d, d[n].kind \in {"key", "open"}
  PROVE  /\ Position(d, n) \in Nat /\ Position(d, n) >= 1 /\ Position(d, n) + 1 <= Len(tokens)
         /\ Position(d, n + 1) = Position(d, n) + 2
         /\ tokens[Position(d, n)] = d[n].key /\ d[n].key \in Words
         /\ d[n].kind = "key" => tokens[Position(d, n) + 1] = d[n].val /\ d[n].val \in Words
         /\ d[n].kind = "open" => tokens[Position(d, n) + 1] = "{"
<1>1. PICK line \in Lines : line = d[n]
  BY TokenFacts
<1>2. PICK p \in Nat : p = line.at
  BY <1>1 DEF Lines
<1>3. /\ Position(d, n) = p /\ Position(d, n + 1) = p + Len(TokensOf(line))
      /\ \A k \in DOMAIN TokensOf(line) :
           p + k - 1 \in 1 .. Len(tokens) /\ tokens[p + k - 1] = TokensOf(line)[k]
  BY <1>1, <1>2, TokenFacts
<1>4. PICK first, second :
        /\ TokensOf(line) = <<first, second>>
        /\ first = line.key /\ second = IF line.kind = "key" THEN line.val ELSE "{"
  BY <1>1 DEF TokensOf
<1>5. /\ p \in 1 .. Len(tokens) /\ tokens[p] = first
      /\ p + 1 \in 1 .. Len(tokens) /\ tokens[p + 1] = second
  <2>1. 1 \in DOMAIN TokensOf(line) /\ 2 \in DOMAIN TokensOf(line)
        /\ TokensOf(line)[1] = first /\ TokensOf(line)[2] = second
    <3>1. PICK t : t = <<first, second>>
      OBVIOUS
    <3>2. 1 \in DOMAIN t /\ 2 \in DOMAIN t /\ t[1] = first /\ t[2] = second
      BY <3>1, Pair
    <3>3. TokensOf(line) = t
      BY <1>4, <3>1
    <3> QED
      BY <3>2, <3>3
  <2>2. p + 1 - 1 = p /\ p + 2 - 1 = p + 1
    OBVIOUS
  <2> QED
    BY <1>3, <2>1, <2>2
<1>6. Len(TokensOf(line)) = 2
  BY <1>4, Pair
<1>7. line.key \in Words /\ (line.kind = "key" => line.val \in Words)
  BY <1>1 DEF Lines
<1>8. Len(tokens) \in Nat
  BY DEF Rendered
<1>9. p >= 1 /\ p + 1 <= Len(tokens)
  BY <1>5, <1>8
<1>10. tokens[p] = line.key /\ (line.kind = "key" => tokens[p + 1] = line.val)
       /\ (line.kind = "open" => tokens[p + 1] = "{")
  BY <1>4, <1>5
<1> QED
  BY <1>1, <1>3, <1>6, <1>7, <1>9, <1>10

LEMMA SingleSpelled ==
  ASSUME NEW d, Rendered(d), NEW n \in DOMAIN d, d[n].kind \in {"bare", "close", "stray"}
  PROVE  /\ Position(d, n) \in Nat /\ Position(d, n) >= 1 /\ Position(d, n) <= Len(tokens)
         /\ Position(d, n + 1) = Position(d, n) + 1
         /\ d[n].kind = "bare" => tokens[Position(d, n)] = d[n].key /\ d[n].key \in Words
         /\ d[n].kind # "bare" => tokens[Position(d, n)] = "}"
<1>1. PICK line \in Lines : line = d[n]
  BY TokenFacts
<1>2. PICK p \in Nat : p = line.at
  BY <1>1 DEF Lines
<1>3. /\ Position(d, n) = p /\ Position(d, n + 1) = p + Len(TokensOf(line))
      /\ \A k \in DOMAIN TokensOf(line) :
           p + k - 1 \in 1 .. Len(tokens) /\ tokens[p + k - 1] = TokensOf(line)[k]
  BY <1>1, <1>2, TokenFacts
<1>4. PICK first : TokensOf(line) = <<first>>
                   /\ first = IF line.kind = "bare" THEN line.key ELSE "}"
  BY <1>1 DEF TokensOf
<1>5. p \in 1 .. Len(tokens) /\ tokens[p] = first
  <2>1. 1 \in DOMAIN TokensOf(line) /\ TokensOf(line)[1] = first
    BY <1>4, Single
  <2>2. p + 1 - 1 = p
    OBVIOUS
  <2> QED
    BY <1>3, <2>1, <2>2
<1>6. Len(TokensOf(line)) = 1
  BY <1>4, Single
<1>7. line.kind = "bare" => line.key \in Words
  BY <1>1 DEF Lines
<1>8. Len(tokens) \in Nat
  BY DEF Rendered
<1>9. p >= 1 /\ p <= Len(tokens)
  BY <1>5, <1>8
<1>10. (line.kind = "bare" => tokens[p] = line.key) /\ (line.kind # "bare" => tokens[p] = "}")
  BY <1>4, <1>5
<1> QED
  BY <1>1, <1>3, <1>6, <1>7, <1>9, <1>10

LEMMA Kinds ==
  ASSUME NEW d, Rendered(d), NEW n \in DOMAIN d
  PROVE  /\ d[n].kind \in {"key", "bare", "open", "close", "stray"}
         /\ d[n].level \in Nat /\ n \in Nat /\ n >= 1 /\ n <= Len(d) /\ Len(d) \in Nat
         /\ n + 1 \in 1 .. Len(d) + 1
         /\ Position(d, n) \in Nat /\ Position(d, n) >= 1 /\ Position(d, n) <= Len(tokens)
         /\ d[n].kind = "close" => d[n].level = Indent(d, n) - 1
         /\ d[n].kind # "close" => d[n].level = Indent(d, n)
         /\ Indent(d, n + 1) = d[n].level + (IF d[n].kind = "open" THEN 1 ELSE 0)
<1>1. d[n] \in Lines /\ n \in 1 .. Len(d) /\ Len(d) \in Nat
  BY TokenFacts
<1>2. d[n].kind \in {"key", "bare", "open", "close", "stray"} /\ d[n].level \in Nat
  BY <1>1 DEF Lines
<1>3. Position(d, n) \in Nat /\ Position(d, n) >= 1 /\ Position(d, n) <= Len(tokens)
  <2>1. Len(tokens) \in Nat
    BY DEF Rendered
  <2>2. CASE d[n].kind \in {"key", "open"}
    <3>1. PICK p \in Nat : p = Position(d, n)
      BY <2>2, PairSpelled
    <3>2. p >= 1 /\ p + 1 <= Len(tokens)
      BY <2>2, <3>1, PairSpelled
    <3> QED
      BY <2>1, <3>1, <3>2
  <2>3. CASE d[n].kind \in {"bare", "close", "stray"}
    BY <2>3, SingleSpelled
  <2> QED
    BY <1>2, <2>2, <2>3
<1>4. d[n].level = IF d[n].kind = "close" THEN Indent(d, n) - 1 ELSE Indent(d, n)
  BY DEF Rendered, LaidOut
<1>5. Indent(d, n + 1) = d[n].level + (IF d[n].kind = "open" THEN 1 ELSE 0)
  BY <1>1 DEF Indent
<1> QED
  BY <1>1, <1>2, <1>3, <1>4, <1>5

LEMMA LastPosition ==
  ASSUME NEW d, Rendered(d)
  PROVE  /\ Len(tokens) \in Nat /\ Len(d) \in Nat /\ DOMAIN d = 1 .. Len(d)
         /\ Position(d, Len(d) + 1) = Len(tokens) + 1
BY DEF Rendered, Renders

\* The reply ends where the document does.
LEMMA EndOfLines ==
  ASSUME NEW d, Rendered(d), NEW n \in 1 .. Len(d) + 1, NEW kinds,
         kinds \subseteq {"key", "open"}, AtLine(d, n, kinds)
  PROVE  AtEnd <=> n = Len(d) + 1
<1>1. /\ Len(tokens) \in Nat /\ Len(d) \in Nat /\ DOMAIN d = 1 .. Len(d)
      /\ Position(d, Len(d) + 1) = Len(tokens) + 1
  BY LastPosition
<1>2. CASE n = Len(d) + 1
  BY <1>1, <1>2 DEF AtLine, AtEnd
<1>3. CASE n # Len(d) + 1
  <2>1. n \in DOMAIN d
    BY <1>1, <1>3
  <2>2. Position(d, n) \in Nat /\ Position(d, n) <= Len(tokens)
    BY <2>1, Kinds
  <2>3. d[n].kind \in {"key", "open"} => Position(d, n) + 1 <= Len(tokens)
    BY <2>1, PairSpelled
  <2>4. pos <= Len(tokens)
    BY <1>1, <2>2, <2>3 DEF AtLine
  <2>5. pos \in Nat
    BY <1>1, <2>2 DEF AtLine
  <2> QED
    BY <1>1, <1>3, <2>4, <2>5 DEF AtEnd
<1> QED
  BY <1>2, <1>3

\* What follows a key without a value cannot be taken for one.
LEMMA BareFollowed ==
  ASSUME NEW d, Rendered(d), NEW n \in DOMAIN d, d[n].kind = "bare"
  PROVE  /\ Position(d, n) + 1 <= Len(tokens) => tokens[Position(d, n) + 1] \in Braces \cup KnownKeys
         /\ d[n].key # "device" /\ d[n].level > 0
<1>1. /\ Len(tokens) \in Nat /\ Len(d) \in Nat /\ DOMAIN d = 1 .. Len(d)
      /\ Position(d, Len(d) + 1) = Len(tokens) + 1
  BY LastPosition
<1>2. Position(d, n + 1) = Position(d, n) + 1 /\ Position(d, n) \in Nat
  BY SingleSpelled
<1>3. /\ d[n].level > 0 /\ d[n].key # "device"
      /\ n < Len(d) => d[n + 1].kind = "close" \/ d[n + 1].key \in KnownKeys
  BY DEF Rendered, Readable
<1>4. CASE n = Len(d)
  BY <1>1, <1>2, <1>3, <1>4
<1>5. CASE n # Len(d)
  <2>1. n + 1 \in DOMAIN d /\ n < Len(d)
    BY <1>1, <1>5
  <2>2. d[n + 1].kind \in {"key", "bare", "open", "close", "stray"}
    BY <2>1, Kinds
  <2>3. CASE d[n + 1].kind \in {"key", "open"}
    <3>1. tokens[Position(d, n + 1)] = d[n + 1].key
      BY <2>1, <2>3, PairSpelled
    <3> QED
      BY <1>2, <1>3, <2>1, <2>3, <3>1
  <2>4. CASE d[n + 1].kind = "bare"
    <3>1. tokens[Position(d, n + 1)] = d[n + 1].key
      BY <2>1, <2>4, SingleSpelled
    <3> QED
      BY <1>2, <1>3, <2>1, <2>4, <3>1
  <2>5. CASE d[n + 1].kind \in {"close", "stray"}
    <3>1. tokens[Position(d, n + 1)] = "}"
      BY <2>1, <2>5, SingleSpelled
    <3> QED
      BY <1>2, <1>3, <3>1 DEF Braces
  <2> QED
    BY <2>2, <2>3, <2>4, <2>5
<1> QED
  BY <1>4, <1>5
-----------------------------------------------------------------------------
LEMMA SectionFacts ==
  ASSUME NEW d, NEW name, NEW j \in Sections(d, name)
  PROVE  j \in DOMAIN d /\ d[j].kind = "open" /\ d[j].key = name /\ d[j].level = 0
BY DEF Sections

LEMMA DeviceFacts ==
  ASSUME NEW d, NEW j \in Devices(d)
  PROVE  /\ j \in DOMAIN d /\ d[j].kind = "open" /\ d[j].key = "device" /\ d[j].level = 1
         /\ \E i \in Sections(d, "devices") :
              i < j /\ \A k \in i + 1 .. j : d[k].level > 0
<1>1. PICK i \in Sections(d, "devices") : j \in Entries(d, i)
  BY DEF Devices
<1>2. d[i].level = 0
  BY SectionFacts
<1>3. d[j].level = 0 + 1 /\ i < j /\ \A k \in i + 1 .. j : d[k].level > 0
  BY <1>1, <1>2 DEF Entries
<1> QED
  BY <1>3 DEF Devices

\* Nothing within a block or a skipped section is a section or a device.
LEMMA QuietInside ==
  ASSUME NEW d, Rendered(d), NEW j, NEW n \in 1 .. Len(d) + 1, Within(d, j, n),
         (d[j].level = 0 /\ d[j].key # "devices") \/ j \in Devices(d),
         NEW k \in j + 1 .. n - 1
  PROVE  /\ k \notin Devices(d) /\ k \notin Sections(d, "defaults")
         /\ k \notin Sections(d, "overrides")
<1>1. /\ j \in DOMAIN d /\ DOMAIN d = 1 .. Len(d) /\ Len(d) \in Nat
  BY LastPosition DEF Within
<1>2. j \in Nat /\ k \in Nat /\ j < k /\ k \in DOMAIN d /\ n \in Nat /\ k < n
  BY <1>1
<1>3. d[j].level \in Nat /\ d[k].level \in Nat
  BY <1>1, <1>2, Kinds
<1>4. \A i \in j + 1 .. n - 1 : d[i].level > d[j].level
  BY DEF Within
<1>5. d[k].level > 0
  BY <1>3, <1>4
<1>6. k \notin Sections(d, "defaults") /\ k \notin Sections(d, "overrides")
  BY <1>5, SectionFacts
<1>7. ASSUME k \in Devices(d) PROVE FALSE
  <2>1. d[k].level = 1
    BY <1>7, DeviceFacts
  <2>2. d[j].level = 0
    BY <1>3, <1>4, <2>1
  <2>3. d[j].key # "devices"
    BY <2>2, DeviceFacts
  <2>4. PICK i \in Sections(d, "devices") : i < k /\ \A l \in i + 1 .. k : d[l].level > 0
    BY <1>7, DeviceFacts
  <2>5. i \in Nat /\ d[i].level = 0 /\ d[i].key = "devices"
    BY <1>1, <2>4, SectionFacts
  <2>6. CASE i < j
    <3>1. j \in i + 1 .. k
      BY <1>2, <2>5, <2>6
    <3> QED
      BY <2>2, <2>4, <3>1
  <2>7. CASE i > j
    <3>1. i \in j + 1 .. n - 1
      BY <1>2, <2>4, <2>5, <2>7
    <3> QED
      BY <1>4, <2>2, <2>5, <3>1
  <2>8. CASE i = j
    BY <2>3, <2>5, <2>8
  <2> QED
    BY <1>2, <2>5, <2>6, <2>7, <2>8
<1> QED
  BY <1>6, <1>7

\* No section or device is added by lines that begin none.
LEMMA SameBefore ==
  ASSUME NEW d, NEW m \in Nat, NEW n \in Nat, m <= n, DOMAIN d \subseteq Nat,
         \A k \in m .. n - 1 : /\ k \notin Devices(d) /\ k \notin Sections(d, "defaults")
                               /\ k \notin Sections(d, "overrides")
  PROVE  /\ DevicesBefore(d, m) = DevicesBefore(d, n)
         /\ SectionsBefore(d, "defaults", m) = SectionsBefore(d, "defaults", n)
         /\ SectionsBefore(d, "overrides", m) = SectionsBefore(d, "overrides", n)
<1>1. \A k \in Nat : k < n /\ ~(k < m) => k \in m .. n - 1
  OBVIOUS
<1>2. DevicesBefore(d, m) = DevicesBefore(d, n)
  <2>1. Devices(d) \subseteq Nat
    BY DEF Devices
  <2> QED
    BY <1>1, <2>1 DEF DevicesBefore
<1>3. /\ SectionsBefore(d, "defaults", m) = SectionsBefore(d, "defaults", n)
      /\ SectionsBefore(d, "overrides", m) = SectionsBefore(d, "overrides", n)
  <2>1. Sections(d, "defaults") \subseteq Nat /\ Sections(d, "overrides") \subseteq Nat
    BY DEF Sections
  <2> QED
    BY <1>1, <2>1 DEF SectionsBefore
<1> QED
  BY <1>2, <1>3

\* A number above all those of a set is the largest when it is added.
LEMMA MaxOfAdded ==
  ASSUME NEW S, S \subseteq Nat, NEW n \in Nat, \A x \in S : x < n
  PROVE  Max(S \cup {n}) = n
<1>1. \A y \in S \cup {n} : n >= y /\ y \in Nat
  OBVIOUS
<1>2. PICK T : T = S \cup {n}
  OBVIOUS
<1>3. n \in T /\ \A y \in T : n >= y /\ y \in Nat
  BY <1>1, <1>2
<1>4. PICK m : m = Max(T)
  OBVIOUS
<1>5. m \in T /\ \A y \in T : m >= y
  BY <1>3, <1>4 DEF Max
<1>6. m = n
  BY <1>3, <1>5
<1> QED
  BY <1>2, <1>4, <1>6

\* The section that line j opens is the last so far.
LEMMA LastSection ==
  ASSUME NEW d, DOMAIN d \subseteq Nat, NEW name, NEW j \in Sections(d, name)
  PROVE  LastMeaning(d, SectionsBefore(d, name, j + 1)) = MeaningOf(d, j)
<1>1. j \in Nat /\ Sections(d, name) \subseteq Nat
  BY DEF Sections
<1>2. PICK S : S = SectionsBefore(d, name, j)
  OBVIOUS
<1>3. SectionsBefore(d, name, j + 1) = S \cup {j} /\ S \subseteq Nat /\ \A x \in S : x < j
  BY <1>1, <1>2 DEF SectionsBefore
<1>4. Max(S \cup {j}) = j /\ S \cup {j} # {}
  BY <1>1, <1>3, MaxOfAdded
<1> QED
  BY <1>3, <1>4 DEF LastMeaning

LEMMA OtherSection ==
  ASSUME NEW d, DOMAIN d \subseteq Nat, NEW name, NEW j \in Nat, j \notin Sections(d, name)
  PROVE  SectionsBefore(d, name, j + 1) = SectionsBefore(d, name, j)
<1>1. Sections(d, name) \subseteq Nat
  BY DEF Sections
<1> QED
  BY <1>1 DEF SectionsBefore

\* Devices count up in their order.
LEMMA NewDevice ==
  ASSUME NEW d, Rendered(d), NEW j \in Devices(d)
  PROVE  /\ DevicesBefore(d, j + 1) = DevicesBefore(d, j) \cup {j}
         /\ j \notin DevicesBefore(d, j)
         /\ Cardinality(DevicesBefore(d, j)) \in Nat
         /\ Cardinality(DevicesBefore(d, j + 1)) = Cardinality(DevicesBefore(d, j)) + 1
         /\ Rank(d, j) = Cardinality(DevicesBefore(d, j)) + 1
<1>1. Devices(d) \subseteq 1 .. Len(d) /\ Len(d) \in Nat /\ j \in Nat
  BY LastPosition DEF Devices
<1>2. IsFiniteSet(1 .. Len(d))
  BY <1>1, FS_Interval
<1>3. DevicesBefore(d, j) \subseteq 1 .. Len(d)
  BY <1>1 DEF DevicesBefore
<1>4. IsFiniteSet(DevicesBefore(d, j)) /\ Cardinality(DevicesBefore(d, j)) \in Nat
  BY <1>2, <1>3, FS_Subset, FS_CardinalityType
<1>5. j \notin DevicesBefore(d, j)
  BY <1>1 DEF DevicesBefore
<1>6. DevicesBefore(d, j + 1) = DevicesBefore(d, j) \cup {j}
  BY <1>1 DEF DevicesBefore
<1>7. {i \in Devices(d) : i <= j} = DevicesBefore(d, j) \cup {j}
  BY <1>1 DEF DevicesBefore
<1>8. Cardinality(DevicesBefore(d, j) \cup {j}) = Cardinality(DevicesBefore(d, j)) + 1
  BY <1>4, <1>5, FS_AddElement
<1> QED
  BY <1>4, <1>5, <1>6, <1>7, <1>8 DEF Rank

LEMMA OtherDevice ==
  ASSUME NEW d, DOMAIN d \subseteq Nat, NEW j \in Nat, j \notin Devices(d)
  PROVE  DevicesBefore(d, j + 1) = DevicesBefore(d, j)
<1>1. Devices(d) \subseteq Nat
  BY DEF Devices
<1> QED
  BY <1>1 DEF DevicesBefore

\* A device that has been parsed is appended to those before it.
LEMMA DeviceSaved ==
  ASSUME ConfigTypeOK, NEW d, Rendered(d), NEW j \in Devices(d), MeansBefore(d, j),
         config' = [config EXCEPT !.devices = Append(config.devices, MeaningOf(d, j))]
  PROVE  MeansBefore(d, j + 1)'
<1>1. DOMAIN d = 1 .. Len(d) /\ Len(d) \in Nat /\ j \in Nat /\ DOMAIN d \subseteq Nat
  BY LastPosition DEF Devices
<1>2. PICK devices : devices = config.devices
  OBVIOUS
<1>3. devices \in Seq(DeviceConfig) /\ Len(devices) \in Nat /\ DOMAIN devices = 1 .. Len(devices)
  BY <1>2 DEF ConfigTypeOK
<1>4. /\ config'.devices = Append(devices, MeaningOf(d, j))
      /\ config'.defaults = config.defaults /\ config'.overrides = config.overrides
  BY <1>2 DEF ConfigTypeOK
<1>5. /\ j \notin Sections(d, "defaults") /\ j \notin Sections(d, "overrides")
  BY SectionFacts, DeviceFacts
<1>6. /\ config'.defaults = LastMeaning(d, SectionsBefore(d, "defaults", j + 1))
      /\ config'.overrides = LastMeaning(d, SectionsBefore(d, "overrides", j + 1))
  BY <1>1, <1>4, <1>5, OtherSection DEF MeansBefore
<1>7. /\ DevicesBefore(d, j + 1) = DevicesBefore(d, j) \cup {j}
      /\ Cardinality(DevicesBefore(d, j + 1)) = Len(devices) + 1
      /\ Rank(d, j) = Len(devices) + 1
  BY <1>2, NewDevice DEF MeansBefore
<1>8. PICK after : after = config'.devices
  OBVIOUS
<1>9. /\ Len(after) = Len(devices) + 1 /\ DOMAIN after = 1 .. Len(devices) + 1
      /\ \A k \in 1 .. Len(devices) : after[k] = devices[k]
      /\ after[Len(devices) + 1] = MeaningOf(d, j)
  <2>1. after = Append(devices, MeaningOf(d, j))
    BY <1>4, <1>8
  <2> QED
    BY <1>3, <2>1
<1>10. \A i \in DevicesBefore(d, j + 1) :
         Rank(d, i) \in DOMAIN after /\ after[Rank(d, i)] = MeaningOf(d, i)
  <2> SUFFICES ASSUME NEW i \in DevicesBefore(d, j + 1)
               PROVE  Rank(d, i) \in DOMAIN after /\ after[Rank(d, i)] = MeaningOf(d, i)
    OBVIOUS
  <2>1. CASE i = j
    BY <1>3, <1>7, <1>9, <2>1
  <2>2. CASE i # j
    <3>1. i \in DevicesBefore(d, j)
      BY <1>7, <2>2
    <3>2. Rank(d, i) \in DOMAIN devices /\ devices[Rank(d, i)] = MeaningOf(d, i)
      BY <1>2, <3>1 DEF MeansBefore
    <3> QED
      BY <1>3, <1>9, <3>2
  <2> QED
    BY <2>1, <2>2
<1>11. \A k \in DOMAIN after : \E i \in DevicesBefore(d, j + 1) : Rank(d, i) = k
  <2> SUFFICES ASSUME NEW k \in DOMAIN after
               PROVE  \E i \in DevicesBefore(d, j + 1) : Rank(d, i) = k
    OBVIOUS
  <2>1. CASE k = Len(devices) + 1
    BY <1>7, <2>1
  <2>2. CASE k # Len(devices) + 1
    <3>1. k \in DOMAIN devices
      BY <1>3, <1>9, <2>2
    <3>2. \E i \in DevicesBefore(d, j) : Rank(d, i) = k
      BY <1>2, <3>1 DEF MeansBefore
    <3> QED
      BY <1>7, <3>2
  <2> QED
    BY <2>1, <2>2
<1> QED
  BY <1>6, <1>7, <1>8, <1>9, <1>10, <1>11 DEF MeansBefore

\* A section that has been parsed replaces the one before it.
LEMMA SectionSaved ==
  ASSUME ConfigTypeOK, NEW d, Rendered(d), NEW name \in {"defaults", "overrides"},
         NEW j \in Sections(d, name), MeansBefore(d, j),
         config' = [config EXCEPT ![name] = MeaningOf(d, j)]
  PROVE  MeansBefore(d, j + 1)'
<1>1. DOMAIN d \subseteq Nat /\ j \in Nat
  BY LastPosition DEF Sections
<1>2. /\ config'.devices = config.devices
      /\ name = "defaults" => config'.defaults = MeaningOf(d, j) /\ config'.overrides = config.overrides
      /\ name = "overrides" => config'.overrides = MeaningOf(d, j) /\ config'.defaults = config.defaults
  BY DEF ConfigTypeOK
<1>3. j \notin Devices(d)
  BY SectionFacts, DeviceFacts
<1>4. DevicesBefore(d, j + 1) = DevicesBefore(d, j)
  BY <1>1, <1>3, OtherDevice
<1>5. /\ config'.defaults = LastMeaning(d, SectionsBefore(d, "defaults", j + 1))
      /\ config'.overrides = LastMeaning(d, SectionsBefore(d, "overrides", j + 1))
  <2>1. CASE name = "defaults"
    <3>1. j \notin Sections(d, "overrides")
      BY <2>1, SectionFacts
    <3> QED
      BY <1>1, <1>2, <2>1, <3>1, LastSection, OtherSection DEF MeansBefore
  <2>2. CASE name = "overrides"
    <3>1. j \notin Sections(d, "defaults")
      BY <2>2, SectionFacts
    <3> QED
      BY <1>1, <1>2, <2>2, <3>1, LastSection, OtherSection DEF MeansBefore
  <2> QED
    BY <2>1, <2>2
<1> QED
  BY <1>2, <1>4, <1>5 DEF MeansBefore
-----------------------------------------------------------------------------
\* A section that has just been opened says nothing yet.
LEMMA MeaningOpened ==
  ASSUME NEW d, NEW j \in Nat, DOMAIN d \subseteq Nat
  PROVE  MeaningBefore(d, j, j + 1) = Nothing
<1>1. \A s \in Settings : GivenBefore(d, j, s, j + 1) = {}
  BY DEF GivenBefore, Given, Entries
<1> QED
  BY <1>1 DEF MeaningBefore, ValueGiven, Nothing

LEMMA MeaningSame ==
  ASSUME NEW d, NEW j, NEW n \in Nat, DOMAIN d \subseteq Nat,
         \A s \in Settings : n \notin Given(d, j, s)
  PROVE  MeaningBefore(d, j, n + 1) = MeaningBefore(d, j, n)
<1>1. \A s \in Settings : Given(d, j, s) \subseteq Nat
  BY DEF Given, Entries
<1>2. \A s \in Settings : GivenBefore(d, j, s, n + 1) = GivenBefore(d, j, s, n)
  BY <1>1 DEF GivenBefore
<1> QED
  BY <1>2 DEF MeaningBefore

\* A line that is indented once more than the section is directly within it.
LEMMA EntryOf ==
  ASSUME NEW d, Rendered(d), NEW j, NEW n \in DOMAIN d, Within(d, j, n),
         d[n].level = d[j].level + 1
  PROVE  n \in Entries(d, j)
<1>1. n \in Nat /\ j \in Nat /\ j < n /\ j \in DOMAIN d
  BY LastPosition DEF Within
<1>2. d[j].level \in Nat /\ d[n].level > d[j].level
  BY <1>1, Kinds
<1>3. \A k \in j + 1 .. n : d[k].level > d[j].level
  <2> SUFFICES ASSUME NEW k \in j + 1 .. n PROVE d[k].level > d[j].level
    OBVIOUS
  <2>1. CASE k = n
    BY <1>2, <2>1
  <2>2. CASE k # n
    <3>1. k \in j + 1 .. n - 1
      BY <1>1, <2>2
    <3> QED
      BY <3>1 DEF Within
  <2> QED
    BY <2>1, <2>2
<1> QED
  BY <1>1, <1>3 DEF Entries

\* A key directly within the section sets its setting, whatever was set before.
LEMMA MeaningOfKey ==
  ASSUME NEW d, Rendered(d), NEW j, NEW n \in DOMAIN d, Within(d, j, n),
         d[n].kind = "key", d[n].level = d[j].level + 1
  PROVE  MeaningBefore(d, j, n + 1) =
           IF d[n].key \in Settings
           THEN [MeaningBefore(d, j, n) EXCEPT ![d[n].key] =
                   IF d[n].key = "polling_interval" /\ d[n].val \notin DOMAIN Number
                   THEN None ELSE d[n].val]
           ELSE MeaningBefore(d, j, n)
<1>1. DOMAIN d \subseteq Nat /\ n \in Nat /\ j \in Nat /\ j < n /\ j \in DOMAIN d
  BY LastPosition DEF Within
<1>2. d[j].level \in Nat
  BY <1>1, Kinds
<1>3. n \in Entries(d, j)
  BY EntryOf
<1>4. \A s : n \in Given(d, j, s) <=> s = d[n].key
  BY <1>3 DEF Given
<1>5. CASE d[n].key \notin Settings
  <2>1. \A s \in Settings : n \notin Given(d, j, s)
    BY <1>4, <1>5
  <2> QED
    BY <1>1, <1>5, <2>1, MeaningSame
<1>6. CASE d[n].key \in Settings
  <2>1. PICK s \in Settings : s = d[n].key
    BY <1>6
  <2>2. \A t \in Settings \ {s} : GivenBefore(d, j, t, n + 1) = GivenBefore(d, j, t, n)
    <3>1. \A t \in Settings \ {s} : n \notin Given(d, j, t) /\ Given(d, j, t) \subseteq Nat
      BY <1>1, <1>4, <2>1 DEF Given, Entries
    <3> QED
      BY <1>1, <3>1 DEF GivenBefore
  <2>3. PICK S : S = GivenBefore(d, j, s, n)
    OBVIOUS
  <2>4. GivenBefore(d, j, s, n + 1) = S \cup {n} /\ S \subseteq Nat /\ \A x \in S : x < n
    <3>1. n \in Given(d, j, s) /\ Given(d, j, s) \subseteq Nat
      BY <1>1, <1>4, <2>1 DEF Given, Entries
    <3> QED
      BY <1>1, <2>3, <3>1 DEF GivenBefore
  <2>5. Max(S \cup {n}) = n /\ S \cup {n} # {}
    BY <1>1, <2>4, MaxOfAdded
  <2>6. ValueGiven(d, GivenBefore(d, j, s, n + 1), s) =
          IF s = "polling_interval" /\ d[n].val \notin DOMAIN Number THEN None ELSE d[n].val
    BY <2>4, <2>5 DEF ValueGiven
  <2>7. PICK v : v = IF s = "polling_interval" /\ d[n].val \notin DOMAIN Number
                     THEN None ELSE d[n].val
    OBVIOUS
  <2>8. MeaningBefore(d, j, n + 1) = [MeaningBefore(d, j, n) EXCEPT ![s] = v]
    BY <2>2, <2>6, <2>7 DEF MeaningBefore
  <2> QED
    BY <1>6, <2>1, <2>7, <2>8
<1> QED
  BY <1>5, <1>6

\* When a section is closed, or the document ends, its lines have all been read.
LEMMA MeaningComplete ==
  ASSUME NEW d, Rendered(d), NEW j, NEW n \in 1 .. Len(d) + 1, Within(d, j, n),
         n \in DOMAIN d => d[n].level = d[j].level
  PROVE  MeaningBefore(d, j, n) = MeaningOf(d, j)
<1>1. DOMAIN d = 1 .. Len(d) /\ Len(d) \in Nat /\ n \in Nat /\ j \in Nat /\ j < n /\ j \in DOMAIN d
  BY LastPosition DEF Within
<1>2. d[j].level \in Nat
  BY <1>1, Kinds
<1>3. \A i \in Entries(d, j) : i < n
  <2> SUFFICES ASSUME NEW i \in Entries(d, j), ~(i < n) PROVE FALSE
    OBVIOUS
  <2>1. i \in 1 .. Len(d) /\ \A k \in j + 1 .. i : d[k].level > d[j].level
    BY <1>1 DEF Entries
  <2>2. n \in DOMAIN d /\ n \in j + 1 .. i
    BY <1>1, <2>1
  <2> QED
    BY <1>2, <2>1, <2>2
<1>4. \A s \in Settings : GivenBefore(d, j, s, n) = Given(d, j, s)
  BY <1>3 DEF GivenBefore, Given
<1> QED
  BY <1>4 DEF MeaningBefore, MeaningOf

LEMMA WithinOpened ==
  ASSUME NEW d, Rendered(d), NEW j \in DOMAIN d, d[j].kind = "open"
  PROVE  Within(d, j, j + 1) /\ Indent(d, j + 1) = d[j].level + 1 /\ j \in Nat
<1>1. j \in Nat /\ d[j].level \in Nat /\ Indent(d, j + 1) = d[j].level + 1
  BY Kinds
<1> QED
  BY <1>1 DEF Within

\* A line within a section is not a stray brace, and closes the section or is
\* indented further.
LEMMA WithinKinds ==
  ASSUME NEW d, Rendered(d), NEW j, NEW n \in DOMAIN d, Within(d, j, n)
  PROVE  /\ d[n].kind \in {"key", "bare", "open", "close"}
         /\ d[n].kind # "close" => d[n].level = Indent(d, n)
         /\ d[n].kind = "close" => d[n].level = Indent(d, n) - 1
         /\ d[n].level >= d[j].level
         /\ d[j].level \in Nat /\ d[n].level \in Nat /\ Indent(d, n) \in Nat
<1>1. j \in DOMAIN d /\ d[j].level < Indent(d, n)
  BY DEF Within
<1>2. d[j].level \in Nat /\ d[n].level \in Nat
  BY <1>1, Kinds
<1>3. /\ d[n].kind \in {"key", "bare", "open", "close", "stray"}
      /\ d[n].kind = "close" => d[n].level = Indent(d, n) - 1
      /\ d[n].kind # "close" => d[n].level = Indent(d, n)
  BY Kinds
<1>4. Indent(d, n) \in Nat
  <2>1. n = 1 \/ n - 1 \in DOMAIN d
    BY LastPosition
  <2>2. CASE n = 1
    BY <2>2 DEF Indent
  <2>3. CASE n - 1 \in DOMAIN d
    BY <2>3, Kinds DEF Indent
  <2> QED
    BY <2>1, <2>2, <2>3
<1>5. d[n].kind = "stray" => d[n].level = 0
  BY DEF Rendered, Readable
<1> QED
  BY <1>1, <1>2, <1>3, <1>4, <1>5

LEMMA WithinNext ==
  ASSUME NEW d, Rendered(d), NEW j, NEW n \in DOMAIN d, Within(d, j, n),
         d[n].level > d[j].level
  PROVE  Within(d, j, n + 1)
<1>1. DOMAIN d \subseteq Nat /\ n \in Nat /\ j \in Nat /\ j < n /\ j \in DOMAIN d
  BY LastPosition DEF Within
<1>2. d[j].level \in Nat /\ d[n].level \in Nat
  BY <1>1, Kinds
<1>3. d[j].level < Indent(d, n + 1)
  <2>1. Indent(d, n + 1) = d[n].level + (IF d[n].kind = "open" THEN 1 ELSE 0)
    BY Kinds
  <2> QED
    BY <1>2, <2>1
<1>4. \A k \in j + 1 .. n : d[k].level > d[j].level
  <2> SUFFICES ASSUME NEW k \in j + 1 .. n PROVE d[k].level > d[j].level
    OBVIOUS
  <2>1. CASE k = n
    BY <2>1
  <2>2. CASE k # n
    <3>1. k \in j + 1 .. n - 1
      BY <1>1, <2>2
    <3> QED
      BY <3>1 DEF Within
  <2> QED
    BY <2>1, <2>2
<1>5. n + 1 - 1 = n /\ j < n + 1
  BY <1>1
<1> QED
  BY <1>1, <1>3, <1>4, <1>5 DEF Within
-----------------------------------------------------------------------------
\* The parser is at the first token of a line at the top of the document.
LEMMA TopLine ==
  ASSUME NEW d, Rendered(d), NEW n \in 1 .. Len(d) + 1, AtTop(d, n), ~AtEnd
  PROVE  /\ n \in DOMAIN d /\ pos = Position(d, n) /\ d[n].level = 0
         /\ d[n].kind \in {"key", "open", "stray"}
         /\ n \notin Devices(d)
         /\ d[n].kind # "open" => Indent(d, n + 1) = 0
<1>1. /\ Len(d) \in Nat /\ DOMAIN d = 1 .. Len(d)
  BY LastPosition
<1>2. n # Len(d) + 1
  BY EndOfLines DEF AtTop
<1>3. n \in DOMAIN d /\ pos = Position(d, n) /\ Indent(d, n) = 0
  BY <1>1, <1>2 DEF AtTop, AtLine
<1>4. /\ d[n].kind \in {"key", "bare", "open", "close", "stray"} /\ d[n].level \in Nat
      /\ d[n].kind = "close" => d[n].level = Indent(d, n) - 1
      /\ d[n].kind # "close" => d[n].level = Indent(d, n)
      /\ Indent(d, n + 1) = d[n].level + (IF d[n].kind = "open" THEN 1 ELSE 0)
  BY <1>3, Kinds
<1>5. d[n].kind # "close" /\ d[n].level = 0
  BY <1>3, <1>4
<1>6. d[n].kind # "bare"
  BY <1>3, <1>5, BareFollowed
<1>7. n \notin Devices(d)
  BY <1>5, DeviceFacts
<1> QED
  BY <1>3, <1>4, <1>5, <1>6, <1>7

\* A line at the top that opens no section of interest adds nothing.
LEMMA TopSame ==
  ASSUME NEW d, Rendered(d), NEW n \in DOMAIN d, MeansBefore(d, n), n \notin Devices(d),
         n \notin Sections(d, "defaults"), n \notin Sections(d, "overrides")
  PROVE  MeansBefore(d, n + 1)
<1>1. n \in Nat /\ DOMAIN d \subseteq Nat
  BY LastPosition
<1>2. \A k \in n .. n + 1 - 1 : k = n
  BY <1>1
<1> QED
  BY <1>1, <1>2, SameBefore DEF MeansBefore

\* After a line at the top the parser is at the next one.
LEMMA NextTop ==
  ASSUME NEW d, Rendered(d), NEW n \in DOMAIN d, AtTop(d, n), d[n].kind # "open",
         n \notin Devices(d), Indent(d, n + 1) = 0, UNCHANGED <<mode, config>>,
         pos' = Position(d, n + 1)
  PROVE  Tracks(d)'
<1>1. n + 1 \in 1 .. Len(d) + 1
  BY Kinds
<1>2. MeansBefore(d, n + 1)
  <2>1. n \notin Sections(d, "defaults") /\ n \notin Sections(d, "overrides")
    BY SectionFacts
  <2> QED
    BY <2>1, TopSame DEF AtTop
<1>3. MeansBefore(d, n + 1)'
  BY <1>2 DEF MeansBefore
<1>4. AtTop(d, n + 1)'
  BY <1>3 DEF AtTop, AtLine
<1> QED
  BY <1>1, <1>4 DEF Tracks

LEMMA TopPair ==
  ASSUME NEW d, Rendered(d), NEW n \in DOMAIN d, pos = Position(d, n),
         d[n].kind \in {"key", "open"}
  PROVE  /\ tokens[pos] = d[n].key /\ d[n].key \notin Braces
         /\ Opens <=> d[n].kind = "open"
         /\ pos + 2 = Position(d, n + 1)
<1>1. /\ Position(d, n) \in Nat /\ Position(d, n) + 1 <= Len(tokens)
      /\ Position(d, n + 1) = Position(d, n) + 2
      /\ tokens[Position(d, n)] = d[n].key /\ d[n].key \in Words
      /\ d[n].kind = "key" => tokens[Position(d, n) + 1] = d[n].val /\ d[n].val \in Words
      /\ d[n].kind = "open" => tokens[Position(d, n) + 1] = "{"
  BY PairSpelled
<1>2. Len(tokens) \in Nat
  BY LastPosition
<1>3. pos < Len(tokens)
  <2>1. PICK p \in Nat : p = Position(d, n)
    BY <1>1
  <2>2. p + 1 <= Len(tokens) /\ pos = p
    BY <1>1, <2>1
  <2> QED
    BY <1>2, <2>2
<1>4. Opens <=> tokens[pos + 1] = "{"
  BY <1>3 DEF Opens
<1> QED
  BY <1>1, <1>4, WordFacts

LEMMA TopSectionStep ==
  ASSUME NEW d, Rendered(d), NEW n \in 1 .. Len(d) + 1, AtTop(d, n), TopSection
  PROVE  Tracks(d)'
<1>1. /\ n \in DOMAIN d /\ pos = Position(d, n) /\ d[n].level = 0
      /\ d[n].kind \in {"key", "open", "stray"}
      /\ n \notin Devices(d)
      /\ d[n].kind # "open" => Indent(d, n + 1) = 0
  BY TopLine DEF TopSection, In
<1>2. /\ tokens[pos] \in {"defaults", "overrides"} /\ UNCHANGED config /\ pos' = pos + 2
      /\ Opens => mode' = "Block" /\ depth' = 1 /\ target' = tokens[pos] /\ block' = Nothing
      /\ ~Opens => UNCHANGED mode
  BY DEF TopSection, EnterBlock, Skip
<1>3. d[n].kind # "stray"
  BY <1>1, <1>2, SingleSpelled
<1>4. /\ tokens[pos] = d[n].key /\ d[n].key \notin Braces
      /\ Opens <=> d[n].kind = "open"
      /\ pos + 2 = Position(d, n + 1)
  BY <1>1, <1>3, TopPair
<1>5. CASE d[n].kind = "key"
  BY <1>1, <1>2, <1>4, <1>5, NextTop
<1>6. CASE d[n].kind = "open"
  <2>1. Within(d, n, n + 1) /\ Indent(d, n + 1) = d[n].level + 1 /\ n \in Nat
    BY <1>1, <1>6, WithinOpened
  <2>2. n \in Sections(d, d[n].key)
    BY <1>1, <1>6 DEF Sections
  <2>3. MeaningBefore(d, n, n + 1) = Nothing
    BY <2>1, LastPosition, MeaningOpened
  <2>4. MeansBefore(d, n)'
    BY <1>2 DEF AtTop, MeansBefore
  <2>5. Within(d, n, n + 1)' /\ depth' = Indent(d, n + 1) - d[n].level
    BY <1>1, <1>2, <1>4, <1>6, <2>1 DEF Within
  <2>6. target' = d[n].key /\ target' # "device" /\ mode' = "Block" /\ block' = MeaningBefore(d, n, n + 1)
    BY <1>2, <1>4, <1>6, <2>3
  <2>7. AtLine(d, n + 1, IF depth = 1 THEN {"open"} ELSE {"key", "open"})'
    BY <1>2, <1>4 DEF AtLine
  <2>8. n \in IF target' = "device" THEN Devices(d) ELSE Sections(d, target')
    BY <2>2, <2>6
  <2>10. /\ mode' = "Block" /\ block' = MeaningBefore(d, n, n + 1)
         /\ depth' = Indent(d, n + 1) - d[n].level
    BY <2>5, <2>6
  <2>11. InBlock(d, n, n + 1)'
    BY <2>4, <2>5, <2>7, <2>8, <2>10 DEF InBlock
  <2>9. n + 1 \in 1 .. Len(d) + 1
    BY <1>1, Kinds
  <2> QED
    BY <1>1, <2>9, <2>11 DEF Tracks
<1> QED
  BY <1>1, <1>3, <1>5, <1>6

LEMMA TopDevicesStep ==
  ASSUME NEW d, Rendered(d), NEW n \in 1 .. Len(d) + 1, AtTop(d, n), TopDevices
  PROVE  Tracks(d)'
<1>1. /\ n \in DOMAIN d /\ pos = Position(d, n) /\ d[n].level = 0
      /\ d[n].kind \in {"key", "open", "stray"}
      /\ n \notin Devices(d)
      /\ d[n].kind # "open" => Indent(d, n + 1) = 0
  BY TopLine DEF TopDevices, In
<1>2. /\ tokens[pos] = "devices" /\ UNCHANGED config /\ pos' = pos + 2 /\ mode = "Top"
      /\ mode' = IF Opens THEN "Devices" ELSE "Top"
  BY DEF TopDevices, Skip, In
<1>3. d[n].kind # "stray"
  BY <1>1, <1>2, SingleSpelled
<1>4. /\ tokens[pos] = d[n].key /\ d[n].key \notin Braces
      /\ Opens <=> d[n].kind = "open"
      /\ pos + 2 = Position(d, n + 1)
  BY <1>1, <1>3, TopPair
<1>5. CASE d[n].kind = "key"
  BY <1>1, <1>2, <1>4, <1>5, NextTop
<1>6. CASE d[n].kind = "open"
  <2>1. Within(d, n, n + 1) /\ Indent(d, n + 1) = d[n].level + 1 /\ n \in Nat
    BY <1>1, <1>6, WithinOpened
  <2>2. n \in Sections(d, "devices")
    BY <1>1, <1>2, <1>4, <1>6 DEF Sections
  <2>3. n \notin Sections(d, "defaults") /\ n \notin Sections(d, "overrides")
    BY <1>2, <1>4, SectionFacts
  <2>4. MeansBefore(d, n + 1)
    BY <1>1, <2>3, TopSame DEF AtTop
  <2>5. MeansBefore(d, n + 1)'
    BY <1>2, <2>4 DEF MeansBefore
  <2>6. InDevices(d, n, n + 1)'
    BY <1>1, <1>2, <1>4, <1>6, <2>1, <2>2, <2>5 DEF InDevices, AtLine, Within
  <2>7. n + 1 \in 1 .. Len(d) + 1
    BY <1>1, Kinds
  <2> QED
    BY <1>1, <2>6, <2>7 DEF Tracks
<1> QED
  BY <1>1, <1>3, <1>5, <1>6

LEMMA TopOtherStep ==
  ASSUME NEW d, Rendered(d), NEW n \in 1 .. Len(d) + 1, AtTop(d, n), TopOther
  PROVE  Tracks(d)'
<1>1. /\ n \in DOMAIN d /\ pos = Position(d, n) /\ d[n].level = 0
      /\ d[n].kind \in {"key", "open", "stray"}
      /\ n \notin Devices(d)
      /\ d[n].kind # "open" => Indent(d, n + 1) = 0
  BY TopLine DEF TopOther, In
<1>2. /\ tokens[pos] \notin Braces \cup {"defaults", "overrides", "devices"}
      /\ UNCHANGED config /\ pos' = pos + 2
      /\ Opens => mode' = "Skip" /\ depth' = 1
      /\ ~Opens => UNCHANGED mode
  BY DEF TopOther, Skip
<1>3. d[n].kind # "stray"
  BY <1>1, <1>2, SingleSpelled, WordFacts
<1>4. /\ tokens[pos] = d[n].key /\ d[n].key \notin Braces
      /\ Opens <=> d[n].kind = "open"
      /\ pos + 2 = Position(d, n + 1)
  BY <1>1, <1>3, TopPair
<1>5. CASE d[n].kind = "key"
  BY <1>1, <1>2, <1>4, <1>5, NextTop
<1>6. CASE d[n].kind = "open"
  <2>1. Within(d, n, n + 1) /\ Indent(d, n + 1) = d[n].level + 1 /\ n \in Nat
    BY <1>1, <1>6, WithinOpened
  <2>2. n \notin Sections(d, "defaults") /\ n \notin Sections(d, "overrides")
        /\ d[n].key # "devices"
    BY <1>2, <1>4, SectionFacts
  <2>3. MeansBefore(d, n + 1)
    BY <1>1, <2>2, TopSame DEF AtTop
  <2>4. MeansBefore(d, n + 1)'
    BY <1>2, <2>3 DEF MeansBefore
  <2>5. InSkipped(d, n, n + 1)'
    BY <1>1, <1>2, <1>4, <1>6, <2>1, <2>2, <2>4 DEF InSkipped, AtLine, Within
  <2>6. n + 1 \in 1 .. Len(d) + 1
    BY <1>1, Kinds
  <2> QED
    BY <1>1, <2>5, <2>6 DEF Tracks
<1> QED
  BY <1>1, <1>3, <1>5, <1>6

LEMMA TopBraceStep ==
  ASSUME NEW d, Rendered(d), NEW n \in 1 .. Len(d) + 1, AtTop(d, n), TopBrace
  PROVE  Tracks(d)'
<1>1. /\ n \in DOMAIN d /\ pos = Position(d, n)
      /\ d[n].kind \in {"key", "open", "stray"}
      /\ n \notin Devices(d)
      /\ d[n].kind # "open" => Indent(d, n + 1) = 0
  BY TopLine DEF TopBrace, In
<1>2. d[n].kind = "stray"
  BY <1>1, TopPair DEF TopBrace
<1>3. pos' = Position(d, n + 1)
  BY <1>1, <1>2, SingleSpelled DEF TopBrace, Skip
<1> QED
  BY <1>1, <1>2, <1>3, NextTop DEF TopBrace
-----------------------------------------------------------------------------
\* What the token is that the parser is at, on a line of the document.
LEMMA TokenAt ==
  ASSUME NEW d, Rendered(d), NEW n \in DOMAIN d, NEW kinds, kinds \subseteq {"key", "open"},
         AtLine(d, n, kinds)
  PROVE  /\ pos \in Nat
         /\ \/ /\ d[n].kind \in {"key", "open"} /\ pos = Position(d, n)
               /\ tokens[pos] = d[n].key /\ tokens[pos] \notin Braces
            \/ /\ d[n].kind = "key" /\ "key" \in kinds /\ pos + 1 = Position(d, n + 1)
               /\ tokens[pos] = d[n].val /\ tokens[pos] \notin Braces
            \/ /\ d[n].kind = "open" /\ "open" \in kinds /\ pos + 1 = Position(d, n + 1)
               /\ tokens[pos] = "{"
            \/ /\ d[n].kind = "bare" /\ pos = Position(d, n) /\ pos + 1 = Position(d, n + 1)
               /\ tokens[pos] = d[n].key /\ tokens[pos] \notin Braces
            \/ /\ d[n].kind \in {"close", "stray"} /\ pos + 1 = Position(d, n + 1)
               /\ tokens[pos] = "}"
<1>1. /\ d[n].kind \in {"key", "bare", "open", "close", "stray"}
      /\ Position(d, n) \in Nat
  BY Kinds
<1>2. PICK p \in Nat : p = Position(d, n)
  BY <1>1
<1>3. pos = p \/ (pos = p + 1 /\ d[n].kind \in kinds)
  BY <1>2 DEF AtLine
<1>4. pos \in Nat
  BY <1>3
<1>5. CASE d[n].kind \in {"key", "open"}
  <2>1. /\ Position(d, n + 1) = p + 2
        /\ tokens[p] = d[n].key /\ d[n].key \in Words
        /\ d[n].kind = "key" => tokens[p + 1] = d[n].val /\ d[n].val \in Words
        /\ d[n].kind = "open" => tokens[p + 1] = "{"
    BY <1>2, <1>5, PairSpelled
  <2>2. d[n].key \notin Braces /\ (d[n].kind = "key" => d[n].val \notin Braces)
    BY <2>1, WordFacts
  <2>3. CASE pos = p
    BY <1>2, <1>5, <2>1, <2>2, <2>3
  <2>4. CASE pos = p + 1 /\ d[n].kind \in kinds
    <3>1. PICK k \in {"key", "open"} : k = d[n].kind
      BY <1>5
    <3>2. p + 1 + 1 = p + 2
      OBVIOUS
    <3>3. pos + 1 = Position(d, n + 1)
      BY <2>1, <2>4, <3>2
    <3> QED
      BY <1>4, <2>1, <2>2, <2>4, <3>1, <3>3
  <2> QED
    BY <1>3, <2>3, <2>4
<1>6. CASE d[n].kind \in {"bare", "close", "stray"}
  <2>1. /\ Position(d, n + 1) = p + 1
        /\ d[n].kind = "bare" => tokens[p] = d[n].key /\ d[n].key \in Words
        /\ d[n].kind # "bare" => tokens[p] = "}"
    BY <1>2, <1>6, SingleSpelled
  <2> QED
    BY <1>2, <1>3, <1>4, <1>6, <2>1, WordFacts
<1> QED
  BY <1>1, <1>5, <1>6

\* A line within a block or a skipped section is no section and no device.
LEMMA QuietLine ==
  ASSUME NEW d, Rendered(d), NEW j, NEW n \in DOMAIN d, Within(d, j, n),
         (d[j].level = 0 /\ d[j].key # "devices") \/ j \in Devices(d)
  PROVE  /\ n \notin Devices(d) /\ n \notin Sections(d, "defaults")
         /\ n \notin Sections(d, "overrides")
<1>1. CASE d[n].kind # "open"
  BY <1>1, SectionFacts, DeviceFacts
<1>2. CASE d[n].kind = "open"
  <2>1. d[n].level > d[j].level
    BY <1>2, WithinKinds DEF Within
  <2>2. Within(d, j, n + 1)
    BY <2>1, WithinNext
  <2>3. n + 1 \in 1 .. Len(d) + 1 /\ n \in Nat /\ j < n /\ j \in Nat
    BY Kinds, LastPosition DEF Within
  <2>4. n \in j + 1 .. (n + 1) - 1
    BY <2>3
  <2> QED
    BY <2>2, <2>3, <2>4, QuietInside
<1> QED
  BY <1>1, <1>2

LEMMA SkippedFacts ==
  ASSUME NEW d, Rendered(d), NEW j \in DOMAIN d, NEW n \in 1 .. Len(d) + 1,
         InSkipped(d, j, n), ~AtEnd
  PROVE  /\ n \in DOMAIN d /\ n + 1 \in 1 .. Len(d) + 1
         /\ Within(d, j, n) /\ d[j].level = 0
         /\ MeansBefore(d, n) /\ MeansBefore(d, n + 1)
         /\ depth = Indent(d, n) /\ depth \in Nat /\ depth > 0
<1>1. n # Len(d) + 1
  BY EndOfLines DEF InSkipped
<1>2. n \in DOMAIN d
  BY <1>1, LastPosition
<1>3. Within(d, j, n) /\ d[j].level = 0 /\ d[j].key # "devices" /\ MeansBefore(d, n)
  BY DEF InSkipped
<1>4. depth = Indent(d, n) /\ depth \in Nat /\ depth > 0
  BY <1>2, <1>3, WithinKinds DEF InSkipped, Within
<1>5. MeansBefore(d, n + 1)
  BY <1>2, <1>3, QuietLine, TopSame
<1> QED
  BY <1>2, <1>3, <1>4, <1>5, Kinds

\* After a line of a skipped section the parser is at the next one.
LEMMA NextSkipped ==
  ASSUME NEW d, Rendered(d), NEW j \in DOMAIN d, NEW n \in 1 .. Len(d) + 1,
         InSkipped(d, j, n), ~AtEnd, d[n].level > 0,
         mode' = "Skip", depth' = Indent(d, n + 1), UNCHANGED config, pos' = Position(d, n + 1)
  PROVE  Tracks(d)'
<1>1. /\ n \in DOMAIN d /\ n + 1 \in 1 .. Len(d) + 1 /\ Within(d, j, n) /\ d[j].level = 0
      /\ MeansBefore(d, n + 1)
  BY SkippedFacts
<1>2. Within(d, j, n + 1)
  BY <1>1, WithinNext
<1>3. MeansBefore(d, n + 1)'
  BY <1>1 DEF MeansBefore
<1>4. Within(d, j, n + 1)' /\ d[j].key # "devices"
  BY <1>2 DEF InSkipped, Within
<1>5. InSkipped(d, j, n + 1)'
  BY <1>1, <1>3, <1>4 DEF InSkipped, AtLine
<1> QED
  BY <1>1, <1>5 DEF Tracks

LEMMA SkipTokenStep ==
  ASSUME NEW d, Rendered(d), NEW j \in DOMAIN d, NEW n \in 1 .. Len(d) + 1,
         InSkipped(d, j, n), SkipToken
  PROVE  Tracks(d)'
<1>1. mode = "Skip" /\ ~AtEnd /\ pos' = pos + 1 /\ UNCHANGED config
  BY DEF SkipToken, In, Skip
<1>13. /\ tokens[pos] = "{" => depth' = depth + 1
       /\ tokens[pos] = "}" => depth' = depth - 1
       /\ tokens[pos] \notin Braces => depth' = depth
  BY DEF SkipToken, Braces
<1>14. /\ depth' = 0 => mode' = "Top"
       /\ depth' # 0 => mode' = "Skip"
  BY DEF SkipToken
<1>2. /\ n \in DOMAIN d /\ n + 1 \in 1 .. Len(d) + 1
      /\ Within(d, j, n) /\ d[j].level = 0
      /\ MeansBefore(d, n) /\ MeansBefore(d, n + 1)
      /\ depth = Indent(d, n) /\ depth \in Nat /\ depth > 0
  BY <1>1, SkippedFacts
<1>3. /\ d[n].kind \in {"key", "bare", "open", "close"}
      /\ d[n].kind # "close" => d[n].level = depth
      /\ d[n].kind = "close" => d[n].level = depth - 1
      /\ Indent(d, n + 1) = d[n].level + (IF d[n].kind = "open" THEN 1 ELSE 0)
  BY <1>2, Kinds, WithinKinds
<1>9. PICK D \in Nat : D = depth /\ D = Indent(d, n) /\ D > 0
  BY <1>2
<1>10. PICK level \in Nat : level = d[n].level
  BY <1>2, Kinds
<1>11. /\ d[n].kind # "close" => level = D
       /\ d[n].kind = "close" => level = D - 1
       /\ Indent(d, n + 1) = IF d[n].kind = "open" THEN level + 1 ELSE level
  BY <1>3, <1>9, <1>10
<1>12. /\ tokens[pos] \notin Braces => depth' = D /\ mode' = "Skip"
       /\ tokens[pos] = "{" => depth' = D + 1 /\ mode' = "Skip"
       /\ tokens[pos] = "}" => depth' = D - 1
  <2>1. D # 0 /\ D + 1 # 0
    BY <1>9
  <2>2. PICK e : e = depth'
    OBVIOUS
  <2>3. (e = D => mode' = "Skip") /\ (e = D + 1 => mode' = "Skip")
    BY <1>14, <2>1, <2>2
  <2>4. depth = D /\ depth + 1 = D + 1 /\ depth - 1 = D - 1
    BY <1>9
  <2> QED
    BY <1>13, <2>2, <2>3, <2>4
<1>4. AtLine(d, n, {"key", "open"})
  BY DEF InSkipped
<1>5. ASSUME d[n].kind \in {"key", "open"}, pos = Position(d, n), tokens[pos] \notin Braces
      PROVE  Tracks(d)'
  <2>1. MeansBefore(d, n)' /\ Within(d, j, n)'
    BY <1>1, <1>2 DEF MeansBefore, Within
  <2>2. mode' = "Skip" /\ depth' = Indent(d, n)
    BY <1>5, <1>9, <1>12
  <2>3. AtLine(d, n, {"key", "open"})'
    BY <1>1, <1>2, <1>5 DEF AtLine
  <2>4. InSkipped(d, j, n)'
    BY <2>1, <2>2, <2>3 DEF InSkipped
  <2> QED
    BY <2>4 DEF Tracks
<1>6. ASSUME d[n].kind \in {"key", "bare"}, pos + 1 = Position(d, n + 1),
             tokens[pos] \notin Braces
      PROVE  Tracks(d)'
  <2>1. mode' = "Skip" /\ depth' = Indent(d, n + 1) /\ d[n].level > 0
    BY <1>6, <1>9, <1>10, <1>11, <1>12
  <2> QED
    BY <1>1, <1>6, <2>1, NextSkipped
<1>7. ASSUME d[n].kind = "open", pos + 1 = Position(d, n + 1), tokens[pos] = "{"
      PROVE  Tracks(d)'
  <2>1. mode' = "Skip" /\ depth' = Indent(d, n + 1) /\ d[n].level > 0
    BY <1>7, <1>9, <1>10, <1>11, <1>12
  <2> QED
    BY <1>1, <1>7, <2>1, NextSkipped
<1>8. ASSUME d[n].kind = "close", pos + 1 = Position(d, n + 1), tokens[pos] = "}"
      PROVE  Tracks(d)'
  <2>1. depth' = level /\ Indent(d, n + 1) = level
    BY <1>8, <1>9, <1>10, <1>11, <1>12
  <2>2. CASE d[n].level > 0
    <3>1. mode' = "Skip"
      BY <1>10, <1>14, <2>1, <2>2
    <3> QED
      BY <1>1, <1>8, <1>10, <2>1, <2>2, <3>1, NextSkipped
  <2>3. CASE d[n].level = 0
    <3>1. mode' = "Top" /\ Indent(d, n + 1) = 0 /\ pos' = Position(d, n + 1)
      BY <1>1, <1>8, <1>10, <1>14, <2>1, <2>3
    <3>2. MeansBefore(d, n + 1)'
      BY <1>1, <1>2 DEF MeansBefore
    <3>3. AtTop(d, n + 1)'
      BY <3>1, <3>2 DEF AtTop, AtLine
    <3> QED
      BY <1>2, <3>3 DEF Tracks
  <2> QED
    BY <1>10, <2>2, <2>3
<1> QED
  BY <1>2, <1>3, <1>4, <1>5, <1>6, <1>7, <1>8, TokenAt
-----------------------------------------------------------------------------
\* In a "devices" section the parser is at a setting, a device, or the closing brace.
LEMMA DevicesLine ==
  ASSUME NEW d, Rendered(d), NEW j \in DOMAIN d, NEW n \in 1 .. Len(d) + 1,
         InDevices(d, j, n), ~AtEnd
  PROVE  /\ n \in DOMAIN d /\ n + 1 \in 1 .. Len(d) + 1 /\ Within(d, j, n)
         /\ j \in Sections(d, "devices") /\ d[j].level = 0 /\ MeansBefore(d, n)
         /\ d[n].kind \in {"key", "bare", "open", "close"}
         /\ d[n].kind = "open" => n \in Devices(d) /\ d[n].key = "device"
         /\ d[n].kind # "open" => MeansBefore(d, n + 1)
         /\ d[n].kind # "close" => d[n].level = 1
         /\ d[n].kind = "close" => d[n].level = 0
         /\ d[n].kind = "key" => d[n].val # "device"
         /\ d[n].kind = "bare" => d[n].key # "device"
<1>1. n # Len(d) + 1
  BY EndOfLines DEF InDevices
<1>2. n \in DOMAIN d /\ n + 1 \in 1 .. Len(d) + 1
  BY <1>1, LastPosition, Kinds
<1>3. Within(d, j, n) /\ j \in Sections(d, "devices") /\ MeansBefore(d, n) /\ Indent(d, n) = 1
  BY DEF InDevices
<1>4. d[j].level = 0
  BY <1>3, SectionFacts
<1>5. /\ d[n].kind \in {"key", "bare", "open", "close"}
      /\ d[n].kind # "close" => d[n].level = 1
      /\ d[n].kind = "close" => d[n].level = 0
  BY <1>2, <1>3, WithinKinds
<1>6. d[n].kind = "open" => n \in Devices(d) /\ d[n].key = "device"
  <2> SUFFICES ASSUME d[n].kind = "open" PROVE n \in Devices(d) /\ d[n].key = "device"
    OBVIOUS
  <2>1. n \in Entries(d, j)
    BY <1>2, <1>3, <1>4, <1>5, EntryOf
  <2>2. d[n].key = "device"
    BY <1>2, <1>3, <2>1 DEF Rendered, Readable
  <2> QED
    BY <1>2, <1>3, <2>1, <2>2 DEF Devices
<1>7. d[n].kind # "open" => MeansBefore(d, n + 1)
  BY <1>2, <1>3, SectionFacts, DeviceFacts, TopSame
<1>8. /\ d[n].kind = "key" => d[n].val # "device"
      /\ d[n].kind = "bare" => d[n].key # "device"
  BY <1>2 DEF Rendered, Readable, KnownKeys
<1> QED
  BY <1>2, <1>3, <1>4, <1>5, <1>6, <1>7, <1>8

\* After a setting in "devices" the parser is at the next line.
LEMMA NextDevices ==
  ASSUME NEW d, Rendered(d), NEW j \in DOMAIN d, NEW n \in 1 .. Len(d) + 1,
         InDevices(d, j, n), ~AtEnd, d[n].kind \in {"key", "bare"},
         mode' = "Devices", UNCHANGED config, pos' = Position(d, n + 1)
  PROVE  Tracks(d)'
<1>1. /\ n \in DOMAIN d /\ n + 1 \in 1 .. Len(d) + 1 /\ Within(d, j, n)
      /\ j \in Sections(d, "devices") /\ d[j].level = 0 /\ MeansBefore(d, n + 1)
      /\ d[n].level = 1
  BY DevicesLine
<1>2. Within(d, j, n + 1)
  BY <1>1, WithinNext
<1>3. Indent(d, n + 1) = 1
  BY <1>1, Kinds
<1>4. MeansBefore(d, n + 1)' /\ Within(d, j, n + 1)'
  BY <1>1, <1>2 DEF MeansBefore, Within
<1>5. InDevices(d, j, n + 1)'
  BY <1>1, <1>3, <1>4 DEF InDevices, AtLine
<1> QED
  BY <1>1, <1>5 DEF Tracks

LEMMA DevicesDeviceStep ==
  ASSUME NEW d, Rendered(d), NEW j \in DOMAIN d, NEW n \in 1 .. Len(d) + 1,
         InDevices(d, j, n), DevicesDevice
  PROVE  Tracks(d)'
<1>1. /\ mode = "Devices" /\ ~AtEnd /\ tokens[pos] = "device" /\ UNCHANGED config
      /\ pos' = pos + 2
      /\ Opens => mode' = "Block" /\ depth' = 1 /\ target' = "device" /\ block' = Nothing
      /\ ~Opens => UNCHANGED mode
  BY DEF DevicesDevice, EnterBlock, In, Skip
<1>2. /\ n \in DOMAIN d /\ n + 1 \in 1 .. Len(d) + 1 /\ MeansBefore(d, n)
      /\ d[n].kind \in {"key", "bare", "open", "close"}
      /\ d[n].kind = "open" => n \in Devices(d) /\ d[n].level = 1
      /\ d[n].kind = "key" => d[n].val # "device"
      /\ d[n].kind = "bare" => d[n].key # "device"
  BY <1>1, DevicesLine
<1>3. d[n].kind \in {"key", "open"} /\ pos = Position(d, n)
  <2>1. tokens[pos] \notin Braces
    BY <1>1, WordFacts DEF KnownKeys
  <2>2. AtLine(d, n, {"key"})
    BY DEF InDevices
  <2> QED
    BY <1>1, <1>2, <2>1, <2>2, WordFacts, TokenAt
<1>4. (Opens <=> d[n].kind = "open") /\ pos + 2 = Position(d, n + 1)
  BY <1>2, <1>3, TopPair
<1>5. CASE d[n].kind = "key"
  BY <1>1, <1>4, <1>5, NextDevices
<1>6. CASE d[n].kind = "open"
  <2>1. Within(d, n, n + 1) /\ Indent(d, n + 1) = d[n].level + 1 /\ n \in Nat
    BY <1>2, <1>6, WithinOpened
  <2>2. MeaningBefore(d, n, n + 1) = Nothing
    BY <2>1, LastPosition, MeaningOpened
  <2>3. MeansBefore(d, n)' /\ Within(d, n, n + 1)'
    BY <1>1, <1>2, <2>1 DEF MeansBefore, Within
  <2>4. /\ target' = "device" /\ mode' = "Block" /\ block' = MeaningBefore(d, n, n + 1)
        /\ depth' = Indent(d, n + 1) - d[n].level /\ pos' = Position(d, n + 1)
    BY <1>1, <1>2, <1>4, <1>6, <2>1, <2>2
  <2>5. n \in IF target' = "device" THEN Devices(d) ELSE Sections(d, target')
    BY <1>2, <1>6, <2>4
  <2>6. AtLine(d, n + 1, IF depth = 1 THEN {"open"} ELSE {"key", "open"})'
    BY <2>4 DEF AtLine
  <2>7. InBlock(d, n, n + 1)'
    BY <2>3, <2>4, <2>5, <2>6 DEF InBlock
  <2> QED
    BY <1>2, <2>7 DEF Tracks
<1> QED
  BY <1>3, <1>5, <1>6

LEMMA DevicesOtherStep ==
  ASSUME NEW d, Rendered(d), NEW j \in DOMAIN d, NEW n \in 1 .. Len(d) + 1,
         InDevices(d, j, n), DevicesOther
  PROVE  Tracks(d)'
<1>1. /\ mode = "Devices" /\ ~AtEnd /\ tokens[pos] # "device" /\ UNCHANGED config
      /\ pos' = pos + 1
      /\ tokens[pos] = "}" => mode' = "Top"
      /\ tokens[pos] # "}" => mode' = "Devices"
  BY DEF DevicesOther, In, Skip
<1>2. /\ n \in DOMAIN d /\ n + 1 \in 1 .. Len(d) + 1 /\ Within(d, j, n) /\ MeansBefore(d, n)
      /\ j \in Sections(d, "devices")
      /\ d[n].kind \in {"key", "bare", "open", "close"}
      /\ d[n].kind = "open" => d[n].key = "device"
      /\ d[n].kind # "open" => MeansBefore(d, n + 1)
      /\ d[n].kind = "close" => d[n].level = 0
  BY <1>1, DevicesLine
<1>3. AtLine(d, n, {"key"}) /\ Indent(d, n) = 1
  BY DEF InDevices
<1>4. ASSUME d[n].kind = "key", pos = Position(d, n), tokens[pos] \notin Braces
      PROVE  Tracks(d)'
  <2>1. MeansBefore(d, n)' /\ Within(d, j, n)'
    BY <1>1, <1>2 DEF MeansBefore, Within
  <2>2. mode' = "Devices" /\ AtLine(d, n, {"key"})'
    BY <1>1, <1>2, <1>4, WordFacts DEF AtLine
  <2>3. InDevices(d, j, n)'
    BY <1>2, <1>3, <2>1, <2>2 DEF InDevices
  <2> QED
    BY <2>3 DEF Tracks
<1>5. ASSUME d[n].kind \in {"key", "bare"}, pos + 1 = Position(d, n + 1), tokens[pos] \notin Braces
      PROVE  Tracks(d)'
  <2>1. mode' = "Devices" /\ pos' = Position(d, n + 1)
    BY <1>1, <1>5, WordFacts
  <2> QED
    BY <1>1, <1>5, <2>1, NextDevices
<1>6. ASSUME d[n].kind = "close", pos + 1 = Position(d, n + 1), tokens[pos] = "}"
      PROVE  Tracks(d)'
  <2>1. Indent(d, n + 1) = 0
    <3>1. Indent(d, n + 1) = d[n].level + (IF d[n].kind = "open" THEN 1 ELSE 0)
      BY <1>2, Kinds
    <3>2. d[n].level = 0
      BY <1>2, <1>6
    <3>3. (IF d[n].kind = "open" THEN 1 ELSE 0) = 0
      BY <1>6
    <3> QED
      BY <3>1, <3>2, <3>3
  <2>2. MeansBefore(d, n + 1)'
    BY <1>1, <1>2, <1>6 DEF MeansBefore
  <2>3. AtTop(d, n + 1)'
    BY <1>1, <1>6, <2>1, <2>2 DEF AtTop, AtLine
  <2> QED
    BY <1>2, <2>3 DEF Tracks
<1>7. \/ d[n].kind = "key" /\ pos = Position(d, n) /\ tokens[pos] \notin Braces
      \/ d[n].kind \in {"key", "bare"} /\ pos + 1 = Position(d, n + 1) /\ tokens[pos] \notin Braces
      \/ d[n].kind = "close" /\ pos + 1 = Position(d, n + 1) /\ tokens[pos] = "}"
  <2>1. {"key"} \subseteq {"key", "open"} /\ "open" \notin {"key"}
    OBVIOUS
  <2> QED
    BY <1>1, <1>2, <1>3, <2>1, TokenAt
<1> QED
  BY <1>4, <1>5, <1>6, <1>7
-----------------------------------------------------------------------------
\* A block belongs to a section or to a device, and holds no section and no device.
LEMMA BlockOwner ==
  ASSUME NEW d, Rendered(d), NEW j \in DOMAIN d, NEW n, InBlock(d, j, n), ConfigTypeOK
  PROVE  /\ Within(d, j, n) /\ d[j].kind = "open" /\ d[j].level \in Nat
         /\ (d[j].level = 0 /\ d[j].key # "devices") \/ j \in Devices(d)
         /\ target = "device" => j \in Devices(d) /\ d[j].level = 1
         /\ target # "device" => /\ target \in {"defaults", "overrides"}
                                 /\ j \in Sections(d, target) /\ d[j].level = 0
<1>1. target \in {"defaults", "device", "overrides"}
  BY DEF ConfigTypeOK
<1>2. target = "device" => j \in Devices(d) /\ d[j].level = 1
  BY DeviceFacts DEF InBlock
<1>3. target # "device" => /\ target \in {"defaults", "overrides"}
                           /\ j \in Sections(d, target) /\ d[j].level = 0 /\ d[j].key = target
  BY <1>1, SectionFacts DEF InBlock
<1>4. Within(d, j, n) /\ d[j].kind = "open" /\ d[j].level \in Nat
  BY Kinds DEF InBlock, Within
<1> QED
  BY <1>2, <1>3, <1>4

LEMMA BlockLine ==
  ASSUME NEW d, Rendered(d), NEW j \in DOMAIN d, NEW n \in 1 .. Len(d) + 1,
         InBlock(d, j, n), ConfigTypeOK, ~AtEnd
  PROVE  /\ n \in DOMAIN d /\ n + 1 \in 1 .. Len(d) + 1
         /\ d[n].kind \in {"key", "bare", "open", "close"}
         /\ d[n].level \in Nat /\ d[j].level \in Nat /\ depth \in Nat /\ depth > 0
         /\ d[n].kind # "close" => d[n].level = d[j].level + depth
         /\ d[n].kind = "close" => d[n].level + 1 = d[j].level + depth
         /\ Indent(d, n + 1) = d[n].level + (IF d[n].kind = "open" THEN 1 ELSE 0)
<1>1. AtLine(d, n, {"key", "open"}) /\ Within(d, j, n) /\ depth = Indent(d, n) - d[j].level
  BY DEF InBlock, AtLine
<1>2. n # Len(d) + 1
  BY <1>1, EndOfLines
<1>3. n \in DOMAIN d /\ n + 1 \in 1 .. Len(d) + 1
  BY <1>2, LastPosition, Kinds
<1>4. /\ d[n].kind \in {"key", "bare", "open", "close"}
      /\ d[n].kind # "close" => d[n].level = Indent(d, n)
      /\ d[n].kind = "close" => d[n].level = Indent(d, n) - 1
  BY <1>1, <1>3, WithinKinds
<1>5. PICK outer \in Nat, indent \in Nat, level \in Nat :
        outer = d[j].level /\ indent = Indent(d, n) /\ level = d[n].level
  BY <1>1, <1>3, WithinKinds
<1>6. outer < indent
  BY <1>1, <1>5 DEF Within
<1>7. depth = indent - outer
  BY <1>1, <1>5
<1>8. depth \in Nat /\ depth > 0
  BY <1>5, <1>6, <1>7
<1>9. /\ d[n].kind # "close" => level = outer + depth
      /\ d[n].kind = "close" => level + 1 = outer + depth
  BY <1>4, <1>5, <1>6, <1>7
<1> QED
  BY <1>3, <1>4, <1>5, <1>8, <1>9, Kinds

\* After a line of a block the parser is at the next one.
LEMMA NextInBlock ==
  ASSUME NEW d, Rendered(d), NEW j \in DOMAIN d, NEW n \in DOMAIN d, InBlock(d, j, n),
         d[n].level > d[j].level, UNCHANGED <<mode, target, config>>,
         depth' = Indent(d, n + 1) - d[j].level,
         block' = MeaningBefore(d, j, n + 1), pos' = Position(d, n + 1)
  PROVE  Tracks(d)'
<1>1. Within(d, j, n + 1)
  BY WithinNext DEF InBlock
<1>2. /\ mode' = "Block" /\ MeansBefore(d, j)' /\ Within(d, j, n + 1)'
      /\ j \in IF target' = "device" THEN Devices(d) ELSE Sections(d, target')
  BY <1>1 DEF InBlock, MeansBefore, Within
<1>3. AtLine(d, n + 1, IF depth = 1 THEN {"open"} ELSE {"key", "open"})'
  BY DEF AtLine
<1>4. InBlock(d, j, n + 1)'
  BY <1>2, <1>3 DEF InBlock
<1>5. n + 1 \in 1 .. Len(d) + 1
  BY Kinds
<1> QED
  BY <1>4, <1>5 DEF Tracks

\* A line that is no key of the block itself sets nothing.
LEMMA OtherLine ==
  ASSUME NEW d, Rendered(d), NEW j \in DOMAIN d, NEW n \in DOMAIN d, InBlock(d, j, n),
         d[n].kind # "key" \/ d[n].level # d[j].level + 1
  PROVE  block = MeaningBefore(d, j, n + 1)
<1>1. DOMAIN d \subseteq Nat /\ n \in Nat
  BY LastPosition
<1>2. \A s \in Settings : n \notin Given(d, j, s)
  BY DEF Given, Entries
<1>3. MeaningBefore(d, j, n + 1) = MeaningBefore(d, j, n)
  BY <1>1, <1>2, MeaningSame
<1> QED
  BY <1>3 DEF InBlock

\* The parser stays on a line of which it has read the first of two tokens.
LEMMA SecondToken ==
  ASSUME NEW d, Rendered(d), NEW j \in DOMAIN d, NEW n \in DOMAIN d, InBlock(d, j, n),
         pos = Position(d, n), pos' = pos + 1, UNCHANGED <<mode, depth, target, block, config>>,
         d[n].kind = "open" \/ (d[n].kind = "key" /\ depth # 1)
  PROVE  Tracks(d)'
<1>1. /\ mode' = "Block" /\ MeansBefore(d, j)' /\ Within(d, j, n)'
      /\ j \in IF target' = "device" THEN Devices(d) ELSE Sections(d, target')
      /\ block' = MeaningBefore(d, j, n) /\ depth' = Indent(d, n) - d[j].level
  BY DEF InBlock, MeansBefore, Within
<1>2. d[n].kind \in (IF depth' = 1 THEN {"open"} ELSE {"key", "open"})
  OBVIOUS
<1>3. AtLine(d, n, IF depth = 1 THEN {"open"} ELSE {"key", "open"})'
  BY <1>2 DEF AtLine
<1>4. InBlock(d, j, n)'
  BY <1>1, <1>3 DEF InBlock
<1>5. n \in 1 .. Len(d) + 1
  BY Kinds, LastPosition
<1> QED
  BY <1>4, <1>5 DEF Tracks

LEMMA BlockKeyStep ==
  ASSUME NEW d, Rendered(d), NEW j \in DOMAIN d, NEW n \in 1 .. Len(d) + 1,
         InBlock(d, j, n), ConfigTypeOK, BlockKey
  PROVE  Tracks(d)'
<1>1. /\ ~AtEnd /\ depth = 1 /\ tokens[pos] \notin Braces
      /\ UNCHANGED <<mode, depth, target, config>>
      /\ HasValue => pos' = pos + 2
      /\ ~HasValue => pos' = pos + 1 /\ block' = block
      /\ HasValue /\ tokens[pos] \notin Settings => block' = block
      /\ HasValue /\ tokens[pos] \in Settings => block' = Store(tokens[pos], tokens[pos + 1])
  BY DEF BlockKey, In, Skip
<1>2. /\ n \in DOMAIN d /\ d[n].kind \in {"key", "bare", "open", "close"}
      /\ d[n].kind # "close" => d[n].level = d[j].level + 1
      /\ d[j].level \in Nat
      /\ Indent(d, n + 1) = d[n].level + (IF d[n].kind = "open" THEN 1 ELSE 0)
  BY <1>1, BlockLine
<1>3. AtLine(d, n, {"open"})
  BY <1>1 DEF InBlock
<1>4. /\ d[n].kind \in {"key", "bare", "open"} /\ pos = Position(d, n)
      /\ d[n].kind = "bare" => pos + 1 = Position(d, n + 1)
  <2>1. {"open"} \subseteq {"key", "open"} /\ "key" \notin {"open"}
    OBVIOUS
  <2> QED
    BY <1>1, <1>2, <1>3, <2>1, TokenAt, WordFacts
<1>5. pos \in Nat /\ Len(tokens) \in Nat
  BY <1>2, <1>4, Kinds, LastPosition
<1>6. CASE d[n].kind = "open"
  <2>1. tokens[pos + 1] = "{"
    BY <1>2, <1>4, <1>6, PairSpelled
  <2>2. ~HasValue
    BY <2>1, WordFacts DEF HasValue
  <2> QED
    BY <1>1, <1>2, <1>4, <1>6, <2>2, SecondToken
<1>7. CASE d[n].kind = "bare"
  <2>1. pos + 1 <= Len(tokens) => tokens[pos + 1] \in Braces \cup KnownKeys
    BY <1>2, <1>4, <1>7, BareFollowed
  <2>2. ~HasValue
    BY <1>5, <2>1 DEF HasValue
  <2>3. block' = MeaningBefore(d, j, n + 1)
    BY <1>1, <1>2, <1>7, <2>2, OtherLine
  <2>4. depth' = Indent(d, n + 1) - d[j].level /\ d[n].level > d[j].level
    BY <1>1, <1>2, <1>7
  <2>5. pos' = Position(d, n + 1)
    BY <1>1, <1>4, <1>7, <2>2
  <2> QED
    BY <1>1, <1>2, <2>3, <2>4, <2>5, NextInBlock
<1>8. CASE d[n].kind = "key"
  <2>1. /\ tokens[pos] = d[n].key /\ tokens[pos + 1] = d[n].val /\ d[n].val \in Words
        /\ pos + 2 = Position(d, n + 1) /\ pos + 1 <= Len(tokens)
    BY <1>2, <1>4, <1>8, PairSpelled
  <2>2. d[n].val \notin KnownKeys
    BY <1>2, <1>8 DEF Rendered, Readable
  <2>3. HasValue
    <3>1. tokens[pos + 1] \notin Braces \cup KnownKeys
      BY <2>1, <2>2, WordFacts
    <3>2. PICK p \in Nat : p = pos
      BY <1>5
    <3>3. p < Len(tokens)
      BY <1>5, <2>1, <3>2
    <3> QED
      BY <3>1, <3>2, <3>3 DEF HasValue
  <2>4. pos' = Position(d, n + 1)
    BY <1>1, <2>1, <2>3
  <2>5. depth' = Indent(d, n + 1) - d[j].level /\ d[n].level > d[j].level
    BY <1>1, <1>2, <1>8
  <2>6. block = MeaningBefore(d, j, n) /\ Within(d, j, n)
    BY DEF InBlock
  <2>7. MeaningBefore(d, j, n + 1) =
          IF d[n].key \in Settings
          THEN [block EXCEPT ![d[n].key] =
                  IF d[n].key = "polling_interval" /\ d[n].val \notin DOMAIN Number
                  THEN None ELSE d[n].val]
          ELSE block
    BY <1>2, <1>8, <2>6, MeaningOfKey
  <2>8. block' = MeaningBefore(d, j, n + 1)
    BY <1>1, <2>1, <2>3, <2>7 DEF Store
  <2> QED
    BY <1>1, <1>2, <2>4, <2>5, <2>8, NextInBlock
<1> QED
  BY <1>4, <1>6, <1>7, <1>8

LEMMA BlockOpensStep ==
  ASSUME NEW d, Rendered(d), NEW j \in DOMAIN d, NEW n \in 1 .. Len(d) + 1,
         InBlock(d, j, n), ConfigTypeOK, BlockOpens
  PROVE  Tracks(d)'
<1>1. /\ ~AtEnd /\ tokens[pos] = "{" /\ pos' = pos + 1 /\ depth' = depth + 1
      /\ UNCHANGED <<mode, target, block, config>>
  BY DEF BlockOpens, In, Skip
<1>2. /\ n \in DOMAIN d /\ d[n].kind \in {"key", "bare", "open", "close"}
      /\ d[n].level \in Nat /\ d[j].level \in Nat /\ depth \in Nat /\ depth > 0
      /\ d[n].kind # "close" => d[n].level = d[j].level + depth
      /\ Indent(d, n + 1) = d[n].level + (IF d[n].kind = "open" THEN 1 ELSE 0)
  BY <1>1, BlockLine
<1>3. AtLine(d, n, {"key", "open"})
  BY DEF InBlock, AtLine
<1>4. d[n].kind = "open" /\ pos + 1 = Position(d, n + 1)
  BY <1>1, <1>2, <1>3, TokenAt, WordFacts
<1>5. block' = MeaningBefore(d, j, n + 1)
  BY <1>1, <1>2, <1>4, OtherLine
<1>6. PICK outer \in Nat, level \in Nat, inner \in Nat :
        outer = d[j].level /\ level = d[n].level /\ inner = depth
  BY <1>2
<1>7. level = outer + inner /\ inner > 0 /\ Indent(d, n + 1) = level + 1
  BY <1>2, <1>4, <1>6
<1>8. depth' = Indent(d, n + 1) - outer /\ level > outer
  <2>1. depth' = inner + 1
    BY <1>1, <1>6
  <2>2. PICK next \in Nat : next = Indent(d, n + 1)
    BY <1>7
  <2>3. inner + 1 = next - outer /\ level > outer
    BY <1>7, <2>2
  <2> QED
    BY <2>1, <2>2, <2>3
<1> QED
  BY <1>1, <1>2, <1>4, <1>5, <1>6, <1>8, NextInBlock

LEMMA BlockNestedStep ==
  ASSUME NEW d, Rendered(d), NEW j \in DOMAIN d, NEW n \in 1 .. Len(d) + 1,
         InBlock(d, j, n), ConfigTypeOK, BlockNested
  PROVE  Tracks(d)'
<1>1. /\ ~AtEnd /\ tokens[pos] # "{" /\ pos' = pos + 1 /\ depth > 1
      /\ tokens[pos] = "}" => depth' = depth - 1
      /\ tokens[pos] # "}" => depth' = depth
      /\ UNCHANGED <<mode, target, block, config>>
  BY DEF BlockNested, In, Skip
<1>2. /\ n \in DOMAIN d /\ d[n].kind \in {"key", "bare", "open", "close"}
      /\ d[n].level \in Nat /\ d[j].level \in Nat /\ depth \in Nat /\ depth > 0
      /\ d[n].kind # "close" => d[n].level = d[j].level + depth
      /\ d[n].kind = "close" => d[n].level + 1 = d[j].level + depth
      /\ Indent(d, n + 1) = d[n].level + (IF d[n].kind = "open" THEN 1 ELSE 0)
  BY <1>1, BlockLine
<1>3. AtLine(d, n, {"key", "open"})
  BY DEF InBlock, AtLine
<1>4. PICK outer \in Nat, level \in Nat, inner \in Nat :
        outer = d[j].level /\ level = d[n].level /\ inner = depth
  BY <1>2
<1>5. /\ inner > 1
      /\ d[n].kind # "close" => level = outer + inner
      /\ d[n].kind = "close" => level + 1 = outer + inner
      /\ d[n].kind # "open" => Indent(d, n + 1) = level
  <2>1. depth > 1 /\ Indent(d, n + 1) = level + (IF d[n].kind = "open" THEN 1 ELSE 0)
    BY <1>1, <1>2, <1>4
  <2>2. inner > 1
    BY <1>4, <2>1
  <2>3. d[n].kind # "open" => Indent(d, n + 1) = level
    BY <1>4, <2>1
  <2> QED
    BY <1>2, <1>4, <2>2, <2>3
<1>6. d[n].kind # "key" \/ d[n].level # d[j].level + 1
  BY <1>4, <1>5
<1>7. block' = MeaningBefore(d, j, n + 1)
  BY <1>1, <1>2, <1>6, OtherLine
<1>8. CASE d[n].kind \in {"key", "open"} /\ pos = Position(d, n) /\ tokens[pos] \notin Braces
  <2>1. depth # 1
    BY <1>4, <1>5
  <2>2. UNCHANGED depth
    BY <1>1, <1>8, WordFacts
  <2> QED
    BY <1>1, <1>2, <1>8, <2>1, <2>2, SecondToken
<1>9. CASE d[n].kind \in {"key", "bare"} /\ pos + 1 = Position(d, n + 1) /\ tokens[pos] \notin Braces
  <2>1. depth' = inner
    BY <1>1, <1>4, <1>9, WordFacts
  <2>2. depth' = Indent(d, n + 1) - outer /\ level > outer
    BY <1>5, <1>9, <2>1
  <2> QED
    BY <1>1, <1>2, <1>4, <1>7, <1>9, <2>2, NextInBlock
<1>10. CASE d[n].kind = "close" /\ pos + 1 = Position(d, n + 1) /\ tokens[pos] = "}"
  <2>1. depth' = inner - 1
    BY <1>1, <1>4, <1>10
  <2>2. depth' = Indent(d, n + 1) - outer /\ level > outer
    <3>1. PICK next \in Nat : next = Indent(d, n + 1) /\ next = level
      BY <1>5, <1>10
    <3>2. level + 1 = outer + inner /\ inner > 1
      BY <1>5, <1>10
    <3>3. inner - 1 = next - outer
      BY <3>1, <3>2
    <3>4. level > outer
      BY <3>2
    <3> QED
      BY <2>1, <3>1, <3>3, <3>4
  <2> QED
    BY <1>1, <1>2, <1>4, <1>7, <1>10, <2>2, NextInBlock
<1> QED
  BY <1>1, <1>2, <1>3, <1>8, <1>9, <1>10, TokenAt
\* A block that is closed, or cut off where the reply ends, is saved as what it means.
LEMMA BlockSaved ==
  ASSUME NEW d, Rendered(d), NEW j \in DOMAIN d, NEW n \in 1 .. Len(d) + 1,
         InBlock(d, j, n), ConfigTypeOK, SaveBlock, n \in DOMAIN d => d[n].level = d[j].level
  PROVE  MeansBefore(d, n)'
<1>1. /\ Within(d, j, n) /\ d[j].kind = "open" /\ d[j].level \in Nat
      /\ (d[j].level = 0 /\ d[j].key # "devices") \/ j \in Devices(d)
      /\ target = "device" => j \in Devices(d) /\ d[j].level = 1
      /\ target # "device" => /\ target \in {"defaults", "overrides"}
                              /\ j \in Sections(d, target) /\ d[j].level = 0
  BY BlockOwner
<1>2. block = MeaningOf(d, j) /\ MeansBefore(d, j)
  BY <1>1, MeaningComplete DEF InBlock
<1>3. MeansBefore(d, j + 1)'
  <2>1. CASE target = "device"
    <3>1. config' = [config EXCEPT !.devices = Append(config.devices, MeaningOf(d, j))]
      BY <1>2, <2>1 DEF SaveBlock
    <3> QED
      BY <1>1, <1>2, <2>1, <3>1, DeviceSaved
  <2>2. CASE target # "device"
    <3>1. config' = [config EXCEPT ![target] = MeaningOf(d, j)]
      BY <1>2, <2>2 DEF SaveBlock
    <3> QED
      BY <1>1, <1>2, <2>2, <3>1, SectionSaved
  <2> QED
    BY <2>1, <2>2
<1>4. \A k \in j + 1 .. n - 1 : /\ k \notin Devices(d) /\ k \notin Sections(d, "defaults")
                                /\ k \notin Sections(d, "overrides")
  BY <1>1, QuietInside
<1>5. /\ DOMAIN d \subseteq Nat /\ j + 1 \in Nat /\ n \in Nat /\ j + 1 <= n
  BY <1>1, LastPosition DEF Within
<1>6. /\ DevicesBefore(d, j + 1) = DevicesBefore(d, n)
      /\ SectionsBefore(d, "defaults", j + 1) = SectionsBefore(d, "defaults", n)
      /\ SectionsBefore(d, "overrides", j + 1) = SectionsBefore(d, "overrides", n)
  BY <1>4, <1>5, SameBefore
<1> QED
  BY <1>3, <1>6 DEF MeansBefore

LEMMA BlockClosesStep ==
  ASSUME NEW d, Rendered(d), NEW j \in DOMAIN d, NEW n \in 1 .. Len(d) + 1,
         InBlock(d, j, n), ConfigTypeOK, BlockCloses
  PROVE  Tracks(d)'
<1>1. /\ ~AtEnd /\ depth = 1 /\ tokens[pos] = "}" /\ pos' = pos + 1 /\ SaveBlock
      /\ target = "device" => mode' = "Devices"
      /\ target # "device" => mode' = "Top"
  BY DEF BlockCloses, In, Skip
<1>2. /\ n \in DOMAIN d /\ n + 1 \in 1 .. Len(d) + 1
      /\ d[n].kind \in {"key", "bare", "open", "close"}
      /\ d[n].kind = "close" => d[n].level + 1 = d[j].level + depth
      /\ d[n].level \in Nat /\ d[j].level \in Nat
      /\ Indent(d, n + 1) = d[n].level + (IF d[n].kind = "open" THEN 1 ELSE 0)
  BY <1>1, BlockLine
<1>3. d[n].kind = "close" /\ pos + 1 = Position(d, n + 1)
  <2>1. AtLine(d, n, {"key", "open"})
    BY DEF InBlock, AtLine
  <2> QED
    BY <1>1, <1>2, <2>1, TokenAt, WordFacts
<1>4. d[n].level = d[j].level
  <2>1. PICK level \in Nat, outer \in Nat : level = d[n].level /\ outer = d[j].level
    BY <1>2
  <2>2. level + 1 = outer + 1
    BY <1>1, <1>2, <1>3, <2>1
  <2> QED
    BY <2>1, <2>2
<1>5. Indent(d, n + 1) = d[j].level
  BY <1>2, <1>3, <1>4
<1>6. MeansBefore(d, n)'
  BY <1>1, <1>4, BlockSaved
<1>7. MeansBefore(d, n + 1)'
  <2>1. /\ n \in Nat /\ n + 1 \in Nat /\ n <= n + 1 /\ DOMAIN d \subseteq Nat
        /\ \A k \in n .. n + 1 - 1 : k = n
    BY <1>2, LastPosition
  <2>2. n \notin Devices(d) /\ n \notin Sections(d, "defaults") /\ n \notin Sections(d, "overrides")
    BY <1>3, DeviceFacts, SectionFacts
  <2>3. /\ DevicesBefore(d, n) = DevicesBefore(d, n + 1)
        /\ SectionsBefore(d, "defaults", n) = SectionsBefore(d, "defaults", n + 1)
        /\ SectionsBefore(d, "overrides", n) = SectionsBefore(d, "overrides", n + 1)
    BY <2>1, <2>2, SameBefore
  <2> QED
    BY <1>6, <2>3 DEF MeansBefore
<1>8. pos' = Position(d, n + 1)
  BY <1>1, <1>3
<1>9. CASE target # "device"
  <2>1. Indent(d, n + 1) = 0
    BY <1>5, <1>9, BlockOwner
  <2>2. AtTop(d, n + 1)'
    BY <1>1, <1>7, <1>8, <1>9, <2>1 DEF AtTop, AtLine
  <2> QED
    BY <1>2, <2>2 DEF Tracks
<1>10. CASE target = "device"
  <2>1. Within(d, j, n) /\ j \in Devices(d) /\ d[j].level = 1
    BY <1>10, BlockOwner
  <2>2. PICK i \in Sections(d, "devices") : i < j /\ \A k \in i + 1 .. j : d[k].level > 0
    BY <2>1, DeviceFacts
  <2>3. i \in DOMAIN d /\ d[i].kind = "open" /\ d[i].level = 0
    BY SectionFacts
  <2>4. i \in Nat /\ j \in Nat /\ n \in Nat /\ j < n
    BY <2>1, <2>3, LastPosition DEF Within
  <2>5. \A k \in i + 1 .. n : d[k].level > 0
    <3> SUFFICES ASSUME NEW k \in i + 1 .. n PROVE d[k].level > 0
      OBVIOUS
    <3>1. CASE k = n
      BY <1>4, <2>1, <3>1
    <3>2. CASE k # n
      <4>1. k \in i + 1 .. j \/ k \in j + 1 .. n - 1
        BY <2>4, <3>2
      <4>2. k \in DOMAIN d
        <5>1. DOMAIN d = 1 .. Len(d) /\ Len(d) \in Nat /\ n <= Len(d) /\ i >= 1
          BY <1>2, <2>3, LastPosition
        <5> QED
          BY <2>4, <5>1
      <4>3. d[k].level \in Nat
        BY <4>2, Kinds
      <4>4. k \in j + 1 .. n - 1 => d[k].level > 1
        BY <2>1 DEF Within
      <4> QED
        BY <2>2, <4>1, <4>3, <4>4
    <3> QED
      BY <3>1, <3>2
  <2>6. Indent(d, n + 1) = 1
    BY <1>5, <2>1
  <2>7. i < n + 1 /\ d[i].level < Indent(d, n + 1) /\ (n + 1) - 1 = n
    BY <2>2, <2>3, <2>4, <2>6
  <2>8. Within(d, i, n + 1)
    BY <2>3, <2>5, <2>7 DEF Within
  <2>9. Within(d, i, n + 1)'
    BY <2>8 DEF Within
  <2>10. mode' = "Devices" /\ AtLine(d, n + 1, {"key"})'
    BY <1>1, <1>8, <1>10 DEF AtLine
  <2>11. InDevices(d, i, n + 1)'
    BY <1>7, <2>6, <2>9, <2>10 DEF InDevices
  <2> QED
    BY <1>2, <2>3, <2>11 DEF Tracks
<1> QED
  BY <1>9, <1>10

LEMMA ParseEndsStep ==
  ASSUME NEW d, Rendered(d), ConfigTypeOK, Tracks(d), ParseEnds
  PROVE  Tracks(d)'
<1>1. /\ AtEnd /\ mode \notin {"Parsed", "Checked"} /\ mode' = "Parsed"
      /\ mode = "Block" => SaveBlock
      /\ mode # "Block" => UNCHANGED config
  BY DEF ParseEnds
<1>2. SUFFICES MeansBefore(d, Len(d) + 1)'
  BY <1>1 DEF Tracks
<1>3. PICK n \in 1 .. Len(d) + 1 :
        \/ AtTop(d, n)
        \/ \E j \in DOMAIN d : InSkipped(d, j, n) \/ InDevices(d, j, n) \/ InBlock(d, j, n)
  BY <1>1 DEF Tracks
<1>4. CASE AtTop(d, n)
  <2>1. AtLine(d, n, {}) /\ MeansBefore(d, n) /\ mode = "Top"
    BY <1>4 DEF AtTop
  <2>2. n = Len(d) + 1
    BY <1>1, <2>1, EndOfLines
  <2> QED
    BY <1>1, <2>1, <2>2 DEF MeansBefore
<1>5. ASSUME NEW j \in DOMAIN d, InSkipped(d, j, n)
      PROVE  MeansBefore(d, Len(d) + 1)'
  <2>1. AtLine(d, n, {"key", "open"}) /\ MeansBefore(d, n) /\ mode = "Skip"
    BY <1>5 DEF InSkipped
  <2>2. n = Len(d) + 1
    BY <1>1, <2>1, EndOfLines
  <2> QED
    BY <1>1, <2>1, <2>2 DEF MeansBefore
<1>6. ASSUME NEW j \in DOMAIN d, InDevices(d, j, n)
      PROVE  MeansBefore(d, Len(d) + 1)'
  <2>1. AtLine(d, n, {"key"}) /\ MeansBefore(d, n) /\ mode = "Devices"
    BY <1>6 DEF InDevices
  <2>2. n = Len(d) + 1
    BY <1>1, <2>1, EndOfLines
  <2> QED
    BY <1>1, <2>1, <2>2 DEF MeansBefore
<1>7. ASSUME NEW j \in DOMAIN d, InBlock(d, j, n)
      PROVE  MeansBefore(d, Len(d) + 1)'
  <2>1. AtLine(d, n, {"key", "open"}) /\ mode = "Block"
    BY <1>7 DEF InBlock, AtLine
  <2>2. n = Len(d) + 1
    BY <1>1, <2>1, EndOfLines
  <2>3. n \notin DOMAIN d
    BY <2>2, LastPosition
  <2> QED
    BY <1>1, <1>7, <2>1, <2>2, <2>3, BlockSaved
<1> QED
  BY <1>3, <1>4, <1>5, <1>6, <1>7
-----------------------------------------------------------------------------
\* A saved block keeps the types of the configuration.
LEMMA SaveTypes ==
  ASSUME ConfigTypeOK, SaveBlock
  PROVE  config' \in [defaults : DeviceConfig, devices : Seq(DeviceConfig), overrides : DeviceConfig]
<1>1. /\ config \in [defaults : DeviceConfig, devices : Seq(DeviceConfig), overrides : DeviceConfig]
      /\ block \in DeviceConfig /\ target \in {"defaults", "device", "overrides"}
  BY DEF ConfigTypeOK
<1>2. CASE target = "device"
  <2>1. config' = [config EXCEPT !.devices = Append(config.devices, block)]
    BY <1>2 DEF SaveBlock
  <2>2. Append(config.devices, block) \in Seq(DeviceConfig)
    BY <1>1
  <2> QED
    BY <1>1, <2>1, <2>2
<1>3. CASE target = "defaults"
  <2>1. config' = [config EXCEPT !.defaults = block]
    BY <1>3 DEF SaveBlock
  <2> QED
    BY <1>1, <2>1
<1>4. CASE target = "overrides"
  <2>1. config' = [config EXCEPT !.overrides = block]
    BY <1>4 DEF SaveBlock
  <2> QED
    BY <1>1, <2>1
<1> QED
  BY <1>1, <1>2, <1>3, <1>4

\* What a key stores is a word or nothing.
LEMMA StoreTypes ==
  ASSUME TypeInv, HasValue, NEW s \in Settings
  PROVE  Store(s, tokens[pos + 1]) \in DeviceConfig
<1>1. tokens \in Seq(Words \cup Braces) /\ block \in DeviceConfig /\ pos \in 1 .. Len(tokens) + 2
  <2>1. tokens \in Replies /\ block \in DeviceConfig /\ pos \in 1 .. Len(tokens) + 2
    BY DEF TypeInv, ConfigTypeOK
  <2> QED
    BY <2>1, ConfigAssumption DEF Braces
<1>2. tokens[pos + 1] \in Words
  <2>1. PICK L \in Nat : L = Len(tokens) /\ DOMAIN tokens = 1 .. L
    BY <1>1
  <2>2. PICK p \in Nat : p = pos /\ p >= 1
    BY <1>1, <2>1
  <2>3. p < L /\ tokens[p + 1] \notin Braces
    BY <2>1, <2>2 DEF HasValue
  <2>4. p + 1 \in DOMAIN tokens
    BY <2>1, <2>2, <2>3
  <2>5. tokens[p + 1] \in Words \cup Braces
    BY <1>1, <2>4
  <2> QED
    BY <2>2, <2>3, <2>5
<1>3. PICK v \in Words \cup {None} :
        v = IF s = "polling_interval" /\ tokens[pos + 1] \notin DOMAIN Number
            THEN None ELSE tokens[pos + 1]
  BY <1>2
<1>4. Store(s, tokens[pos + 1]) = [block EXCEPT ![s] = v]
  BY <1>3 DEF Store
<1> QED
  BY <1>1, <1>4 DEF DeviceConfig

LEMMA NothingTypes == Nothing \in DeviceConfig
BY DEF Nothing, DeviceConfig

\* Every step of the parser keeps the types, and keeps the depth below the position.
LEMMA ParseTypes ==
  ASSUME TypeInv, Parse, UNCHANGED <<tokens, monitored, config_warnings>>
  PROVE  TypeInv'
<1>1. /\ tokens \in Replies /\ monitored \subseteq Maps /\ config_warnings \in BOOLEAN
      /\ block \in DeviceConfig /\ target \in {"defaults", "device", "overrides"}
      /\ config \in [defaults : DeviceConfig, devices : Seq(DeviceConfig), overrides : DeviceConfig]
      /\ mode \in {"Top", "Devices", "Block", "Skip", "Parsed", "Checked"}
  BY DEF TypeInv, ConfigTypeOK
<1>2. PICK L \in Nat, p \in Nat, k \in Nat :
        /\ L = Len(tokens) /\ p = pos /\ k = depth
        /\ p >= 1 /\ p <= L + 2 /\ k <= L /\ k < p
        /\ mode \in {"Skip", "Block"} => k > 0 /\ p <= L + 1
        /\ mode \in {"Top", "Devices"} => k = 0
  <2>1. tokens \in Seq(Words \cup Braces)
    BY <1>1, ConfigAssumption DEF Braces
  <2>2. Len(tokens) \in Nat
    BY <2>1
  <2> QED
    BY <2>2 DEF TypeInv, ConfigTypeOK
<1>3. SUFFICES
        \E q \in Nat, e \in Nat :
          /\ q = pos' /\ e = depth' /\ q >= 1 /\ q <= L + 2 /\ e <= L /\ e < q
          /\ mode' \in {"Skip", "Block"} => e > 0 /\ q <= L + 1
          /\ mode' \in {"Top", "Devices"} => e = 0
          /\ mode' \in {"Top", "Devices", "Block", "Skip", "Parsed", "Checked"}
          /\ target' \in {"defaults", "device", "overrides"} /\ block' \in DeviceConfig
          /\ config' \in [defaults : DeviceConfig, devices : Seq(DeviceConfig),
                          overrides : DeviceConfig]
  <2>1. PICK q \in Nat, e \in Nat :
          /\ q = pos' /\ e = depth' /\ q >= 1 /\ q <= L + 2 /\ e <= L /\ e < q
          /\ mode' \in {"Skip", "Block"} => e > 0 /\ q <= L + 1
          /\ mode' \in {"Top", "Devices"} => e = 0
          /\ mode' \in {"Top", "Devices", "Block", "Skip", "Parsed", "Checked"}
          /\ target' \in {"defaults", "device", "overrides"} /\ block' \in DeviceConfig
          /\ config' \in [defaults : DeviceConfig, devices : Seq(DeviceConfig),
                          overrides : DeviceConfig]
    BY <1>3
  <2>2. pos' \in 1 .. Len(tokens') + 2 /\ depth' \in 0 .. Len(tokens') /\ depth' < pos'
    BY <1>2, <2>1
  <2>3. /\ mode' \in {"Skip", "Block"} => depth' > 0 /\ pos' <= Len(tokens') + 1
        /\ mode' \in {"Top", "Devices"} => depth' = 0
    BY <1>2, <2>1
  <2> QED
    BY <1>1, <2>1, <2>2, <2>3 DEF TypeInv, ConfigTypeOK
<1>4. ~AtEnd => p <= L
  BY <1>2 DEF AtEnd
<1>5. Opens => p + 1 <= L
  <2>1. Opens => p < L
    BY <1>2 DEF Opens
  <2> QED
    BY <2>1
<1>6. CASE TopSection
  <2>1. /\ pos' = p + 2 /\ p <= L /\ k = 0 /\ UNCHANGED config
        /\ tokens[pos] \in {"defaults", "overrides"}
        /\ Opens => mode' = "Block" /\ depth' = 1 /\ target' = tokens[pos] /\ block' = Nothing
        /\ ~Opens => UNCHANGED <<mode, depth, target, block>> /\ mode = "Top"
    BY <1>2, <1>4, <1>6 DEF TopSection, EnterBlock, In, Skip
  <2>2. CASE Opens
    BY <1>1, <1>2, <1>5, <2>1, <2>2, NothingTypes
  <2>3. CASE ~Opens
    BY <1>1, <1>2, <2>1, <2>3
  <2> QED
    BY <2>2, <2>3
<1>7. CASE TopDevices
  <2>1. /\ pos' = p + 2 /\ p <= L /\ k = 0 /\ UNCHANGED <<target, block, config>> /\ depth' = 0
        /\ mode' \in {"Devices", "Top"}
    BY <1>2, <1>4, <1>7 DEF TopDevices, In, Skip
  <2> QED
    BY <1>1, <1>2, <2>1
<1>8. CASE TopOther
  <2>1. /\ pos' = p + 2 /\ p <= L /\ k = 0 /\ UNCHANGED <<target, block, config>>
        /\ Opens => mode' = "Skip" /\ depth' = 1
        /\ ~Opens => UNCHANGED <<mode, depth>> /\ mode = "Top"
    BY <1>2, <1>4, <1>8 DEF TopOther, In, Skip
  <2>2. CASE Opens
    BY <1>1, <1>2, <1>5, <2>1, <2>2
  <2>3. CASE ~Opens
    BY <1>1, <1>2, <2>1, <2>3
  <2> QED
    BY <2>2, <2>3
<1>9. CASE TopBrace
  <2>1. /\ pos' = p + 1 /\ p <= L /\ k = 0 /\ UNCHANGED <<mode, target, block, config>>
        /\ mode = "Top" /\ depth' = 0
    BY <1>2, <1>4, <1>9 DEF TopBrace, In, Skip
  <2> QED
    BY <1>1, <1>2, <2>1
<1>10. CASE SkipToken
  <2>1. /\ pos' = p + 1 /\ p <= L /\ k > 0 /\ UNCHANGED <<target, block, config>>
        /\ mode' = IF depth' = 0 THEN "Top" ELSE "Skip"
    BY <1>2, <1>4, <1>10 DEF SkipToken, In, Skip
  <2>2. PICK e \in {k - 1, k, k + 1} : e = depth'
    BY <1>2, <1>10 DEF SkipToken
  <2>3. e \in Nat /\ e <= L /\ e < p + 1
    BY <1>2, <2>1, <2>2
  <2> QED
    BY <1>1, <1>2, <2>1, <2>2, <2>3
<1>11. CASE DevicesDevice
  <2>1. /\ pos' = p + 2 /\ p <= L /\ k = 0 /\ UNCHANGED config
        /\ Opens => mode' = "Block" /\ depth' = 1 /\ target' = "device" /\ block' = Nothing
        /\ ~Opens => UNCHANGED <<mode, depth, target, block>> /\ mode = "Devices"
    BY <1>2, <1>4, <1>11 DEF DevicesDevice, EnterBlock, In, Skip
  <2>2. CASE Opens
    BY <1>1, <1>2, <1>5, <2>1, <2>2, NothingTypes
  <2>3. CASE ~Opens
    BY <1>1, <1>2, <2>1, <2>3
  <2> QED
    BY <2>2, <2>3
<1>12. CASE DevicesOther
  <2>1. /\ pos' = p + 1 /\ p <= L /\ k = 0 /\ UNCHANGED <<target, block, config>> /\ depth' = 0
        /\ mode' \in {"Devices", "Top"}
    BY <1>2, <1>4, <1>12 DEF DevicesOther, In, Skip
  <2> QED
    BY <1>1, <1>2, <2>1
<1>13. CASE BlockKey
  <2>1. /\ p <= L /\ k > 0 /\ UNCHANGED <<mode, depth, target, config>> /\ mode = "Block"
        /\ HasValue => pos' = p + 2
        /\ ~HasValue => pos' = p + 1
    BY <1>2, <1>4, <1>13 DEF BlockKey, In, Skip
  <2>2. block' \in DeviceConfig
    BY <1>1, <1>13, StoreTypes DEF BlockKey
  <2>3. HasValue => p + 1 <= L
    BY <1>2 DEF HasValue
  <2>4. CASE HasValue
    BY <1>1, <1>2, <2>1, <2>2, <2>3, <2>4
  <2>5. CASE ~HasValue
    BY <1>1, <1>2, <2>1, <2>2, <2>5
  <2> QED
    BY <2>4, <2>5
<1>14. CASE BlockOpens
  <2>1. /\ pos' = p + 1 /\ p <= L /\ k > 0 /\ depth' = k + 1
        /\ UNCHANGED <<mode, target, block, config>> /\ mode = "Block"
    BY <1>2, <1>4, <1>14 DEF BlockOpens, In, Skip
  <2> QED
    BY <1>1, <1>2, <2>1
<1>15. CASE BlockNested
  <2>1. /\ pos' = p + 1 /\ p <= L /\ k > 1
        /\ UNCHANGED <<mode, target, block, config>> /\ mode = "Block"
    BY <1>2, <1>4, <1>15 DEF BlockNested, In, Skip
  <2>2. PICK e \in {k - 1, k} : e = depth'
    BY <1>2, <1>15 DEF BlockNested
  <2>3. e \in Nat /\ e <= L /\ e < p + 1 /\ e > 0
    BY <1>2, <2>1, <2>2
  <2> QED
    BY <1>1, <1>2, <2>1, <2>2, <2>3
<1>16. CASE BlockCloses
  <2>1. /\ pos' = p + 1 /\ p <= L /\ depth' = 0 /\ UNCHANGED <<target, block>>
        /\ mode' \in {"Devices", "Top"} /\ SaveBlock
    BY <1>2, <1>4, <1>16 DEF BlockCloses, In, Skip
  <2>2. config' \in [defaults : DeviceConfig, devices : Seq(DeviceConfig), overrides : DeviceConfig]
    BY <2>1, SaveTypes DEF TypeInv
  <2> QED
    BY <1>1, <1>2, <2>1, <2>2
<1>17. CASE ParseEnds
  <2>1. UNCHANGED <<pos, depth, target, block>> /\ mode' = "Parsed"
    BY <1>17 DEF ParseEnds
  <2>2. config' \in [defaults : DeviceConfig, devices : Seq(DeviceConfig), overrides : DeviceConfig]
    BY <1>1, <1>17, SaveTypes DEF ParseEnds, TypeInv
  <2> QED
    BY <1>1, <1>2, <2>1, <2>2
<1> QED
  BY <1>6, <1>7, <1>8, <1>9, <1>10, <1>11, <1>12, <1>13, <1>14, <1>15, <1>16, <1>17 DEF Parse
\* Nothing comes before the first line.
LEMMA FirstLine ==
  ASSUME NEW d, d \in Seq(Lines)
  PROVE  /\ DevicesBefore(d, 1) = {} /\ SectionsBefore(d, "defaults", 1) = {}
         /\ SectionsBefore(d, "overrides", 1) = {}
         /\ Position(d, 1) = 1 /\ Indent(d, 1) = 0 /\ 1 \in 1 .. Len(d) + 1
<1>1. DOMAIN d = 1 .. Len(d) /\ Len(d) \in Nat
  OBVIOUS
<1>2. \A j \in DOMAIN d : ~(j < 1)
  BY <1>1
<1>3. DevicesBefore(d, 1) = {}
  BY <1>2 DEF DevicesBefore, Devices
<1>4. SectionsBefore(d, "defaults", 1) = {} /\ SectionsBefore(d, "overrides", 1) = {}
  BY <1>2 DEF SectionsBefore, Sections
<1> QED
  BY <1>1, <1>3, <1>4 DEF Position, Indent

LEMMA EmptyMeans ==
  ASSUME NEW d, d \in Seq(Lines), config = EmptyConfig
  PROVE  MeansBefore(d, 1)
<1>1. config.defaults = Nothing /\ config.overrides = Nothing /\ config.devices = << >>
  BY DEF EmptyConfig
<1>2. Len(config.devices) = 0 /\ DOMAIN config.devices = {}
  BY <1>1
<1>3. Cardinality({}) = 0
  BY FS_EmptySet
<1> QED
  BY <1>1, <1>2, <1>3, FirstLine DEF MeansBefore, LastMeaning

LEMMA InitInv ==
  ASSUME ConfigInit
  PROVE  IInv
<1>1. TypeInv
  <2>1. tokens \in Replies /\ monitored \subseteq Maps
    BY DEF ConfigInit
  <2>2. tokens \in Seq(Words \cup Braces)
    BY <2>1, ConfigAssumption DEF Braces
  <2>3. Len(tokens) \in Nat
    BY <2>2
  <2>4. pos \in 1 .. Len(tokens) + 2 /\ depth \in 0 .. Len(tokens) /\ depth < pos
    BY <2>3 DEF ConfigInit
  <2>5. config \in [defaults : DeviceConfig, devices : Seq(DeviceConfig), overrides : DeviceConfig]
    BY NothingTypes DEF ConfigInit, EmptyConfig
  <2> QED
    BY <2>1, <2>4, <2>5, NothingTypes DEF ConfigInit, TypeInv, ConfigTypeOK
<1>2. ASSUME NEW d \in DocumentsOf[tokens]
      PROVE  Tracks(d)
  <2>1. d \in Seq(Lines)
    BY <1>1, DocumentFacts DEF Rendered
  <2>2. MeansBefore(d, 1)
    BY <2>1, EmptyMeans DEF ConfigInit
  <2>3. AtTop(d, 1)
    BY <2>1, <2>2, FirstLine DEF ConfigInit, AtTop, AtLine
  <2> QED
    BY <2>1, <2>3, FirstLine DEF Tracks
<1> QED
  BY <1>1, <1>2 DEF IInv, ParseInv

\* The next poll begins where the first did.
LEMMA NextPollInv ==
  ASSUME NextPoll, config_warnings \in BOOLEAN
  PROVE  IInv'
<1>1. /\ tokens' \in Replies /\ monitored' \subseteq Maps /\ config_warnings' \in BOOLEAN
      /\ mode' = "Top" /\ pos' = 1 /\ depth' = 0 /\ target' = "defaults" /\ block' = Nothing
      /\ config' = EmptyConfig
  BY DEF NextPoll, StartParsing
<1>2. TypeInv'
  <2>1. tokens' \in Seq(Words \cup Braces)
    BY <1>1, ConfigAssumption DEF Braces
  <2>2. Len(tokens') \in Nat
    BY <2>1
  <2>3. pos' \in 1 .. Len(tokens') + 2 /\ depth' \in 0 .. Len(tokens') /\ depth' < pos'
    BY <1>1, <2>2
  <2>4. config' \in [defaults : DeviceConfig, devices : Seq(DeviceConfig), overrides : DeviceConfig]
    BY <1>1, NothingTypes DEF EmptyConfig
  <2> QED
    BY <1>1, <2>3, <2>4, NothingTypes DEF TypeInv, ConfigTypeOK
<1>3. ASSUME NEW d \in DocumentsOf[tokens']
      PROVE  Tracks(d)'
  <2>1. d \in Seq(Lines)
    <3>1. d \in Documents
      BY <1>1 DEF DocumentsOf
    <3> QED
      BY <3>1, DocumentsAssumption
  <2>2. MeansBefore(d, 1)'
    <3>1. config'.defaults = Nothing /\ config'.overrides = Nothing /\ config'.devices = << >>
      BY <1>1 DEF EmptyConfig
    <3>2. Len(config'.devices) = 0 /\ DOMAIN config'.devices = {}
      BY <3>1
    <3>3. Cardinality({}) = 0
      BY FS_EmptySet
    <3> QED
      BY <2>1, <3>1, <3>2, <3>3, FirstLine DEF MeansBefore, LastMeaning
  <2>3. AtTop(d, 1)'
    BY <1>1, <2>1, <2>2, FirstLine DEF AtTop, AtLine
  <2> QED
    BY <2>1, <2>3, FirstLine DEF Tracks
<1> QED
  BY <1>2, <1>3 DEF IInv, ParseInv

\* The parser keeps its place in every document that the reply renders.
LEMMA ParseTracks ==
  ASSUME TypeInv, Parse, NEW d, Rendered(d), Tracks(d)
  PROVE  Tracks(d)'
<1>1. ConfigTypeOK
  BY DEF TypeInv
<1>2. CASE ParseEnds
  BY <1>1, <1>2, ParseEndsStep
<1>3. CASE ~ParseEnds
  <2>1. mode \in {"Top", "Skip", "Devices", "Block"}
    BY <1>3 DEF Parse, TopSection, TopDevices, TopOther, TopBrace, SkipToken, DevicesDevice,
                DevicesOther, BlockKey, BlockOpens, BlockNested, BlockCloses, In
  <2>2. PICK n \in 1 .. Len(d) + 1 :
          \/ AtTop(d, n)
          \/ \E j \in DOMAIN d : InSkipped(d, j, n) \/ InDevices(d, j, n) \/ InBlock(d, j, n)
    BY <2>1 DEF Tracks
  <2>3. CASE AtTop(d, n)
    <3>1. TopSection \/ TopDevices \/ TopOther \/ TopBrace
      BY <1>3, <2>3 DEF AtTop, Parse, SkipToken, DevicesDevice, DevicesOther, BlockKey,
                        BlockOpens, BlockNested, BlockCloses, In
    <3> QED
      BY <2>3, <3>1, TopSectionStep, TopDevicesStep, TopOtherStep, TopBraceStep
  <2>4. ASSUME NEW j \in DOMAIN d, InSkipped(d, j, n) PROVE Tracks(d)'
    <3>1. SkipToken
      BY <1>3, <2>4 DEF InSkipped, Parse, TopSection, TopDevices, TopOther, TopBrace,
                        DevicesDevice, DevicesOther, BlockKey, BlockOpens, BlockNested,
                        BlockCloses, In
    <3> QED
      BY <2>4, <3>1, SkipTokenStep
  <2>5. ASSUME NEW j \in DOMAIN d, InDevices(d, j, n) PROVE Tracks(d)'
    <3>1. DevicesDevice \/ DevicesOther
      BY <1>3, <2>5 DEF InDevices, Parse, TopSection, TopDevices, TopOther, TopBrace,
                        SkipToken, BlockKey, BlockOpens, BlockNested, BlockCloses, In
    <3> QED
      BY <2>5, <3>1, DevicesDeviceStep, DevicesOtherStep
  <2>6. ASSUME NEW j \in DOMAIN d, InBlock(d, j, n) PROVE Tracks(d)'
    <3>1. BlockKey \/ BlockOpens \/ BlockNested \/ BlockCloses
      BY <1>3, <2>6 DEF InBlock, Parse, TopSection, TopDevices, TopOther, TopBrace,
                        SkipToken, DevicesDevice, DevicesOther, In
    <3> QED
      BY <1>1, <2>6, <3>1, BlockKeyStep, BlockOpensStep, BlockNestedStep, BlockClosesStep
  <2> QED
    BY <2>2, <2>3, <2>4, <2>5, <2>6
<1> QED
  BY <1>2, <1>3

LEMMA StepInv ==
  ASSUME IInv, [ConfigNext]_configVars
  PROVE  IInv'
<1>1. ASSUME Parse, UNCHANGED <<tokens, monitored, config_warnings>>
      PROVE  IInv'
  <2>1. TypeInv'
    BY <1>1, ParseTypes DEF IInv
  <2>2. ASSUME NEW d \in DocumentsOf[tokens]
        PROVE  Tracks(d)'
    BY <1>1, <2>2, DocumentFacts, ParseTracks DEF IInv, ParseInv
  <2> QED
    BY <1>1, <2>1, <2>2 DEF IInv, ParseInv
<1>2. ASSUME Check
      PROVE  IInv'
  <2>1. UNCHANGED <<tokens, monitored, pos, depth, target, block, config>>
        /\ mode = "Parsed" /\ mode' = "Checked" /\ config_warnings' \in BOOLEAN
    BY <1>2 DEF Check
  <2>2. TypeInv'
    BY <2>1 DEF IInv, TypeInv, ConfigTypeOK
  <2>3. ASSUME NEW d \in DocumentsOf[tokens]
        PROVE  Tracks(d)'
    <3>1. Tracks(d)
      BY <2>3 DEF IInv, ParseInv
    <3>2. MeansBefore(d, Len(d) + 1)
      BY <2>1, <3>1 DEF Tracks, AtTop, InSkipped, InDevices, InBlock
    <3>3. MeansBefore(d, Len(d) + 1)'
      BY <2>1, <3>2 DEF MeansBefore
    <3> QED
      BY <2>1, <3>3 DEF Tracks
  <2> QED
    BY <2>1, <2>2, <2>3 DEF IInv, ParseInv
<1>3. ASSUME NextPoll
      PROVE  IInv'
  BY <1>3, NextPollInv DEF IInv, TypeInv, ConfigTypeOK
<1>4. ASSUME UNCHANGED configVars
      PROVE  IInv'
  <2>1. UNCHANGED <<tokens, monitored, mode, pos, depth, target, block, config, config_warnings>>
    BY <1>4 DEF configVars, parserVars
  <2>2. TypeInv'
    BY <2>1 DEF IInv, TypeInv, ConfigTypeOK
  <2>3. ASSUME NEW d \in DocumentsOf[tokens]
        PROVE  Tracks(d)'
    BY <2>1, <2>3 DEF IInv, ParseInv, Tracks, AtTop, InSkipped, InDevices, InBlock, AtLine,
                      MeansBefore, Within
  <2> QED
    BY <2>1, <2>2, <2>3 DEF IInv, ParseInv
<1> QED
  BY <1>1, <1>2, <1>3, <1>4 DEF ConfigNext
-----------------------------------------------------------------------------
\* At the end of the document everything in it has been read.
LEMMA AllRead ==
  ASSUME NEW d, Rendered(d)
  PROVE  /\ DevicesBefore(d, Len(d) + 1) = Devices(d)
         /\ \A name : SectionsBefore(d, name, Len(d) + 1) = Sections(d, name)
<1>1. DOMAIN d = 1 .. Len(d) /\ Len(d) \in Nat
  BY LastPosition
<1>2. \A j \in DOMAIN d : j < Len(d) + 1
  BY <1>1
<1>3. Devices(d) \subseteq DOMAIN d /\ \A name : Sections(d, name) \subseteq DOMAIN d
  BY DEF Devices, Sections
<1> QED
  BY <1>2, <1>3 DEF DevicesBefore, SectionsBefore

LEMMA ParsedMeans ==
  ASSUME IInv, mode \in {"Parsed", "Checked"}, NEW d \in DocumentsOf[tokens]
  PROVE  Rendered(d) /\ MeansBefore(d, Len(d) + 1)
<1>1. Rendered(d) /\ Tracks(d)
  BY DocumentFacts DEF IInv, ParseInv
<1> QED
  BY <1>1 DEF Tracks, AtTop, InSkipped, InDevices, InBlock

LEMMA ParsedMeant ==
  ASSUME IInv
  PROVE  ParsedAsMeant
<1> SUFFICES ASSUME mode \in {"Parsed", "Checked"}, NEW d \in DocumentsOf[tokens]
             PROVE  Means(d)
  BY DEF ParsedAsMeant
<1>1. Rendered(d) /\ MeansBefore(d, Len(d) + 1)
  BY ParsedMeans
<1> QED
  BY <1>1, AllRead DEF Means, MeansBefore

\* The parser's place in every document, and the types, are inductive together.
THEOREM Inductive == ConfigSpec => []IInv
BY InitInv, StepInv, PTL DEF ConfigSpec

\* The types of the state, whatever the replies are, documents or not.
THEOREM TypesCorrect == ConfigSpec => []ConfigTypeOK
<1>1. IInv => ConfigTypeOK
  BY DEF IInv, TypeInv
<1> QED
  BY <1>1, Inductive, PTL

\* The parsed configuration holds what every document that the reply renders means,
\* for documents and replies of any length.
THEOREM ParseCorrect == ConfigSpec => []ParsedAsMeant
BY Inductive, ParsedMeant, PTL
-----------------------------------------------------------------------------
\* A set of numbers up to a bound has a largest one.
LEMMA Largest ==
  ASSUME NEW n \in Nat, NEW S, S \subseteq 1 .. n, S # {}
  PROVE  \E k \in S : \A i \in S : i <= k
<1> DEFINE R == {p \in Nat \X Nat : p[1] < p[2]}
<1> DEFINE Bounds == {b \in Nat : \A i \in S : i <= b}
<1>1. IsWellFoundedOn(R, Nat)
  BY NatLessThanWellFounded DEF OpToRel
<1>2. n \in Bounds /\ Bounds \subseteq Nat
  OBVIOUS
<1>3. PICK k \in Bounds : \A b \in Bounds : ~ (<<b, k>> \in R)
  <2> HIDE DEF R, Bounds
  <2> QED
    BY <1>1, <1>2, WFMin
<1>4. k \in Nat /\ \A i \in S : i <= k /\ i \in Nat
  OBVIOUS
<1>5. k \in S
  <2> SUFFICES ASSUME k \notin S PROVE FALSE
    OBVIOUS
  <2>1. \A i \in S : i <= k - 1 /\ i < k
    BY <1>4
  <2>2. k - 1 \in Nat
    <3>1. PICK i \in 1 .. n : i \in S
      OBVIOUS
    <3>2. i < k
      BY <2>1, <3>1
    <3> QED
      BY <1>4, <3>1, <3>2
  <2>3. k - 1 \in Bounds
    BY <2>1, <2>2
  <2>4. <<k - 1, k>> \in R
    BY <1>4, <2>2
  <2> QED
    BY <1>3, <2>3, <2>4
<1> QED
  BY <1>4, <1>5

LEMMA MaxIs ==
  ASSUME NEW S, S \subseteq Nat, NEW n \in S, \A i \in S : i <= n
  PROVE  Max(S) = n
<1>1. S = (S \ {n}) \cup {n} /\ n \in Nat
  OBVIOUS
<1>2. \A i \in S \ {n} : i < n
  OBVIOUS
<1>3. PICK T : T = S \ {n}
  OBVIOUS
<1>4. Max(T \cup {n}) = n
  BY <1>1, <1>2, <1>3, MaxOfAdded
<1> QED
  BY <1>1, <1>3, <1>4

\* A later device has a higher number.
LEMMA RankGrows ==
  ASSUME NEW d, Rendered(d), NEW i \in Devices(d), NEW j \in Devices(d), Rank(d, i) <= Rank(d, j)
  PROVE  i <= j
<1>1. Devices(d) \subseteq 1 .. Len(d) /\ Len(d) \in Nat
  BY LastPosition DEF Devices
<1>2. SUFFICES ASSUME j < i PROVE FALSE
  BY <1>1
<1>3. PICK S, T : S = {k \in Devices(d) : k <= i} /\ T = {k \in Devices(d) : k <= j}
  OBVIOUS
<1>4. IsFiniteSet(S) /\ S \subseteq 1 .. Len(d)
  <2>1. IsFiniteSet(1 .. Len(d))
    BY <1>1, FS_Interval
  <2> QED
    BY <1>1, <1>3, <2>1, FS_Subset
<1>5. T \subseteq S /\ T # S
  BY <1>1, <1>2, <1>3
<1>6. Cardinality(T) <= Cardinality(S) /\ Cardinality(T) # Cardinality(S)
  BY <1>4, <1>5, FS_Subset
<1>7. Cardinality(S) \in Nat /\ Cardinality(T) \in Nat
  BY <1>4, <1>5, FS_Subset, FS_CardinalityType
<1>8. Cardinality(S) <= Cardinality(T)
  BY <1>3 DEF Rank
<1> QED
  BY <1>6, <1>7, <1>8
-----------------------------------------------------------------------------
\* The devices up to number n that give map the setting s.
Givers(map, n, s) ==
  {k \in 1 .. n : Selects(config.devices[k], map) /\ config.devices[k][s] # None}

\* The settings of a map after the first n devices.
Layered(map, n) ==
  [s \in Settings |->
     IF s \in Merged /\ Givers(map, n, s) # {} THEN config.devices[Max(Givers(map, n, s))][s]
     ELSE config.defaults[s]]

Layer(map, n, below) ==
  IF Selects(config.devices[n], map) THEN Overlay(below, config.devices[n]) ELSE below

LEMMA LayeredStep ==
  ASSUME NEW map, NEW n \in Nat, n > 0
  PROVE  Layered(map, n) = Layer(map, n, Layered(map, n - 1))
<1>1. CASE ~Selects(config.devices[n], map)
  <2>1. \A s : Givers(map, n, s) = Givers(map, n - 1, s)
    BY <1>1 DEF Givers
  <2> QED
    BY <1>1, <2>1 DEF Layered, Layer
<1>2. CASE Selects(config.devices[n], map)
  <2>1. ASSUME NEW s \in Settings
        PROVE  Layered(map, n)[s] = Overlay(Layered(map, n - 1), config.devices[n])[s]
    <3>1. PICK G : G = Givers(map, n - 1, s)
      OBVIOUS
    <3>2. G \subseteq Nat /\ \A k \in G : k < n
      BY <3>1 DEF Givers
    <3>3. CASE config.devices[n][s] = None
      <4>1. Givers(map, n, s) = Givers(map, n - 1, s)
        BY <3>3 DEF Givers
      <4> QED
        BY <3>3, <4>1 DEF Layered, Overlay
    <3>4. CASE config.devices[n][s] # None
      <4>1. Givers(map, n, s) = G \cup {n}
        BY <1>2, <3>1, <3>4 DEF Givers
      <4>2. Max(G \cup {n}) = n /\ G \cup {n} # {}
        BY <3>2, MaxOfAdded
      <4>3. CASE s \in Merged
        BY <3>4, <4>1, <4>2, <4>3 DEF Layered, Overlay
      <4>4. CASE s \notin Merged
        BY <4>4 DEF Layered, Overlay
      <4> QED
        BY <4>3, <4>4
    <3> QED
      BY <3>3, <3>4
  <2>2. Layered(map, n) = [s \in Settings |-> Layered(map, n)[s]]
    BY DEF Layered
  <2>3. Overlay(Layered(map, n - 1), config.devices[n])
          = [s \in Settings |-> Overlay(Layered(map, n - 1), config.devices[n])[s]]
    BY DEF Overlay
  <2>4. Layered(map, n) = Overlay(Layered(map, n - 1), config.devices[n])
    BY <2>1, <2>2, <2>3
  <2> QED
    BY <1>2, <2>4 DEF Layer
<1> QED
  BY <1>1, <1>2

\* Whatever function satisfies the recursion of get_merged_config is this one.
LEMMA LayersUnique ==
  ASSUME ConfigTypeOK, NEW map, NEW L \in Nat, NEW f,
         f = [n \in 0 .. L |-> IF n = 0 THEN config.defaults ELSE Layer(map, n, f[n - 1])]
  PROVE  f[L] = Layered(map, L)
<1> DEFINE R == {p \in Nat \X Nat : p[1] < p[2]}
<1> DEFINE Wrong == {n \in 0 .. L : f[n] # Layered(map, n)}
<1>1. IsWellFoundedOn(R, Nat)
  BY NatLessThanWellFounded DEF OpToRel
<1>2. ASSUME Wrong # {}
      PROVE  FALSE
  <2>1. Wrong \subseteq Nat
    OBVIOUS
  <2>2. PICK n \in Wrong : \A m \in Wrong : ~ (<<m, n>> \in R)
    <3> HIDE DEF R, Wrong
    <3> QED
      BY <1>1, <1>2, <2>1, WFMin
  <2>3. n \in 0 .. L /\ f[n] # Layered(map, n)
    OBVIOUS
  <2>4. CASE n = 0
    <3>1. f[0] = config.defaults
      BY <2>3, <2>4
    <3>2. config.defaults = [s \in Settings |-> config.defaults[s]]
      BY DEF ConfigTypeOK, DeviceConfig
    <3>3. \A s : Givers(map, 0, s) = {}
      BY DEF Givers
    <3>4. Layered(map, 0) = config.defaults
      BY <3>2, <3>3 DEF Layered
    <3> QED
      BY <2>3, <2>4, <3>1, <3>4
  <2>5. CASE n # 0
    <3>1. n - 1 \in 0 .. L /\ n \in Nat /\ n > 0 /\ n - 1 \in Nat /\ n - 1 < n
      BY <2>3, <2>5
    <3>2. <<n - 1, n>> \in R
      BY <3>1
    <3>3. n - 1 \notin Wrong
      BY <2>2, <3>2
    <3>4. f[n - 1] = Layered(map, n - 1)
      BY <3>1, <3>3
    <3>5. f[n] = Layer(map, n, f[n - 1])
      BY <2>3, <2>5
    <3> QED
      BY <2>3, <3>1, <3>4, <3>5, LayeredStep
  <2> QED
    BY <2>4, <2>5
<1> QED
  BY <1>2

LEMMA MergedIs ==
  ASSUME ConfigTypeOK, NEW map
  PROVE  get_merged_config(map) = Overlay(Layered(map, Len(config.devices)), config.overrides)
<1>1. PICK L \in Nat : L = Len(config.devices)
  BY DEF ConfigTypeOK
<1>2. PICK g : g = [n \in 0 .. L |-> Layered(map, n)]
  OBVIOUS
<1>3. g = [n \in 0 .. L |-> IF n = 0 THEN config.defaults ELSE Layer(map, n, g[n - 1])]
  <2>1. ASSUME NEW n \in 0 .. L
        PROVE  g[n] = IF n = 0 THEN config.defaults ELSE Layer(map, n, g[n - 1])
    <3>1. CASE n = 0
      <4>1. config.defaults = [s \in Settings |-> config.defaults[s]]
        BY DEF ConfigTypeOK, DeviceConfig
      <4>2. \A s : Givers(map, 0, s) = {}
        BY DEF Givers
      <4> QED
        BY <1>2, <3>1, <4>1, <4>2 DEF Layered
    <3>2. CASE n # 0
      <4>1. n - 1 \in 0 .. L /\ n \in Nat /\ n > 0
        BY <3>2
      <4> QED
        BY <1>2, <3>2, <4>1, LayeredStep
    <3> QED
      BY <3>1, <3>2
  <2> QED
    BY <1>2, <2>1
<1> DEFINE Step(f) == [n \in 0 .. L |-> IF n = 0 THEN config.defaults ELSE Layer(map, n, f[n - 1])]
<1>4. PICK after : after = CHOOSE f : f = Step(f)
  OBVIOUS
<1>5. after = Step(after)
  BY <1>3, <1>4
<1>6. after[L] = Layered(map, L)
  BY <1>5, LayersUnique
<1>7. get_merged_config(map) = Overlay(after[L], config.overrides)
  BY <1>1, <1>4 DEF get_merged_config, Layer
<1> QED
  BY <1>1, <1>6, <1>7
-----------------------------------------------------------------------------
\* The settings that are merged for a map are those that apply to it.
LEMMA MergedApplies ==
  ASSUME ConfigTypeOK, NEW d, Rendered(d), MeansBefore(d, Len(d) + 1), NEW map, NEW s \in Merged
  PROVE  get_merged_config(map)[s] = Applies(d, map, s)
<1>1. /\ config.defaults = LastMeaning(d, Sections(d, "defaults"))
      /\ config.overrides = LastMeaning(d, Sections(d, "overrides"))
      /\ \A j \in Devices(d) : /\ Rank(d, j) \in DOMAIN config.devices
                               /\ config.devices[Rank(d, j)] = MeaningOf(d, j)
      /\ \A k \in DOMAIN config.devices : \E j \in Devices(d) : Rank(d, j) = k
  BY AllRead DEF MeansBefore
<1>2. PICK L \in Nat : L = Len(config.devices) /\ DOMAIN config.devices = 1 .. L
  BY DEF ConfigTypeOK
<1>3. PICK G, H : /\ G = Givers(map, L, s)
                  /\ H = {j \in Devices(d) : /\ Selects(MeaningOf(d, j), map)
                                             /\ MeaningOf(d, j)[s] # None}
  OBVIOUS
<1>4. G \subseteq 1 .. L
  BY <1>3 DEF Givers
<1>5. \A j \in H : Rank(d, j) \in G
  BY <1>1, <1>2, <1>3 DEF Givers
<1>6. \A k \in G : \E j \in H : Rank(d, j) = k /\ config.devices[k] = MeaningOf(d, j)
  BY <1>1, <1>2, <1>3, <1>4 DEF Givers
<1>7. G = {} <=> H = {}
  BY <1>5, <1>6
<1>8. ASSUME G # {}
      PROVE  config.devices[Max(G)][s] = MeaningOf(d, Max(H))[s]
  <2>1. PICK k \in G : \A i \in G : i <= k
    BY <1>4, <1>8, Largest
  <2>2. Max(G) = k
    <3>1. G \subseteq Nat
      BY <1>4
    <3> QED
      BY <2>1, <3>1, MaxIs
  <2>3. PICK j \in H : Rank(d, j) = k /\ config.devices[k] = MeaningOf(d, j)
    BY <1>6
  <2>4. \A i \in H : i <= j
    BY <1>3, <1>5, <2>1, <2>3, RankGrows
  <2>5. H \subseteq Nat
    BY <1>3, LastPosition DEF Devices
  <2>6. Max(H) = j
    BY <2>4, <2>5, MaxIs
  <2> QED
    BY <2>2, <2>3, <2>6
<1>9. s \in Settings
  BY DEF Settings, Merged
<1>10. Layered(map, L)[s] = IF H # {} THEN MeaningOf(d, Max(H))[s] ELSE config.defaults[s]
  BY <1>3, <1>7, <1>8, <1>9 DEF Layered
<1>11. get_merged_config(map) = Overlay(Layered(map, L), config.overrides)
  BY <1>2, MergedIs
<1>12. get_merged_config(map)[s] = IF config.overrides[s] # None THEN config.overrides[s]
                                   ELSE Layered(map, L)[s]
  BY <1>9, <1>11 DEF Overlay
<1>13. Applies(d, map, s) = IF config.overrides[s] # None THEN config.overrides[s]
                            ELSE IF H # {} THEN MeaningOf(d, Max(H))[s]
                            ELSE config.defaults[s]
  BY <1>1, <1>3 DEF Applies
<1> QED
  BY <1>10, <1>12, <1>13

\* The polling interval of a document is a number wherever it is given.
LEMMA IntervalNumeric ==
  ASSUME NEW d, NEW map
  PROVE  Applies(d, map, "polling_interval") \in DOMAIN Number \cup {None}
<1>1. "polling_interval" \in Settings
  BY DEF Settings
<1>2. \A j : MeaningOf(d, j)["polling_interval"] \in DOMAIN Number \cup {None}
  BY <1>1 DEF MeaningOf, ValueGiven
<1>3. \A S : LastMeaning(d, S)["polling_interval"] \in DOMAIN Number \cup {None}
  BY <1>1, <1>2 DEF LastMeaning, Nothing
<1> QED
  BY <1>2, <1>3 DEF Applies

LEMMA SmallRemainder ==
  ASSUME NEW n \in Nat, NEW u \in Nat, n < u
  PROVE  n % u = n
OBVIOUS

\* The conditions of the warnings are those of the guide, negated.
LEMMA WarnedUnlessSafe ==
  ASSUME NoOverflow, NEW merged, merged.polling_interval \in DOMAIN Number \cup {None}
  PROVE  RetryWarned(merged) \/ LossWarned(merged)
           <=> ~Safe(merged.no_path_retry, merged.dev_loss_tmo, merged.polling_interval)
<1>1. PICK retry, loss, interval :
        /\ retry = merged.no_path_retry /\ loss = merged.dev_loss_tmo
        /\ interval = merged.polling_interval
  OBVIOUS
<1>2. PICK N : N = DOMAIN Number
  OBVIOUS
<1>3. /\ \A w \in N : Number[w] \in Nat
      /\ fencing_time_sec \in Nat /\ U64_RANGE \in Nat /\ "queue" \notin N /\ None \notin N
  <2>1. /\ \A w \in DOMAIN Number : Number[w] \in 0 .. U64_RANGE - 1
        /\ fencing_time_sec \in Nat /\ U64_RANGE \in Nat /\ "queue" \notin DOMAIN Number
        /\ DOMAIN Number \subseteq Words /\ None \notin Words
    BY ConfigAssumption
  <2>2. \A w \in N : Number[w] \in Nat
    BY <1>2, <2>1
  <2> QED
    BY <1>2, <2>1, <2>2
<1>4. PICK period : period = IF interval = None THEN 5 ELSE Number[interval]
  OBVIOUS
<1>5. PICK queueing : queueing = Number[retry] * period
  OBVIOUS
<1>6. retry \in N => /\ queueing \in Nat /\ queueing < U64_RANGE
                     /\ Number[retry] = 0 => queueing = 0
  <2>1. period \in Nat
    BY <1>1, <1>2, <1>3, <1>4
  <2>2. SUFFICES ASSUME retry \in N
                 PROVE  /\ queueing \in Nat /\ queueing < U64_RANGE
                        /\ Number[retry] = 0 => queueing = 0
    OBVIOUS
  <2>3. PICK n \in Nat : n = Number[retry]
    BY <1>3, <2>2
  <2>4. queueing \in Nat /\ (n = 0 => queueing = 0)
    BY <1>5, <2>1, <2>3
  <2>5. queueing < U64_RANGE
    BY <1>1, <1>2, <1>4, <1>5, <2>2 DEF NoOverflow
  <2> QED
    BY <2>3, <2>4, <2>5
<1>7. retry \in N => QueueTime(merged) = queueing
  <2> SUFFICES ASSUME retry \in N PROVE QueueTime(merged) = queueing
    OBVIOUS
  <2>1. QueueTime(merged) = queueing % U64_RANGE
    BY <1>1, <1>4, <1>5 DEF QueueTime, NumberOf
  <2> QED
    BY <1>3, <1>6, <2>1, SmallRemainder
<1>8. QueuesFor(merged) <=> retry \in N /\ Number[retry] > 0
  BY <1>1, <1>2 DEF QueuesFor, Numeric
<1>9. RetryWarned(merged) <=>
        retry # "queue" /\ ~ (retry \in N /\ queueing >= fencing_time_sec + 15)
  <2>1. RetryWarned(merged) <=>
          retry # "queue" /\ (retry \in N /\ Number[retry] > 0 => queueing < fencing_time_sec + 15)
    BY <1>1, <1>7, <1>8 DEF RetryWarned
  <2>2. retry \in N => Number[retry] \in Nat
    BY <1>3
  <2> QED
    BY <1>3, <1>6, <2>1, <2>2
<1>10. LossWarned(merged) <=>
         /\ loss # "infinity"
         /\ loss \in N => \/ Number[loss] < fencing_time_sec + 60
                          \/ retry \in N /\ Number[retry] > 0 /\ Number[loss] <= queueing
  BY <1>1, <1>2, <1>7, <1>8 DEF LossWarned, Numeric
<1>11. Safe(retry, loss, interval) <=>
         /\ retry = "queue" \/ (retry \in N /\ queueing >= fencing_time_sec + 15)
         /\ \/ loss = "infinity"
            \/ /\ loss \in N
               /\ Number[loss] >= fencing_time_sec + 60
               /\ retry = "queue" \/ Number[loss] > queueing
  BY <1>2, <1>4, <1>5 DEF Safe
<1>12. CASE RetryWarned(merged)
  BY <1>1, <1>9, <1>11, <1>12
<1>13. CASE ~RetryWarned(merged) /\ loss = "infinity"
  BY <1>1, <1>9, <1>10, <1>11, <1>13
<1>14. CASE ~RetryWarned(merged) /\ loss # "infinity" /\ loss \notin N
  BY <1>1, <1>9, <1>10, <1>11, <1>14
<1>15. CASE ~RetryWarned(merged) /\ loss # "infinity" /\ loss \in N
  <2>1. PICK m \in Nat : m = Number[loss]
    BY <1>3, <1>15
  <2>2. CASE retry = "queue"
    <3>1. LossWarned(merged) <=> m < fencing_time_sec + 60
      BY <1>3, <1>10, <1>15, <2>1, <2>2
    <3>2. Safe(retry, loss, interval) <=> m >= fencing_time_sec + 60
      BY <1>11, <1>15, <2>1, <2>2
    <3> QED
      BY <1>1, <1>3, <1>15, <3>1, <3>2
  <2>3. CASE retry # "queue"
    <3>1. retry \in N /\ queueing >= fencing_time_sec + 15
      BY <1>9, <1>15, <2>3
    <3>2. Number[retry] \in Nat /\ Number[retry] # 0 /\ queueing \in Nat
      BY <1>3, <1>6, <3>1
    <3>3. LossWarned(merged) <=> m < fencing_time_sec + 60 \/ m <= queueing
      BY <1>10, <1>15, <2>1, <3>1, <3>2
    <3>4. Safe(retry, loss, interval) <=> m >= fencing_time_sec + 60 /\ m > queueing
      BY <1>11, <1>15, <2>1, <2>3, <3>1
    <3> QED
      BY <1>1, <1>3, <1>15, <3>2, <3>3, <3>4
  <2> QED
    BY <2>2, <2>3
<1> QED
  BY <1>12, <1>13, <1>14, <1>15

LEMMA WarnedExactly ==
  ASSUME NoOverflow, IInv, mode = "Parsed", NEW d \in DocumentsOf[tokens], NEW map
  PROVE  HasWarnings(map) <=> ~SafeFor(d, map)
<1>1. Rendered(d) /\ MeansBefore(d, Len(d) + 1) /\ ConfigTypeOK
  BY ParsedMeans DEF IInv, TypeInv
<1>2. PICK merged : merged = get_merged_config(map)
  OBVIOUS
<1>3. \A s \in Merged : merged[s] = Applies(d, map, s)
  BY <1>1, <1>2, MergedApplies
<1>4. /\ merged.no_path_retry = Applies(d, map, "no_path_retry")
      /\ merged.dev_loss_tmo = Applies(d, map, "dev_loss_tmo")
      /\ merged.polling_interval = Applies(d, map, "polling_interval")
  BY <1>3 DEF Merged
<1>5. merged.polling_interval \in DOMAIN Number \cup {None}
  BY <1>4, IntervalNumeric
<1>6. HasWarnings(map) <=> RetryWarned(merged) \/ LossWarned(merged)
  BY <1>2 DEF HasWarnings
<1>7. SafeFor(d, map)
        <=> Safe(merged.no_path_retry, merged.dev_loss_tmo, merged.polling_interval)
  BY <1>4 DEF SafeFor
<1> QED
  BY <1>5, <1>6, <1>7, WarnedUnlessSafe

LEMMA WarningStep ==
  ASSUME NoOverflow, IInv, WarningIsExact, [ConfigNext]_configVars
  PROVE  WarningIsExact'
<1>1. CASE Parse
  <2>1. mode' # "Checked"
    BY <1>1 DEF Parse, TopSection, TopDevices, TopOther, TopBrace, SkipToken, DevicesDevice,
                DevicesOther, BlockKey, BlockOpens, BlockNested, BlockCloses, ParseEnds,
                EnterBlock, In
  <2> QED
    BY <2>1 DEF WarningIsExact
<1>2. CASE Check
  <2>1. /\ mode = "Parsed" /\ UNCHANGED <<tokens, monitored>>
        /\ config_warnings' = \E map \in monitored : HasWarnings(map)
    BY <1>2 DEF Check
  <2>2. ASSUME NEW d \in DocumentsOf[tokens]
        PROVE  config_warnings' <=> \E map \in monitored : ~SafeFor(d, map)
    BY <2>1, <2>2, WarnedExactly
  <2> QED
    BY <2>1, <2>2 DEF WarningIsExact
<1>3. CASE NextPoll
  BY <1>3 DEF NextPoll, StartParsing, WarningIsExact
<1>4. CASE UNCHANGED configVars
  BY <1>4 DEF configVars, parserVars, WarningIsExact
<1> QED
  BY <1>1, <1>2, <1>3, <1>4 DEF ConfigNext

\* After every poll the warning says exactly whether some map in use has settings
\* that do not give the fencing its time, for any documents, maps and times.
THEOREM WarningCorrect == ASSUME NoOverflow PROVE ConfigSpec => []WarningIsExact
<1>1. ConfigInit => WarningIsExact
  BY DEF ConfigInit, WarningIsExact
<1>2. IInv /\ WarningIsExact /\ [ConfigNext]_configVars => (IInv /\ WarningIsExact)'
  BY StepInv, WarningStep
<1> QED
  BY <1>1, <1>2, InitInv, PTL DEF ConfigSpec
=============================================================================
