------------------------- MODULE MpathClientProofs --------------------------
(***************************************************************************)
(* Proofs about the queries and the server that answers them, for any      *)
(* commands, test data, callers, connections and timeouts.                 *)
(*                                                                         *)
(* First, a query takes no longer than its connection may and each part of *)
(* its reply may: what the query had spent before its present wait has to  *)
(* be bounded at each of its steps.  Then, a reply is the whole text of a  *)
(* file that its own command is answered with: whose request and whose     *)
(* reply is on a connection has to be known at every moment of it.  Last,  *)
(* a round of the rotation serves each file of a command once.             *)
(***************************************************************************)
EXTENDS MpathClient, TLAPS, FiniteSetTheorems, SequenceTheorems, WellFoundedInduction

(* How long a query takes.                                                 *)


\* The fields that time depends on; nothing depends on what the connection carries.
Shape(q) == {"step", "got", "wait", "spent"} \subseteq DOMAIN q

IsSequence(s) == \E S : s \in Seq(S)

\* The present wait is within its limit, and so was each earlier one.
Timed(q) ==
  /\ q.step \in {"Idle", "Connect", "Send", "Length", "Data"}
  /\ IsSequence(q.got) /\ q.wait \in Nat /\ q.spent \in Nat
  /\ q.step = "Idle" => q.spent = 0
  /\ q.step = "Connect" => q.spent = q.wait /\ q.wait <= CONNECT_TIMEOUT
  /\ q.step = "Send" => q.spent <= CONNECT_TIMEOUT
  /\ q.step \in {"Length", "Data"} => q.wait <= REPLY_TIMEOUT
  /\ q.step = "Length" => q.spent <= CONNECT_TIMEOUT + q.wait
  /\ q.step = "Data" =>
       q.spent <= CONNECT_TIMEOUT + REPLY_TIMEOUT * (Len(q.got) + 1) + q.wait

IInv ==
  /\ DOMAIN query = Callers
  /\ \A c \in Callers : Shape(query[c]) /\ Timed(query[c])
-----------------------------------------------------------------------------
LEMMA SequenceFacts ==
  ASSUME NEW s, IsSequence(s), NEW e
  PROVE  /\ Len(s) \in Nat
         /\ IsSequence(Append(s, e)) /\ Len(Append(s, e)) = Len(s) + 1
<1>1. PICK S : s \in Seq(S)
  BY DEF IsSequence
<1>2. s \in Seq(S \cup {e}) /\ e \in S \cup {e}
  BY <1>1
<1>3. Append(s, e) \in Seq(S \cup {e}) /\ Len(Append(s, e)) = Len(s) + 1 /\ Len(s) \in Nat
  BY <1>2
<1> QED
  BY <1>3 DEF IsSequence

LEMMA TimesMore ==
  ASSUME NEW n \in Nat
  PROVE  /\ REPLY_TIMEOUT * n \in Nat
         /\ REPLY_TIMEOUT * (n + 1) = REPLY_TIMEOUT * n + REPLY_TIMEOUT
BY ClientAssumption

\* A query that has not begun is timed, whatever it asks for or has got.
LEMMA FreshQuery ==
  ASSUME NEW command, NEW k, NEW result, NEW step \in {"Idle", "Connect"}, NEW q,
         q = [step |-> step, command |-> command, conn |-> k, want |-> 0, got |-> <<>>,
              wait |-> 0, spent |-> 0, result |-> result]
  PROVE  Shape(q) /\ Timed(q)
<1>1. IsSequence(<<>>)
  <2>1. <<>> \in Seq({})
    OBVIOUS
  <2> QED
    BY <2>1 DEF IsSequence
<1>2. CONNECT_TIMEOUT \in Nat
  BY ClientAssumption
<1> QED
  BY <1>1, <1>2 DEF Shape, Timed

\* The fields that a step sets and the ones that it leaves alone.
LEMMA Counted ==
  ASSUME NEW q, Shape(q), NEW want
  PROVE  LET r == [q EXCEPT !.step = "Data", !.wait = 0, !.want = want]
         IN  Shape(r) /\ r.step = "Data" /\ r.wait = 0 /\ r.got = q.got /\ r.spent = q.spent
BY DEF Shape

LEMMA Extended ==
  ASSUME NEW q, Shape(q), NEW got
  PROVE  LET r == [q EXCEPT !.got = got, !.wait = 0]
         IN  Shape(r) /\ r.step = q.step /\ r.wait = 0 /\ r.got = got /\ r.spent = q.spent
BY DEF Shape

LEMMA Waited ==
  ASSUME NEW q, Shape(q)
  PROVE  LET r == [q EXCEPT !.wait = @ + 1, !.spent = @ + 1]
         IN  /\ Shape(r) /\ r.step = q.step /\ r.got = q.got
             /\ r.wait = q.wait + 1 /\ r.spent = q.spent + 1
BY DEF Shape

\* A step of one caller only has to keep its own query timed.
LEMMA OneCaller ==
  ASSUME IInv, NEW c \in Callers, NEW q, Shape(q), Timed(q),
         query' = [query EXCEPT ![c] = q]
  PROVE  IInv'
<1>1. /\ DOMAIN query' = Callers
      /\ \A d \in Callers : query'[d] = IF d = c THEN q ELSE query[d]
  BY DEF IInv
<1>2. \A d \in Callers : Shape(query'[d]) /\ Timed(query'[d])
  BY <1>1 DEF IInv
<1> QED
  BY <1>1, <1>2 DEF IInv, Shape, Timed, IsSequence
-----------------------------------------------------------------------------
THEOREM InitInv == ClientInit => IInv
<1> SUFFICES ASSUME ClientInit PROVE IInv
  OBVIOUS
<1>1. query = [c \in Callers |-> Idle]
  BY DEF ClientInit
<1>2. Shape(Idle) /\ Timed(Idle)
  BY FreshQuery DEF Idle
<1> QED
  BY <1>1, <1>2 DEF IInv

LEMMA StartStep ==
  ASSUME IInv, NEW c \in Callers, NEW command \in Commands, StartQuery(c, command)
  PROVE  IInv'
<1>1. PICK k \in Conns :
        query' = [query EXCEPT ![c] = [Idle EXCEPT !.step = "Connect", !.conn = k,
                                                   !.command = command]]
  BY DEF StartQuery
<1>2. PICK q : q = [Idle EXCEPT !.step = "Connect", !.conn = k, !.command = command]
  OBVIOUS
<1>3. q = [step |-> "Connect", command |-> command, conn |-> k, want |-> 0, got |-> <<>>,
           wait |-> 0, spent |-> 0, result |-> NoResult]
  BY <1>2 DEF Idle
<1>4. Shape(q) /\ Timed(q)
  BY <1>3, FreshQuery
<1> QED
  BY <1>1, <1>2, <1>4, OneCaller

LEMMA FinishStep ==
  ASSUME IInv, NEW c \in Callers, NEW kind, NEW text, Finish(c, kind, text)
  PROVE  IInv'
<1>1. PICK q : q = [Idle EXCEPT !.command = query[c].command,
                                !.result = [kind |-> kind, text |-> text]]
  OBVIOUS
<1>2. query' = [query EXCEPT ![c] = q]
  BY <1>1 DEF Finish
<1>3. q = [step |-> "Idle", command |-> query[c].command, conn |-> 0, want |-> 0,
           got |-> <<>>, wait |-> 0, spent |-> 0, result |-> [kind |-> kind, text |-> text]]
  BY <1>1 DEF Idle
<1>4. Shape(q) /\ Timed(q)
  BY <1>3, FreshQuery
<1> QED
  BY <1>2, <1>4, OneCaller

\* The caller goes on: what it has spent is bounded by what it might have.
LEMMA ProceedStep ==
  ASSUME IInv, NEW c \in Callers, NEW from, NEW next,
         (from = "Connect" /\ next = "Send") \/ (from = "Send" /\ next = "Length"),
         query[c].step = from,
         Proceed(c, next)
  PROVE  IInv'
<1>1. Shape(query[c]) /\ Timed(query[c])
  BY DEF IInv
<1>2. PICK q : q = [query[c] EXCEPT !.step = next, !.wait = 0]
  OBVIOUS
<1>3. query' = [query EXCEPT ![c] = q]
  BY <1>2 DEF Proceed, IInv
<1>4. /\ Shape(q) /\ q.step = next /\ q.wait = 0
      /\ q.got = query[c].got /\ q.spent = query[c].spent
  BY <1>1, <1>2 DEF Shape
<1>5. Timed(q)
  BY <1>1, <1>4, ClientAssumption DEF Timed
<1> QED
  BY <1>3, <1>4, <1>5, OneCaller

LEMMA ConnectedStep ==
  ASSUME IInv, NEW c \in Callers, At(c, "Connect"), Proceed(c, "Send")
  PROVE  IInv'
BY ProceedStep DEF At

LEMMA SentStep ==
  ASSUME IInv, NEW c \in Callers, At(c, "Send"), Proceed(c, "Length")
  PROVE  IInv'
BY ProceedStep DEF At

LEMMA LengthStep ==
  ASSUME IInv, NEW c \in Callers, ReceiveLength(c)
  PROVE  IInv'
<1>1. PICK reply_len : reply_len = Head(Own(c).wire)
  OBVIOUS
<1>2. CASE Finish(c, "InvalidData", <<>>)
  BY <1>2, FinishStep
<1>3. CASE query' = [query EXCEPT ![c].step = "Data", ![c].wait = 0, ![c].want = reply_len]
  <2>1. Shape(query[c]) /\ Timed(query[c]) /\ query[c].step = "Length"
    BY DEF IInv, ReceiveLength, At
  <2>2. PICK q : q = [query[c] EXCEPT !.step = "Data", !.wait = 0, !.want = reply_len]
    OBVIOUS
  <2>3. query' = [query EXCEPT ![c] = q]
    BY <1>3, <2>2 DEF IInv
  <2>4. /\ Shape(q) /\ q.step = "Data" /\ q.wait = 0
        /\ q.got = query[c].got /\ q.spent = query[c].spent
    BY <2>1, <2>2, Counted
  <2>5. PICK n \in Nat : n = Len(query[c].got)
    BY <2>1, SequenceFacts DEF Timed
  <2>6. REPLY_TIMEOUT * (n + 1) = REPLY_TIMEOUT * n + REPLY_TIMEOUT /\ REPLY_TIMEOUT * n \in Nat
    BY TimesMore
  <2>7. Timed(q)
    BY <2>1, <2>4, <2>5, <2>6, ClientAssumption DEF Timed
  <2> QED
    BY <2>3, <2>4, <2>7, OneCaller
<1> QED
  BY <1>1, <1>2, <1>3 DEF ReceiveLength

\* One part more has come, so one wait more is allowed.
LEMMA DataStep ==
  ASSUME IInv, NEW c \in Callers, ReceiveData(c)
  PROVE  IInv'
<1>1. PICK more : more = Append(query[c].got, Head(Own(c).wire))
  OBVIOUS
<1>2. CASE FinishDecoded(c, more)
  BY <1>2, FinishStep DEF FinishDecoded
<1>3. CASE query' = [query EXCEPT ![c].got = more, ![c].wait = 0]
  <2>1. Shape(query[c]) /\ Timed(query[c]) /\ query[c].step = "Data"
    BY DEF IInv, ReceiveData, At
  <2>2. PICK q : q = [query[c] EXCEPT !.got = more, !.wait = 0]
    OBVIOUS
  <2>3. query' = [query EXCEPT ![c] = q]
    BY <1>3, <2>2 DEF IInv
  <2>4. /\ Shape(q) /\ q.step = "Data" /\ q.wait = 0
        /\ q.got = more /\ q.spent = query[c].spent
    BY <2>1, <2>2, Extended
  <2>5. PICK n \in Nat : n = Len(query[c].got)
    BY <2>1, SequenceFacts DEF Timed
  <2>6. IsSequence(more) /\ Len(more) = n + 1
    BY <1>1, <2>1, <2>5, SequenceFacts DEF Timed
  <2>7. /\ REPLY_TIMEOUT * (n + 1) \in Nat
        /\ REPLY_TIMEOUT * ((n + 1) + 1) = REPLY_TIMEOUT * (n + 1) + REPLY_TIMEOUT
    BY TimesMore
  <2>8. Timed(q)
    BY <2>1, <2>4, <2>5, <2>6, <2>7, ClientAssumption DEF Timed
  <2> QED
    BY <2>3, <2>4, <2>8, OneCaller
<1> QED
  BY <1>1, <1>2, <1>3 DEF ReceiveData

LEMMA TickStep ==
  ASSUME IInv, Tick
  PROVE  IInv'
<1>1. /\ DOMAIN query' = Callers
      /\ \A c \in Callers : query'[c] = IF Blocked(c)
           THEN [query[c] EXCEPT !.wait = @ + 1, !.spent = @ + 1] ELSE query[c]
  BY DEF Tick
<1>2. ASSUME NEW c \in Callers PROVE Shape(query'[c]) /\ Timed(query'[c])
  <2>1. Shape(query[c]) /\ Timed(query[c])
    BY DEF IInv
  <2>2. CASE ~Blocked(c)
    BY <1>1, <2>1, <2>2
  <2>3. CASE Blocked(c)
    <3>1. PICK q : q = [query[c] EXCEPT !.wait = @ + 1, !.spent = @ + 1]
      OBVIOUS
    <3>2. query'[c] = q
      BY <1>1, <2>3, <3>1
    <3>3. /\ query[c].step \in {"Connect", "Length", "Data"}
          /\ query[c].wait < IF query[c].step = "Connect" THEN CONNECT_TIMEOUT ELSE REPLY_TIMEOUT
      BY <2>3 DEF Tick, Blocked, At, Receiving, WaitLimit
    <3>4. /\ Shape(q) /\ q.step = query[c].step /\ q.got = query[c].got
          /\ q.wait = query[c].wait + 1 /\ q.spent = query[c].spent + 1
      BY <2>1, <3>1, Waited
    <3>5. PICK n \in Nat : n = Len(query[c].got)
      BY <2>1, SequenceFacts DEF Timed
    <3>6. REPLY_TIMEOUT * (n + 1) \in Nat
      BY TimesMore
    <3>7. Timed(q)
      <4>1. CASE query[c].step = "Connect"
        BY <2>1, <3>3, <3>4, <4>1, ClientAssumption DEF Timed
      <4>2. CASE query[c].step = "Length"
        BY <2>1, <3>3, <3>4, <4>2, ClientAssumption DEF Timed
      <4>3. CASE query[c].step = "Data"
        <5>1. query[c].spent <= CONNECT_TIMEOUT + REPLY_TIMEOUT * (n + 1) + query[c].wait
          BY <2>1, <3>5, <4>3 DEF Timed
        <5>2. q.spent <= CONNECT_TIMEOUT + REPLY_TIMEOUT * (n + 1) + q.wait
          BY <2>1, <3>4, <3>6, <5>1, ClientAssumption DEF Timed
        <5>3. IsSequence(q.got) /\ q.wait \in Nat /\ q.spent \in Nat /\ q.wait <= REPLY_TIMEOUT
          BY <2>1, <3>3, <3>4, <4>3, ClientAssumption DEF Timed
        <5> QED
          BY <3>4, <3>5, <4>3, <5>2, <5>3 DEF Timed
      <4> QED
        BY <3>3, <4>1, <4>2, <4>3
    <3> QED
      BY <3>2, <3>4, <3>7
  <2> QED
    BY <2>2, <2>3
<1> QED
  BY <1>1, <1>2 DEF IInv, Shape, Timed, IsSequence

\* The server's and the helpers' steps leave the queries alone.
LEMMA OthersStep ==
  ASSUME IInv, UNCHANGED query
  PROVE  IInv'
BY DEF IInv, Shape, Timed, IsSequence

THEOREM StepInv == IInv /\ [ClientNext]_clientVars => IInv'
<1> SUFFICES ASSUME IInv, [ClientNext]_clientVars PROVE IInv'
  OBVIOUS
<1>1. ASSUME NEW c \in Callers, Call(c) PROVE IInv'
  <2>1. CASE ReceiveConnection(c)
    BY <2>1, ConnectedStep DEF ReceiveConnection
  <2>2. CASE ConnectFails(c)
    BY <2>2, FinishStep DEF ConnectFails
  <2>3. CASE send_command_stream(c)
    BY <2>3, FinishStep, SentStep DEF send_command_stream
  <2>4. CASE ReceiveLength(c)
    BY <2>4, LengthStep
  <2>5. CASE ReceiveData(c)
    BY <2>5, DataStep
  <2>6. CASE ReceiveFails(c)
    BY <2>6, FinishStep DEF ReceiveFails
  <2> QED
    BY <1>1, <2>1, <2>2, <2>3, <2>4, <2>5, <2>6 DEF Call
<1>2. ASSUME NEW c \in Callers, NEW command \in Commands, StartQuery(c, command) PROVE IInv'
  BY <1>2, StartStep
<1>3. CASE Tick
  BY <1>3, TickStep
<1>4. CASE (\E k \in Conns : Help(k)) \/ ServerStep \/ UNCHANGED clientVars
  BY <1>4, OthersStep DEF Help, HelperConnects, HelperRefused, ServerStep, clientVars
<1> QED
  BY <1>1, <1>2, <1>3, <1>4 DEF ClientNext
-----------------------------------------------------------------------------
\* Every wait of a query is within its limit, for any two timeouts.
THEOREM Inductive == ClientSpec => []IInv
<1>1. ClientInit => IInv
  BY InitInv
<1>2. IInv /\ [ClientNext]_clientVars => IInv'
  BY StepInv
<1>3. ClientSpec => ClientInit /\ [][ClientNext]_clientVars
  BY PTL DEF ClientSpec
<1> QED
  BY <1>1, <1>2, <1>3, PTL

\* A query is bounded by the parts of its reply, whoever answers it and however.
THEOREM QueriesBounded == ClientSpec => []QueryBounded
<1>1. IInv => QueryBounded
  <2> SUFFICES ASSUME IInv, NEW c \in Callers
               PROVE  LET parts == IF At(c, "Data") THEN 1 + Len(query[c].got) ELSE 0
                      IN  query[c].spent <= CONNECT_TIMEOUT
                            + IF Receiving(c) THEN REPLY_TIMEOUT * (parts + 1) ELSE 0
    BY DEF QueryBounded
  <2>1. Timed(query[c])
    BY DEF IInv
  <2>2. PICK n \in Nat : n = Len(query[c].got)
    BY <2>1, SequenceFacts DEF Timed
  <2>3. /\ REPLY_TIMEOUT * ((n + 1) + 1) = REPLY_TIMEOUT * (n + 1) + REPLY_TIMEOUT
        /\ REPLY_TIMEOUT * (n + 1) \in Nat /\ REPLY_TIMEOUT * (0 + 1) = REPLY_TIMEOUT
    BY TimesMore, ClientAssumption
  <2>4. CASE query[c].step = "Data"
    BY <2>1, <2>2, <2>3, <2>4, ClientAssumption DEF Timed, At, Receiving
  <2>5. CASE query[c].step = "Length"
    BY <2>1, <2>3, <2>5, ClientAssumption DEF Timed, At, Receiving
  <2>6. CASE query[c].step \in {"Idle", "Connect", "Send"}
    BY <2>1, <2>6, ClientAssumption DEF Timed, At, Receiving
  <2> QED
    BY <2>1, <2>4, <2>5, <2>6 DEF Timed
<1> QED
  BY <1>1, Inductive, PTL
-----------------------------------------------------------------------------
(* What the server has loaded.                                             *)

\* The ranks of the elements of a finite set of numbers are the numbers up to its size.
LEMMA Ranks ==
  ASSUME NEW S, S \subseteq Nat, IsFiniteSet(S)
  PROVE  /\ Cardinality(S) \in Nat
         /\ \A n \in 1 .. Cardinality(S) :
              Nth(S, n) \in S /\ Cardinality({y \in S : y <= Nth(S, n)}) = n
         /\ \A x \in S : \E n \in 1 .. Cardinality(S) : Nth(S, n) = x
<1> DEFINE N == Cardinality(S)
           Upto(x) == {y \in S : y <= x}
           Rank == [x \in S |-> Cardinality(Upto(x))]
<1>1. N \in Nat
  BY FS_CardinalityType
<1>2. ASSUME NEW x \in S
      PROVE  IsFiniteSet(Upto(x)) /\ Cardinality(Upto(x)) \in 1 .. N
  <2>1. Upto(x) \in SUBSET S /\ x \in Upto(x)
    OBVIOUS
  <2>2. IsFiniteSet(Upto(x)) /\ Cardinality(Upto(x)) <= N
    BY <2>1, FS_Subset
  <2>3. Cardinality(Upto(x)) \in Nat /\ Cardinality(Upto(x)) # 0
    BY <2>1, <2>2, FS_CardinalityType, FS_EmptySet
  <2> QED
    BY <1>1, <2>2, <2>3
<1>3. ASSUME NEW x \in S, NEW z \in S, x < z PROVE Cardinality(Upto(x)) # Cardinality(Upto(z))
  <2>1. Upto(x) \in SUBSET Upto(z) /\ z \in Upto(z) /\ z \notin Upto(x)
    <3>1. x \in Nat /\ z \in Nat /\ \A y \in S : y \in Nat
      OBVIOUS
    <3>2. \A y \in S : y <= x => y <= z
      BY <1>3, <3>1
    <3>3. Upto(x) \in SUBSET Upto(z)
      BY <3>2
    <3>4. z <= z /\ ~ (z <= x)
      BY <1>3, <3>1
    <3> QED
      BY <3>3, <3>4
  <2> HIDE DEF Upto
  <2>2. IsFiniteSet(Upto(z)) /\ Upto(z) # Upto(x)
    BY <1>2, <2>1
  <2> QED
    BY <2>1, <2>2, FS_Subset
<1>4. Rank \in Injection(S, 1 .. N)
  <2>1. Rank \in [S -> 1 .. N]
    BY <1>2
  <2>2. ASSUME NEW x \in S, NEW z \in S, Rank[x] = Rank[z] PROVE x = z
    <3>1. ~ (x < z) /\ ~ (z < x)
      BY <1>3, <2>2
    <3> QED
      BY <3>1
  <2> QED
    BY <2>1, <2>2 DEF Injection, IsInjective
<1>5. IsFiniteSet(1 .. N) /\ Cardinality(1 .. N) = N
  BY <1>1, FS_Interval
<1>6. Rank \in Surjection(S, 1 .. N)
  BY <1>4, <1>5, FS_Injection
<1>7. ASSUME NEW n \in 1 .. N PROVE Nth(S, n) \in S /\ Cardinality(Upto(Nth(S, n))) = n
  <2>1. PICK x \in S : Cardinality(Upto(x)) = n
    BY <1>6 DEF Surjection
  <2> QED
    BY <2>1 DEF Nth
<1>8. ASSUME NEW x \in S PROVE \E n \in 1 .. N : Nth(S, n) = x
  <2>1. PICK n \in 1 .. N : n = Rank[x]
    BY <1>2
  <2>2. Nth(S, n) \in S /\ Rank[Nth(S, n)] = Rank[x]
    BY <1>7, <2>1
  <2> QED
    BY <1>4, <2>2 DEF Injection, IsInjective
<1> QED
  BY <1>1, <1>7, <1>8

IsSeq(s) == s \in Seq(Range(s))
Distinct(s) == \A i, j \in DOMAIN s : s[i] = s[j] => i = j

\* What is loaded from a list of files: their contents, in the order of the list.
LEMMA LoadedFacts ==
  ASSUME setup \in Setups, NEW paths, IsSeq(paths)
  PROVE  LET files == Loaded(paths) IN
         /\ files \in Seq(Seq(Nat))
         /\ Range(files) = {setup.files[p] : p \in Range(paths) \cap DOMAIN setup.files}
         /\ Distinct(setup.files) /\ Distinct(paths) => Distinct(files)
         /\ paths # <<>> /\ paths[1] \in DOMAIN setup.files =>
              files # <<>> /\ files[1] = setup.files[paths[1]]
<1> DEFINE R == {i \in DOMAIN paths : paths[i] \in DOMAIN setup.files}
           N == Cardinality(R)
           files == Loaded(paths)
<1>1. Len(paths) \in Nat /\ DOMAIN paths = 1 .. Len(paths)
  BY DEF IsSeq
<1>2. R \subseteq Nat /\ IsFiniteSet(R)
  <2>1. IsFiniteSet(1 .. Len(paths)) /\ R \in SUBSET (1 .. Len(paths))
    BY <1>1, FS_Interval
  <2> QED
    BY <1>1, <2>1, FS_Subset
<1>3. files = [n \in 1 .. N |-> setup.files[paths[Nth(R, n)]]]
  BY DEF Loaded
<1>4. \A p \in DOMAIN setup.files : setup.files[p] \in Seq(Nat)
  BY SetupAssumption
<1>5. \A i : i \in R <=> i \in DOMAIN paths /\ paths[i] \in DOMAIN setup.files
  OBVIOUS
<1> HIDE DEF R, files
<1>6. /\ N \in Nat
      /\ \A n \in 1 .. N : Nth(R, n) \in R /\ Cardinality({y \in R : y <= Nth(R, n)}) = n
      /\ \A x \in R : \E n \in 1 .. N : Nth(R, n) = x
  BY <1>2, Ranks
<1>7. DOMAIN files = 1 .. N /\ \A n \in 1 .. N : files[n] = setup.files[paths[Nth(R, n)]]
  BY <1>3
<1>8. files \in Seq(Seq(Nat))
  <2>1. \A n \in 1 .. N : files[n] \in Seq(Nat)
    BY <1>4, <1>5, <1>6, <1>7
  <2>2. files \in [1 .. N -> Seq(Nat)]
    BY <1>3, <1>7, <2>1
  <2> QED
    BY <1>6, <2>2
<1>9. Range(files) = {setup.files[p] : p \in Range(paths) \cap DOMAIN setup.files}
  <2>1. ASSUME NEW n \in 1 .. N
        PROVE  files[n] \in {setup.files[p] : p \in Range(paths) \cap DOMAIN setup.files}
    BY <1>5, <1>6, <1>7 DEF Range
  <2>2. ASSUME NEW p \in Range(paths) \cap DOMAIN setup.files
        PROVE  setup.files[p] \in Range(files)
    <3>1. PICK i \in R : paths[i] = p
      BY <1>5 DEF Range
    <3>2. PICK n \in 1 .. N : Nth(R, n) = i
      BY <1>6
    <3> QED
      BY <1>7, <3>1, <3>2 DEF Range
  <2> QED
    BY <1>7, <2>1, <2>2 DEF Range
<1>10. ASSUME Distinct(setup.files), Distinct(paths) PROVE Distinct(files)
  <2>1. ASSUME NEW i \in 1 .. N, NEW j \in 1 .. N, files[i] = files[j] PROVE i = j
    <3>1. PICK k \in R, l \in R : k = Nth(R, i) /\ l = Nth(R, j)
      BY <1>6
    <3>2. setup.files[paths[k]] = setup.files[paths[l]]
      BY <1>7, <2>1, <3>1
    <3>3. paths[k] = paths[l]
      BY <1>5, <1>10, <3>2 DEF Distinct
    <3>4. k = l
      BY <1>5, <1>10, <3>3 DEF Distinct
    <3>5. Cardinality({y \in R : y <= k}) = i /\ Cardinality({y \in R : y <= l}) = j
      BY <1>6, <3>1
    <3> QED
      BY <3>4, <3>5
  <2> QED
    BY <1>7, <2>1 DEF Distinct
<1>11. ASSUME paths # <<>>, paths[1] \in DOMAIN setup.files
       PROVE  files # <<>> /\ files[1] = setup.files[paths[1]]
  <2>1. 1 \in R
    BY <1>1, <1>5, <1>11 DEF IsSeq
  <2>2. PICK n \in 1 .. N : Nth(R, n) = 1
    BY <1>6, <2>1
  <2>3. {y \in R : y <= 1} = {1}
    BY <1>1, <1>5, <2>1
  <2>4. n = 1
    <3>1. Cardinality({y \in R : y <= Nth(R, n)}) = n
      BY <1>6
    <3>2. {y \in R : y <= Nth(R, n)} = {1}
      BY <2>2, <2>3
    <3> QED
      BY <3>1, <3>2, FS_Singleton
  <2>5. 1 \in DOMAIN files /\ files[1] = setup.files[paths[1]]
    <3>1. 1 \in 1 .. N /\ Nth(R, 1) = 1
      BY <2>2, <2>4
    <3>2. files[1] = setup.files[paths[Nth(R, 1)]]
      BY <1>7, <3>1
    <3> QED
      BY <1>7, <3>1, <3>2
  <2>6. Len(files) # 0 /\ Len(<<>>) = 0
    BY <1>8, <2>5, EmptySeq
  <2>7. files # <<>>
    BY <2>6
  <2> QED
    BY <2>5, <2>7
<1> QED
  BY <1>8, <1>9, <1>10, <1>11 DEF files

\* A sequence without elements is empty.
LEMMA Elements ==
  ASSUME NEW s, IsSeq(s)
  PROVE  s = <<>> <=> Range(s) = {}
<1>1. Len(s) \in Nat /\ DOMAIN s = 1 .. Len(s)
  BY DEF IsSeq
<1>2. CASE s = <<>>
  BY <1>2 DEF Range
<1>3. CASE s # <<>>
  <2>1. Len(s) # 0
    BY <1>3, EmptySeq DEF IsSeq
  <2>2. 1 \in DOMAIN s
    BY <1>1, <2>1
  <2> QED
    BY <1>3, <2>2 DEF Range
<1> QED
  BY <1>2, <1>3

\* One more in front.
LEMMA InFront ==
  ASSUME NEW d, NEW s, IsSeq(s)
  PROVE  LET t == <<d>> \o s IN
         /\ IsSeq(t) /\ t # <<>> /\ t[1] = d
         /\ Range(t) = {d} \cup Range(s)
         /\ d \notin Range(s) /\ Distinct(s) => Distinct(t)
<1> DEFINE t == <<d>> \o s
<1>1. Len(s) \in Nat /\ DOMAIN s = 1 .. Len(s)
  BY DEF IsSeq
<1>2. PICK S : s \in Seq(S) /\ d \in S
  <2>1. s \in Seq(Range(s) \cup {d})
    BY DEF IsSeq
  <2> QED
    BY <2>1
<1>3. /\ t \in Seq(S) /\ Len(t) = Len(s) + 1
      /\ t[1] = d /\ \A i \in 1 .. Len(s) : t[i + 1] = s[i]
  BY <1>2
<1> HIDE DEF t
<1>4. DOMAIN t = 1 .. (Len(s) + 1)
  BY <1>1, <1>3
<1>5. \A j \in DOMAIN t : j = 1 \/ \E i \in DOMAIN s : j = i + 1
  <2>1. ASSUME NEW j \in 1 .. (Len(s) + 1), j # 1 PROVE j - 1 \in 1 .. Len(s) /\ j = (j - 1) + 1
    BY <1>1, <2>1
  <2> QED
    BY <1>1, <1>4, <2>1
<1>6. 1 \in DOMAIN t /\ \A i \in DOMAIN s : i + 1 \in DOMAIN t /\ t[i + 1] = s[i]
  BY <1>1, <1>3, <1>4
<1>7. Range(t) = {d} \cup Range(s)
  BY <1>3, <1>5, <1>6 DEF Range
<1>8. IsSeq(t)
  BY <1>1, <1>3, <1>4 DEF IsSeq, Range
<1>9. t # <<>>
  BY <1>7, <1>8, Elements
<1>10. ASSUME d \notin Range(s), Distinct(s) PROVE Distinct(t)
  <2>1. ASSUME NEW i \in DOMAIN s PROVE t[i + 1] # d
    BY <1>6, <1>10, <2>1 DEF Range
  <2> QED
    BY <1>3, <1>5, <1>6, <1>10, <2>1 DEF Distinct
<1> QED
  BY <1>3, <1>7, <1>8, <1>9, <1>10 DEF t

\* Files of a directory, listed once each.
LEMMA SortedFacts ==
  ASSUME setup \in Setups, NEW dir, NEW files, files \subseteq InDirectory(dir)
  PROVE  LET list == Sorted(dir, files) IN
         IsSeq(list) /\ Range(list) = files /\ Distinct(list)
<1> DEFINE names == {p.name : p \in files}
           list == Sorted(dir, files)
           N == Cardinality(names)
<1>1. \A p \in files : p = [dir |-> dir, name |-> p.name] /\ p.name \in Nat
  BY SetupAssumption DEF InDirectory
<1>2. IsFiniteSet(names) /\ names \subseteq Nat
  <2>1. IsFiniteSet(files)
    <3>1. IsFiniteSet(DOMAIN setup.files) /\ files \in SUBSET DOMAIN setup.files
      BY SetupAssumption DEF InDirectory
    <3> QED
      BY <3>1, FS_Subset
  <2>2. [p \in files |-> p.name] \in Surjection(files, names)
    BY DEF Surjection
  <2> QED
    BY <1>1, <2>1, <2>2, FS_Surjection
<1>3. list = [n \in 1 .. N |-> [dir |-> dir, name |-> Nth(names, n)]]
  BY DEF Sorted
<1>4. \A p \in files : p.name \in names
  OBVIOUS
<1>5. \A m \in names : [dir |-> dir, name |-> m] \in files
  BY <1>1
<1> HIDE DEF names, list
<1>6. /\ N \in Nat
      /\ \A n \in 1 .. N : Nth(names, n) \in names
                           /\ Cardinality({y \in names : y <= Nth(names, n)}) = n
      /\ \A x \in names : \E n \in 1 .. N : Nth(names, n) = x
  BY <1>2, Ranks
<1>7. DOMAIN list = 1 .. N /\ \A n \in 1 .. N : list[n] = [dir |-> dir, name |-> Nth(names, n)]
  BY <1>3
<1>8. Range(list) = files
  <2>1. ASSUME NEW n \in 1 .. N PROVE list[n] \in files
    BY <1>5, <1>6, <1>7
  <2>2. ASSUME NEW p \in files PROVE p \in Range(list)
    <3>1. PICK n \in 1 .. N : Nth(names, n) = p.name
      BY <1>4, <1>6
    <3>2. list[n] = p
      BY <1>1, <1>7, <3>1
    <3> QED
      BY <1>7, <3>2 DEF Range
  <2> QED
    BY <1>7, <2>1, <2>2 DEF Range
<1>9. IsSeq(list)
  <2>1. list \in [1 .. N -> Range(list)]
    BY <1>3, <1>7 DEF Range
  <2> QED
    BY <1>6, <2>1 DEF IsSeq
<1>10. Distinct(list)
  <2>1. ASSUME NEW i \in 1 .. N, NEW j \in 1 .. N, list[i] = list[j] PROVE i = j
    <3>1. Nth(names, i) = Nth(names, j)
      <4>1. list[i].name = list[j].name
        BY <2>1
      <4> QED
        BY <1>7, <4>1
    <3> QED
      BY <1>6, <3>1
  <2> QED
    BY <1>7, <2>1 DEF Distinct
<1> QED
  BY <1>8, <1>9, <1>10 DEF list

Contents(files) == {setup.files[p] : p \in files \cap DOMAIN setup.files}
DefaultFile(c) == [dir |-> c, name |-> setup.default[c]]

\* The contents of a directory, the default file first, or the file one directory up.
LEMMA DirectoryFacts ==
  ASSUME setup \in Setups, NEW c
  PROVE  LET files == DirectoryResponses(c)
             flat == {p \in InDirectory("flat") : p.name = setup.default[c]}
         IN
         /\ files \in Seq(Seq(Nat))
         /\ Range(files) = Contents(IF InDirectory(c) # {} THEN InDirectory(c) ELSE flat)
         /\ Distinct(setup.files) => Distinct(files)
         /\ DefaultFile(c) \in DOMAIN setup.files =>
              files # <<>> /\ files[1] = setup.files[DefaultFile(c)]
<1> DEFINE default == DefaultFile(c)
           others == Sorted(c, InDirectory(c) \ {default})
           paths == <<default>> \o others
           own == Loaded(paths)
           flat == {p \in InDirectory("flat") : p.name = setup.default[c]}
           up == [dir |-> "flat", name |-> setup.default[c]]
           only == Loaded(<<up>>)
           files == DirectoryResponses(c)
<1>1. files = IF own # <<>> THEN own ELSE only
  BY DEF DirectoryResponses, DefaultFile
<1>2. IsSeq(others) /\ Range(others) = InDirectory(c) \ {default} /\ Distinct(others)
  BY SortedFacts
<1>3. default \in DOMAIN setup.files <=> default \in InDirectory(c)
  BY DEF DefaultFile, InDirectory
<1>4. flat = {up} \cap DOMAIN setup.files
  BY SetupAssumption DEF InDirectory
<1>5. InDirectory(c) \subseteq DOMAIN setup.files
  BY DEF InDirectory
<1> HIDE DEF default, others, flat, up, files
<1>6. /\ IsSeq(paths) /\ paths # <<>> /\ paths[1] = default /\ Distinct(paths)
      /\ Range(paths) = {default} \cup InDirectory(c)
  BY <1>2, InFront
<1> HIDE DEF paths
<1>7. Range(paths) \cap DOMAIN setup.files = InDirectory(c)
  BY <1>3, <1>5, <1>6
<1>8. /\ own \in Seq(Seq(Nat)) /\ Range(own) = {setup.files[p] : p \in InDirectory(c)}
      /\ Distinct(setup.files) => Distinct(own)
      /\ default \in DOMAIN setup.files => own # <<>> /\ own[1] = setup.files[default]
  BY <1>6, <1>7, LoadedFacts
<1>9. IsSeq(<<up>>) /\ Range(<<up>>) = {up} /\ Distinct(<<up>>)
  BY DEF IsSeq, Range, Distinct
<1>10. /\ only \in Seq(Seq(Nat)) /\ Range(only) = {setup.files[p] : p \in flat}
       /\ Distinct(setup.files) => Distinct(only)
  BY <1>4, <1>9, LoadedFacts
<1>11. IsSeq(own)
  BY <1>8 DEF IsSeq, Range
<1>12. own = <<>> <=> InDirectory(c) = {}
  BY <1>8, <1>11, Elements
<1> HIDE DEF own, only
<1>13. Range(files) = Contents(IF InDirectory(c) # {} THEN InDirectory(c) ELSE flat)
  <2>1. InDirectory(c) \cap DOMAIN setup.files = InDirectory(c)
        /\ flat \cap DOMAIN setup.files = flat
    BY <1>4, <1>5
  <2>2. CASE own # <<>>
    BY <1>1, <1>8, <1>12, <2>1, <2>2 DEF Contents
  <2>3. CASE own = <<>>
    BY <1>1, <1>10, <1>12, <2>1, <2>3 DEF Contents
  <2> QED
    BY <2>2, <2>3
<1>14. files \in Seq(Seq(Nat)) /\ (Distinct(setup.files) => Distinct(files))
  BY <1>1, <1>8, <1>10
<1>15. default \in DOMAIN setup.files => files # <<>> /\ files[1] = setup.files[default]
  BY <1>1, <1>8
<1> QED
  BY <1>13, <1>14, <1>15 DEF files, flat, default

\* The contents that a command is answered with, whichever way they are given.
LEMMA ResponsesFacts ==
  ASSUME setup \in Setups, NEW c
  PROVE  LET files == Responses(c) IN
         /\ files \in Seq(Seq(Nat)) /\ Range(files) = TestContents(c)
         /\ Distinct(setup.files) /\ (c \in DOMAIN setup.map => Distinct(setup.map[c])) =>
              Distinct(files)
         /\ c \notin DOMAIN setup.map /\ DefaultFile(c) \in DOMAIN setup.files =>
              files # <<>> /\ files[1] = setup.files[DefaultFile(c)]
         /\ c = ShowMaps => files # <<>>
<1> DEFINE own == LoadResponses(c)
           files == Responses(c)
           given == {setup.files[p] : p \in TestFiles(c)}
<1>1. files = IF c = ShowMaps /\ own = <<>> THEN <<NoMaps>> ELSE own
  BY DEF Responses
<1>2. TestContents(c) = IF c = ShowMaps /\ given = {} THEN {NoMaps} ELSE given
  BY DEF TestContents
<1>3. /\ own \in Seq(Seq(Nat)) /\ Range(own) = given
      /\ Distinct(setup.files) /\ (c \in DOMAIN setup.map => Distinct(setup.map[c])) =>
           Distinct(own)
      /\ c \notin DOMAIN setup.map /\ DefaultFile(c) \in DOMAIN setup.files =>
           own # <<>> /\ own[1] = setup.files[DefaultFile(c)]
  <2>1. CASE c \in DOMAIN setup.map
    <3>1. own = Loaded(setup.map[c]) /\ IsSeq(setup.map[c])
      BY <2>1, SetupAssumption DEF LoadResponses, IsSeq
    <3>2. given = {setup.files[p] : p \in Range(setup.map[c]) \cap DOMAIN setup.files}
      BY <2>1 DEF TestFiles
    <3> HIDE DEF own, given
    <3> QED
      BY <2>1, <3>1, <3>2, LoadedFacts
  <2>2. CASE c \notin DOMAIN setup.map
    <3>1. own = DirectoryResponses(c)
      BY <2>2 DEF LoadResponses
    <3>2. TestFiles(c) = IF InDirectory(c) # {} THEN InDirectory(c)
                         ELSE {p \in InDirectory("flat") : p.name = setup.default[c]}
      BY <2>2 DEF TestFiles
    <3>3. TestFiles(c) \cap DOMAIN setup.files = TestFiles(c)
      BY <3>2 DEF InDirectory
    <3>4. given = Contents(TestFiles(c))
      BY <3>3 DEF Contents
    <3> HIDE DEF own, given
    <3> QED
      BY <2>2, <3>1, <3>2, <3>4, DirectoryFacts
  <2> QED
    BY <2>1, <2>2
<1> HIDE DEF own, given, files
<1>4. own = <<>> <=> given = {}
  <2>1. IsSeq(own)
    BY <1>3 DEF IsSeq, Range
  <2> QED
    BY <1>3, <2>1, Elements
<1>5. CASE c = ShowMaps /\ own = <<>>
  <2>1. NoMaps \in Seq(Nat)
    BY MockAssumption
  <2>2. /\ files = <<NoMaps>> /\ files \in Seq(Seq(Nat)) /\ Range(files) = {NoMaps}
        /\ Distinct(files) /\ files # <<>>
    BY <1>1, <1>5, <2>1 DEF Range, Distinct
  <2> QED
    BY <1>2, <1>3, <1>4, <1>5, <2>2 DEF files
<1>6. CASE ~(c = ShowMaps /\ own = <<>>)
  BY <1>1, <1>2, <1>3, <1>4, <1>6 DEF files
<1> QED
  BY <1>5, <1>6

LEMMA Wrap ==
  ASSUME NEW i \in Nat, NEW n \in Nat \ {0}, i < n
  PROVE  (i + 1) % n = IF i + 1 = n THEN 0 ELSE i + 1
<1>1. CASE i + 1 = n
  BY <1>1
<1>2. CASE i + 1 < n
  BY <1>2
<1> QED
  BY <1>1, <1>2
-----------------------------------------------------------------------------
(* The replies.                                                            *)

Kinds == {"None", "Ok", "ConnectionRefused", "TimedOut", "InvalidInput", "BrokenPipe",
          "InvalidData", "ConnectionReset"}

ConnType ==
  [helper : {"None", "Connecting", "Connected", "Refused"},
   client : {"Open", "Closed"}, server : ServerStates,
   request : Seq(Commands), pending : Seq(Nat), wire : Seq(Nat)]

QueryType ==
  [step : {"Idle", "Connect", "Send", "Length", "Data"}, command : Commands,
   conn : Conns \cup {0}, want : Nat, got : Seq(Nat), wait : Nat, spent : Nat,
   result : [kind : Kinds, text : Seq(Nat)]]

Typed ==
  /\ mode \in {"Down", "Normal", "Hang", "Unresponsive"}
  /\ conn \in [Conns -> ConnType] /\ query \in [Callers -> QueryType]
  /\ backlog \in Seq(Conns) /\ Len(backlog) <= BACKLOG

\* The server has loaded what its test data has for each command.
LoadedInv ==
  /\ setup \in Setups
  /\ command_responses = [c \in Known |-> Responses(c)]

\* The connections in the backlog are queued once each, and one that a helper still
\* waits for is not there.
BacklogInv ==
  /\ Distinct(backlog)
  /\ \A i \in DOMAIN backlog : conn[backlog[i]].server = "Queued"
  /\ \A k \in Conns : conn[k].helper = "Connecting" => conn[k].server = "Closed"

\* No two queries have the same connection.
OwnInv ==
  /\ \A c \in Callers : query[c].step = "Idle" <=> query[c].conn = 0
  /\ \A c, d \in Callers : query[c].conn = query[d].conn /\ query[c].conn # 0 => c = d

Answers(command) ==
  IF command \in Known /\ TestContents(command) # {} THEN TestContents(command)
  ELSE TestContents(ShowMaps)

\* A whole reply, and a sequence that is the part of it after a number of its symbols.
Frame(content) == <<Len(content) + 1>> \o Append(content, NUL)
Fits(s, frame, n) == n + Len(s) <= Len(frame) /\ \A i \in 1 .. Len(s) : s[i] = frame[n + i]

\* What is on the wire and what is still to be sent continue a reply.
Carries(own, frame, n) ==
  Fits(own.wire, frame, n) /\ Fits(own.pending, frame, n + Len(own.wire))

Unused(own) == own.request = <<>> /\ own.pending = <<>> /\ own.wire = <<>>

\* A query and its connection: nobody else's request or reply is on it, and what has been
\* received and what is yet to come is a part of one of the replies to the command.
QueryOK(q, own, answers) ==
  /\ q.step = "Connect" =>
       /\ own.helper \in {"Connecting", "Connected", "Refused"} /\ Unused(own)
       /\ own.helper = "Connected" => own.client = "Open"
       /\ own.server \in {"Queued", "Reading", "Closed"}
  /\ q.step \in {"Send", "Length", "Data"} => own.client = "Open" /\ own.helper = "None"
  /\ q.step = "Send" => Unused(own) /\ own.server \in {"Queued", "Reading", "Closed"}
  /\ q.step = "Length" =>
       /\ own.request \in {<<>>, <<q.command>>}
       /\ own.server \in {"Queued", "Reading"} => own.wire = <<>> /\ own.pending = <<>>
       /\ \E content \in answers : Carries(own, Frame(content), 0)
  /\ q.step = "Data" =>
       /\ own.server \notin {"Queued", "Reading"}
       /\ Len(q.got) < q.want
       /\ q.want <= MAX_REPLY_LEN
       /\ \E content \in answers :
            /\ Carries(own, Frame(content), 1 + Len(q.got))
            /\ Fits(q.got, Frame(content), 1) /\ q.want = Len(content) + 1
  /\ q.step # "Data" => q.got = <<>> /\ q.want = 0
  /\ q.result.kind = "Ok" => \E content \in answers : IsTextOf(q.result.text, content)

QueryInv ==
  \A c \in Callers : QueryOK(query[c], conn[query[c].conn], Answers(query[c].command))

\* Where the rotation is: the first round is as long as what has been picked, and a later
\* one ends with the file before the next.
RotationOK(i, seen, files) ==
  LET n == Len(seen)
  IN  /\ n <= Len(files)
      /\ IF files = <<>> THEN i = 0 ELSE i < Len(files)
      /\ n < Len(files) => i = n /\ \A j \in 1 .. n : seen[j] = files[j]
      /\ n = Len(files) =>
           \A j \in 1 .. n : seen[j] = files[IF i + j <= n THEN i + j ELSE i + j - n]

RotationInv ==
  /\ indices \in [Known -> Nat] /\ picks \in [Known -> Seq(Seq(Nat))]
  /\ \A c \in Known : RotationOK(indices[c], picks[c], command_responses[c])

ReplyInv == Typed /\ LoadedInv /\ BacklogInv /\ OwnInv /\ QueryInv

FullInv == ReplyInv /\ RotationInv
-----------------------------------------------------------------------------
LEMMA LeastNumber ==
  ASSUME NEW S, S \subseteq Nat, S # {}
  PROVE  Min(S) \in S /\ \A y \in S : Min(S) <= y
<1> DEFINE R == {p \in Nat \X Nat : p[1] < p[2]}
<1>1. IsWellFoundedOn(R, Nat)
  BY NatLessThanWellFounded DEF OpToRel
<1>2. PICK x \in S : \A y \in S : ~ (<<y, x>> \in R)
  BY <1>1, WFMin
<1>3. ASSUME NEW y \in S PROVE x <= y
  <2>1. <<y, x>> \notin R /\ x \in Nat /\ y \in Nat
    BY <1>2, <1>3
  <2>2. ~ (y < x)
    BY <2>1
  <2> QED
    BY <2>1, <2>2
<1> QED
  BY <1>3 DEF Min

LEMMA FrameFacts ==
  ASSUME NEW content, content \in Seq(Nat)
  PROVE  /\ Frame(content) \in Seq(Nat) /\ Len(content) \in Nat
         /\ Len(Frame(content)) = Len(content) + 2
         /\ Frame(content)[1] = Len(content) + 1
         /\ \A i \in 1 .. Len(content) : Frame(content)[i + 1] = content[i]
         /\ Frame(content)[Len(content) + 2] = NUL
<1> DEFINE reply == Append(content, NUL)
<1>1. /\ reply \in Seq(Nat) /\ Len(content) \in Nat /\ Len(reply) = Len(content) + 1
      /\ \A i \in 1 .. Len(content) : reply[i] = content[i]
      /\ reply[Len(content) + 1] = NUL
  BY DEF NUL
<1> HIDE DEF reply
<1>2. /\ Frame(content) \in Seq(Nat) /\ Len(Frame(content)) = Len(reply) + 1
      /\ Frame(content)[1] = Len(content) + 1
      /\ \A i \in 1 .. Len(reply) : Frame(content)[i + 1] = reply[i]
  BY <1>1 DEF Frame, reply
<1>3. \A i \in 1 .. Len(content) : i \in 1 .. Len(reply)
  BY <1>1
<1>4. Len(content) + 1 \in 1 .. Len(reply) /\ (Len(content) + 1) + 1 = Len(content) + 2
  BY <1>1
<1> QED
  BY <1>1, <1>2, <1>3, <1>4

LEMMA NothingFits ==
  ASSUME NEW frame \in Seq(Nat), NEW n \in Nat, n <= Len(frame)
  PROVE  Fits(<<>>, frame, n)
BY DEF Fits

\* The first symbol of what fits is the next of the frame, and the rest fits behind it.
LEMMA RestFits ==
  ASSUME NEW frame \in Seq(Nat), NEW n \in Nat, NEW s \in Seq(Nat), s # <<>>, Fits(s, frame, n)
  PROVE  /\ Head(s) = frame[n + 1] /\ n + 1 <= Len(frame)
         /\ Tail(s) \in Seq(Nat) /\ Len(Tail(s)) + 1 = Len(s)
         /\ Fits(Tail(s), frame, n + 1)
<1>1. /\ Tail(s) \in Seq(Nat) /\ Len(s) \in Nat /\ Len(s) >= 1 /\ Len(Tail(s)) = Len(s) - 1
      /\ Head(s) = s[1] /\ \A i \in 1 .. Len(Tail(s)) : Tail(s)[i] = s[i + 1]
      /\ Len(frame) \in Nat
  OBVIOUS
<1>2. n + Len(s) <= Len(frame) /\ \A i \in 1 .. Len(s) : s[i] = frame[n + i]
  BY DEF Fits
<1>3. /\ 1 \in 1 .. Len(s)
      /\ \A i \in 1 .. Len(Tail(s)) : i + 1 \in 1 .. Len(s) /\ n + (i + 1) = (n + 1) + i
  BY <1>1
<1> QED
  BY <1>1, <1>2, <1>3 DEF Fits

\* One symbol more of the frame.
LEMMA MoreFits ==
  ASSUME NEW frame \in Seq(Nat), NEW n \in Nat, NEW s \in Seq(Nat), Fits(s, frame, n),
         n + Len(s) + 1 <= Len(frame), NEW e \in Nat, e = frame[n + Len(s) + 1]
  PROVE  /\ Append(s, e) \in Seq(Nat) /\ Len(Append(s, e)) = Len(s) + 1
         /\ Fits(Append(s, e), frame, n)
<1>1. /\ Append(s, e) \in Seq(Nat) /\ Len(s) \in Nat /\ Len(Append(s, e)) = Len(s) + 1
      /\ \A i \in 1 .. Len(s) : Append(s, e)[i] = s[i]
      /\ Append(s, e)[Len(s) + 1] = e
  OBVIOUS
<1>2. \A i \in 1 .. Len(s) : s[i] = frame[n + i]
  BY DEF Fits
<1>3. \A i \in 1 .. (Len(s) + 1) : i \in 1 .. Len(s) \/ i = Len(s) + 1
  BY <1>1
<1>4. n + (Len(s) + 1) = n + Len(s) + 1
  BY <1>1
<1>5. \A i \in 1 .. (Len(s) + 1) : Append(s, e)[i] = frame[n + i]
  BY <1>1, <1>2, <1>3, <1>4
<1> QED
  BY <1>1, <1>4, <1>5 DEF Fits

\* What the server sends of a content fits into its frame.
LEMMA SentFits ==
  ASSUME NEW content, content \in Seq(Nat)
  PROVE  Sent(content) \in Seq(Nat) /\ Fits(Sent(content), Frame(content), 0)
<1> DEFINE reply == Append(content, NUL)
           parts == IF mode = "Hang" THEN Min({HANG_PARTS, Len(reply)}) ELSE Len(reply)
           part == SubSeq(reply, 1, parts)
<1>1. reply \in Seq(Nat) /\ Len(reply) \in Nat /\ Len(content) \in Nat
      /\ Len(reply) = Len(content) + 1
  BY DEF NUL
<1>2. parts \in 0 .. Len(reply)
  <2>1. /\ {HANG_PARTS, Len(reply)} \subseteq Nat /\ {HANG_PARTS, Len(reply)} # {}
    BY <1>1, MockAssumption
  <2>2. Min({HANG_PARTS, Len(reply)}) \in {HANG_PARTS, Len(reply)}
        /\ Min({HANG_PARTS, Len(reply)}) <= Len(reply)
    BY <2>1, LeastNumber
  <2> QED
    BY <1>1, <2>1, <2>2
<1>3. Sent(content) = <<Len(reply)>> \o part
  BY DEF Sent
<1> HIDE DEF parts, reply
<1>4. part \in Seq(Nat) /\ Len(part) = parts /\ \A i \in 1 .. parts : part[i] = reply[i]
  BY <1>1, <1>2
<1> HIDE DEF part
<1>5. /\ Sent(content) \in Seq(Nat) /\ Len(Sent(content)) = parts + 1
      /\ Sent(content)[1] = Len(content) + 1
      /\ \A i \in 1 .. parts : Sent(content)[i + 1] = reply[i]
  BY <1>1, <1>2, <1>3, <1>4
<1>6. /\ Frame(content) \in Seq(Nat) /\ Len(Frame(content)) = Len(reply) + 1
      /\ Frame(content)[1] = Len(content) + 1
      /\ \A i \in 1 .. Len(reply) : Frame(content)[i + 1] = reply[i]
  BY <1>1 DEF Frame, reply
<1>7. \A i \in 1 .. (parts + 1) : i = 1 \/ (i - 1 \in 1 .. parts /\ i - 1 \in 1 .. Len(reply)
                                              /\ i = (i - 1) + 1)
  BY <1>1, <1>2
<1>8. \A i \in 1 .. (parts + 1) : Sent(content)[i] = Frame(content)[i]
  BY <1>5, <1>6, <1>7
<1> QED
  BY <1>1, <1>2, <1>5, <1>6, <1>8 DEF Fits

\* All of a reply is decoded to the text of its content.
LEMMA DecodedIsText ==
  ASSUME NEW content, content \in Seq(Nat), NEW got, got \in Seq(Nat),
         Len(got) = Len(content) + 1, Fits(got, Frame(content), 1)
  PROVE  Decoded(got) \in Seq(Nat) /\ IsTextOf(Decoded(got), content)
<1> DEFINE L == Len(content)
           last == [got EXCEPT ![Len(got)] = NUL]
           I == {i \in 1 .. Len(last) : last[i] = NUL}
           text == Decoded(got)
<1>1. L \in Nat /\ DOMAIN got = 1 .. (L + 1) /\ NUL \in Nat
  BY DEF NUL
<1>2. got[L + 1] = NUL /\ \A i \in 1 .. L : got[i] = content[i]
  <2>1. \A i \in 1 .. (L + 1) : got[i] = Frame(content)[1 + i]
    BY DEF Fits
  <2>2. L + 1 \in 1 .. (L + 1) /\ 1 + (L + 1) = L + 2
    BY <1>1
  <2>3. \A i \in 1 .. L : i \in 1 .. (L + 1) /\ 1 + i = i + 1
    BY <1>1
  <2> QED
    BY <2>1, <2>2, <2>3, FrameFacts
<1>3. last = got
  BY <1>1, <1>2
<1>4. Decoded(got) = SubSeq(last, 1, SelectInSeq(last, LAMBDA b : b = NUL) - 1)
  BY DEF Decoded
<1> HIDE DEF last
<1>5. I \subseteq Nat /\ L + 1 \in I
  BY <1>1, <1>2, <1>3
<1>6. SelectInSeq(last, LAMBDA b : b = NUL) = Min(I)
  BY <1>5 DEF SelectInSeq
<1>7. Min(I) \in I /\ \A y \in I : Min(I) <= y
  BY <1>5, LeastNumber
<1>8. PICK m \in Nat : m = Min(I)
  BY <1>5, <1>7
<1>9. /\ m \in 1 .. (L + 1) /\ got[m] = NUL
      /\ \A i \in 1 .. (m - 1) : got[i] # NUL
  <2>1. m \in 1 .. (L + 1) /\ got[m] = NUL
    BY <1>1, <1>3, <1>7, <1>8
  <2>2. ASSUME NEW i \in 1 .. (m - 1), got[i] = NUL PROVE FALSE
    <3>1. i \in I
      BY <1>1, <1>3, <2>1, <2>2
    <3>2. m <= i
      BY <1>7, <1>8, <3>1
    <3> QED
      BY <2>1, <3>2
  <2> QED
    BY <2>1, <2>2
<1>10. text = SubSeq(got, 1, m - 1)
  BY <1>3, <1>4, <1>6, <1>8
<1> HIDE DEF text, I
<1>11. /\ text \in Seq(Nat) /\ Len(text) = m - 1 /\ DOMAIN text = 1 .. (m - 1)
       /\ \A i \in 1 .. (m - 1) : text[i] = got[i] /\ text[i] = content[i]
  BY <1>1, <1>2, <1>9, <1>10
<1>12. NUL \notin Range(text)
  BY <1>9, <1>11 DEF Range
<1>13. IsPrefix(text, content)
  <2>1. SubSeq(text, 1, m - 1) = SubSeq(content, 1, m - 1)
    BY <1>1, <1>9, <1>11
  <2> QED
    BY <1>9, <1>11, <2>1 DEF IsPrefix
<1>14. text = content \/ content[Len(text) + 1] = NUL
  <2>1. CASE m = L + 1
    <3>1. Len(text) = Len(content) /\ \A i \in 1 .. Len(text) : text[i] = content[i]
      BY <1>1, <1>11, <2>1
    <3> QED
      BY <1>11, <3>1
  <2>2. CASE m # L + 1
    BY <1>1, <1>2, <1>9, <1>11, <2>2
  <2> QED
    BY <2>1, <2>2
<1> QED
  BY <1>11, <1>12, <1>13, <1>14 DEF IsTextOf, text
-----------------------------------------------------------------------------
(* The steps.                                                              *)

LEMMA LoadedContents ==
  ASSUME LoadedInv
  PROVE  /\ \A c \in Known : /\ command_responses[c] \in Seq(Seq(Nat))
                             /\ Range(command_responses[c]) = TestContents(c)
         /\ command_responses[ShowMaps] # <<>>
<1>1. setup \in Setups /\ \A c \in Known : command_responses[c] = Responses(c)
  BY DEF LoadedInv
<1>2. ShowMaps \in Known
  BY MockAssumption
<1>3. \A c \in Known : Responses(c) \in Seq(Seq(Nat)) /\ Range(Responses(c)) = TestContents(c)
  BY <1>1, ResponsesFacts
<1>4. Responses(ShowMaps) # <<>>
  BY <1>1, ResponsesFacts
<1> QED
  BY <1>1, <1>2, <1>3, <1>4

\* The answers to a command are the contents of the files it is answered with.
LEMMA AnswersFacts ==
  ASSUME LoadedInv
  PROVE  /\ \A x : Answers(x) \subseteq Seq(Nat) /\ Answers(x) # {}
         /\ \A x : LET as == AnsweredAs(x) IN
              /\ as \in Known /\ command_responses[as] # <<>>
              /\ command_responses[as] \in Seq(Seq(Nat))
              /\ Range(command_responses[as]) = Answers(x)
<1>1. ShowMaps \in Known
  BY MockAssumption
<1>2. \A c \in Known : IsSeq(command_responses[c])
  <2> SUFFICES ASSUME NEW c \in Known PROVE IsSeq(command_responses[c])
    OBVIOUS
  <2>1. command_responses[c] \in Seq(Seq(Nat))
    BY LoadedContents
  <2> QED
    BY <2>1 DEF IsSeq, Range
<1>3. \A c \in Known : command_responses[c] = <<>> <=> TestContents(c) = {}
  BY <1>2, Elements, LoadedContents
<1>4. \A x : LET as == AnsweredAs(x) IN
              /\ as \in Known /\ command_responses[as] # <<>>
              /\ command_responses[as] \in Seq(Seq(Nat))
              /\ Range(command_responses[as]) = Answers(x)
  BY <1>1, <1>3, LoadedContents DEF AnsweredAs, Answers
<1>5. \A c \in Known : TestContents(c) \subseteq Seq(Nat)
  BY LoadedContents DEF Range
<1>6. \A x : Answers(x) \subseteq Seq(Nat) /\ Answers(x) # {}
  BY <1>1, <1>3, <1>5, LoadedContents DEF Answers
<1> QED
  BY <1>4, <1>6

LEMMA QueryPrime ==
  ASSUME UNCHANGED setup,
         \A c \in Callers :
           QueryOK(query'[c], conn'[query'[c].conn], Answers(query'[c].command))
  PROVE  QueryInv'
<1>1. \A c : Answers(query[c].command)' = Answers(query'[c].command)
  BY DEF Answers, TestContents, TestFiles, InDirectory
<1> QED
  BY <1>1 DEF QueryInv, QueryOK

LEMMA LoadedPrime ==
  ASSUME UNCHANGED dataVars, LoadedInv
  PROVE  LoadedInv'
<1>1. setup' = setup /\ command_responses' = command_responses
  BY DEF dataVars
<1>2. \A c : Responses(c)' = Responses(c)
  BY <1>1 DEF Responses, LoadResponses, DirectoryResponses, Loaded, Sorted, InDirectory
<1> QED
  BY <1>1, <1>2 DEF LoadedInv
-----------------------------------------------------------------------------
(* The rotation.                                                           *)

LEMMA TailFacts ==
  ASSUME NEW S, NEW s \in Seq(S), NEW n \in Nat, Len(s) = n + 1
  PROVE  /\ Tail(s) \in Seq(S) /\ Len(Tail(s)) = n
         /\ \A j \in 1 .. n : Tail(s)[j] = s[j + 1]
<1>1. s # <<>>
  OBVIOUS
<1>2. Tail(s) \in Seq(S) /\ Len(Tail(s)) = n
  BY <1>1
<1>3. \A j \in 1 .. n : Tail(s)[j] = s[j + 1]
  BY <1>1, <1>2
<1> QED
  BY <1>2, <1>3

\* One more element, and then one less.
LEMMA MoreFacts ==
  ASSUME NEW S, NEW s \in Seq(S), NEW e \in S, NEW n \in Nat, n = Len(s)
  PROVE  LET more == Append(s, e) IN
         /\ more \in Seq(S) /\ Len(more) = n + 1
         /\ \A j \in 1 .. n : more[j] = s[j]
         /\ more[n + 1] = e
OBVIOUS

LEMMA ShiftFacts ==
  ASSUME NEW S, NEW s \in Seq(S), NEW e \in S, NEW n \in Nat \ {0}, n = Len(s)
  PROVE  LET next == Tail(Append(s, e)) IN
         /\ next \in Seq(S) /\ Len(next) = n
         /\ \A j \in 1 .. n : j # n => next[j] = s[j + 1]
         /\ next[n] = e
<1>1. PICK more : more = Append(s, e)
  OBVIOUS
<1>2. /\ more \in Seq(S) /\ Len(more) = n + 1
      /\ \A j \in 1 .. n : more[j] = s[j]
      /\ more[n + 1] = e
  BY <1>1, MoreFacts
<1>3. /\ Tail(more) \in Seq(S) /\ Len(Tail(more)) = n
      /\ \A j \in 1 .. n : Tail(more)[j] = more[j + 1]
  BY <1>2, TailFacts
<1>4. \A j \in 1 .. n : j # n => j + 1 \in 1 .. n
  OBVIOUS
<1>5. n \in 1 .. n
  OBVIOUS
<1>6. \A j \in 1 .. n : j # n => Tail(more)[j] = s[j + 1]
  BY <1>2, <1>3, <1>4
<1>7. Tail(more)[n] = e
  BY <1>2, <1>3, <1>5
<1> QED
  BY <1>1, <1>3, <1>6, <1>7

\* A pick of the first round takes the next file.
LEMMA FirstRound ==
  ASSUME NEW S, NEW files \in Seq(S), NEW seen \in Seq(S), NEW i \in Nat,
         RotationOK(i, seen, files), Len(seen) < Len(files),
         NEW k, k = IF i + 1 = Len(files) THEN 0 ELSE i + 1,
         files[i + 1] \in S
  PROVE  RotationOK(k, Append(seen, files[i + 1]), files)
<1>1. PICK L \in Nat : L = Len(files)
  OBVIOUS
<1>2. PICK n \in Nat : n = Len(seen)
  OBVIOUS
<1>3. n < L /\ i = n /\ \A j \in 1 .. n : seen[j] = files[j]
  BY <1>1, <1>2 DEF RotationOK
<1>4. PICK more : more = Append(seen, files[i + 1])
  OBVIOUS
<1>5. /\ Len(more) = n + 1 /\ more[n + 1] = files[n + 1]
      /\ \A j \in 1 .. n : more[j] = seen[j]
  BY <1>2, <1>3, <1>4, MoreFacts
<1>6. PICK m \in Nat : m = n + 1
  OBVIOUS
<1>7. \A j \in 1 .. m : j \in 1 .. n \/ j = n + 1
  BY <1>6
<1>8. \A j \in 1 .. m : more[j] = files[j]
  BY <1>3, <1>5, <1>7
<1>9. m <= L /\ k < L /\ (m < L => k = m) /\ (m = L => k = 0)
  BY <1>1, <1>3, <1>6
<1>10. \A j \in 1 .. m : 0 + j = j /\ j <= m
  OBVIOUS
<1>11. m = Len(more) /\ files # <<>>
  BY <1>1, <1>3, <1>5, <1>6
<1>12. m = L => \A j \in 1 .. m : more[j] = files[IF k + j <= m THEN k + j ELSE k + j - m]
  BY <1>8, <1>9, <1>10
<1>13. RotationOK(k, more, files)
  BY <1>1, <1>8, <1>9, <1>11, <1>12 DEF RotationOK
<1> QED
  BY <1>4, <1>13

\* A pick of a later round takes the file that was picked longest ago.
LEMMA LaterRound ==
  ASSUME NEW S, NEW files \in Seq(S), NEW seen \in Seq(S), NEW i \in Nat,
         RotationOK(i, seen, files), Len(seen) = Len(files), files # <<>>,
         NEW k, k = IF i + 1 = Len(files) THEN 0 ELSE i + 1,
         files[i + 1] \in S
  PROVE  RotationOK(k, Tail(Append(seen, files[i + 1])), files)
<1>1. PICK L \in Nat \ {0} : L = Len(files)
  BY EmptySeq
<1>2. i < L /\ \A j \in 1 .. L : seen[j] = files[IF i + j <= L THEN i + j ELSE i + j - L]
  BY <1>1 DEF RotationOK
<1>3. PICK next : next = Tail(Append(seen, files[i + 1]))
  OBVIOUS
<1>4. /\ Len(next) = L /\ next[L] = files[i + 1]
      /\ \A j \in 1 .. L : j # L => next[j] = seen[j + 1]
  BY <1>1, <1>3, ShiftFacts
<1>5. ASSUME NEW j \in 1 .. L, j # L
      PROVE  next[j] = files[IF i + (j + 1) <= L THEN i + (j + 1) ELSE i + (j + 1) - L]
  <2>1. PICK h \in 1 .. L : h = j + 1
    BY <1>5
  <2>2. next[j] = seen[h]
    BY <1>4, <1>5, <2>1
  <2> QED
    BY <1>2, <2>1, <2>2
<1>6. ASSUME NEW j \in 1 .. L
      PROVE  next[j] = files[IF k + j <= L THEN k + j ELSE k + j - L]
  <2>1. CASE j # L /\ i + 1 # L
    <3>1. k + j = i + (j + 1)
      BY <1>1, <2>1
    <3> QED
      BY <1>5, <2>1, <3>1
  <2>2. CASE j # L /\ i + 1 = L
    <3>1. k + j = j /\ j <= L
      BY <1>1, <2>2
    <3>2. ~(i + (j + 1) <= L) /\ i + (j + 1) - L = j
      BY <2>2
    <3>3. next[j] = files[j]
      BY <1>5, <2>2, <3>2
    <3> QED
      BY <3>1, <3>3
  <2>3. CASE j = L /\ i + 1 # L
    <3>1. ~(k + j <= L) /\ k + j - L = i + 1
      BY <1>1, <1>2, <2>3
    <3> QED
      BY <1>4, <2>3, <3>1
  <2>4. CASE j = L /\ i + 1 = L
    <3>1. k + j <= L /\ k + j = i + 1
      BY <1>1, <2>4
    <3> QED
      BY <1>4, <2>4, <3>1
  <2> QED
    BY <2>1, <2>2, <2>3, <2>4
<1>7. k < L
  BY <1>1, <1>2
<1>8. RotationOK(k, next, files)
  BY <1>1, <1>4, <1>6, <1>7 DEF RotationOK
<1> QED
  BY <1>3, <1>8

\* One pick: the next file, which the rotation then ends with.
LEMMA PickStep ==
  ASSUME NEW S, NEW files \in Seq(S), files # <<>>, NEW seen \in Seq(S), NEW i \in Nat,
         RotationOK(i, seen, files)
  PROVE  LET k == IF Len(files) = 1 THEN i ELSE (i + 1) % Len(files)
             content == IF Len(files) = 1 THEN files[1] ELSE files[i + 1]
             more == Append(seen, content)
             next == IF Len(more) > Len(files) THEN Tail(more) ELSE more
         IN  /\ content \in Range(files) /\ k \in Nat /\ next \in Seq(S)
             /\ RotationOK(k, next, files)
<1> DEFINE k == IF Len(files) = 1 THEN i ELSE (i + 1) % Len(files)
           content == IF Len(files) = 1 THEN files[1] ELSE files[i + 1]
           more == Append(seen, content)
           next == IF Len(more) > Len(files) THEN Tail(more) ELSE more
<1>1. PICK L \in Nat \ {0} : L = Len(files)
  BY EmptySeq
<1>2. PICK n \in Nat : n = Len(seen)
  OBVIOUS
<1>3. n <= L /\ i < L
  BY <1>1, <1>2 DEF RotationOK
<1>4. content = files[i + 1] /\ k = IF i + 1 = L THEN 0 ELSE i + 1
  <2>1. CASE L = 1
    BY <1>1, <1>3, <2>1
  <2>2. CASE L # 1
    BY <1>1, <1>3, <2>2, Wrap
  <2> QED
    BY <2>1, <2>2
<1> HIDE DEF k, content
<1>5. i + 1 \in DOMAIN files
  BY <1>1, <1>3
<1>6. content \in Range(files) /\ content \in S
  BY <1>4, <1>5 DEF Range
<1>7. k \in Nat
  BY <1>4
<1>8. Append(seen, content) \in Seq(S) /\ Len(Append(seen, content)) = n + 1
  BY <1>2, <1>6, MoreFacts
<1>9. ASSUME n < L PROVE next \in Seq(S) /\ RotationOK(k, next, files)
  <2>1. next = Append(seen, content)
    BY <1>1, <1>3, <1>8, <1>9
  <2>2. RotationOK(k, next, files)
    BY <1>1, <1>2, <1>4, <1>6, <1>9, <2>1, FirstRound
  <2> QED
    BY <1>8, <2>1, <2>2
<1>10. ASSUME n = L PROVE next \in Seq(S) /\ RotationOK(k, next, files)
  <2>1. next = Tail(Append(seen, content))
    BY <1>1, <1>8, <1>10
  <2>2. RotationOK(k, next, files)
    BY <1>1, <1>2, <1>4, <1>6, <1>10, <2>1, LaterRound
  <2>3. next \in Seq(S)
    BY <1>8, <2>1, TailFacts
  <2> QED
    BY <2>2, <2>3
<1>11. content \in Range(files) /\ k \in Nat /\ next \in Seq(S) /\ RotationOK(k, next, files)
  BY <1>3, <1>6, <1>7, <1>9, <1>10
<1> QED
  BY <1>11 DEF k, content

LEMMA NothingPicked ==
  ASSUME NEW S, NEW files \in Seq(S)
  PROVE  RotationOK(0, <<>>, files)
<1>1. Len(files) \in Nat /\ (files # <<>> => Len(files) # 0)
  BY EmptySeq
<1>2. Len(<<>>) = 0 /\ \A j \in 1 .. 0 : FALSE
  OBVIOUS
<1> QED
  BY <1>1, <1>2 DEF RotationOK

LEMMA RotationUnchanged ==
  ASSUME RotationInv, UNCHANGED <<indices, picks, command_responses>>
  PROVE  RotationInv'
BY DEF RotationInv, RotationOK

LEMMA LookupRotates ==
  ASSUME LoadedInv, RotationInv, NEW k \in Conns, Lookup(k)
  PROVE  RotationInv'
<1>1. PICK c \in Commands :
        LET as == AnsweredAs(c)
            files == command_responses[as]
            next == next_index(as, Len(files))
            content == IF Len(files) = 1 THEN files[1] ELSE files[next.index + 1]
        IN  /\ indices' = IF Len(files) = 1 THEN indices ELSE next.indices
            /\ picks' = Remember(as, content)
  BY DEF Lookup
<1>2. PICK as : as = AnsweredAs(c)
  OBVIOUS
<1>3. PICK files : files = command_responses[as]
  OBVIOUS
<1>4. as \in Known /\ files # <<>> /\ files \in Seq(Seq(Nat))
  BY <1>2, <1>3, AnswersFacts
<1>5. PICK i \in Nat : i = indices[as]
  BY <1>4 DEF RotationInv
<1>6. PICK seen \in Seq(Seq(Nat)) : seen = picks[as]
  BY <1>4 DEF RotationInv
<1>7. PICK content : content = IF Len(files) = 1 THEN files[1] ELSE files[i + 1]
  OBVIOUS
<1>8. PICK j : j = IF Len(files) = 1 THEN i ELSE (i + 1) % Len(files)
  OBVIOUS
<1>9. PICK next : next = IF Len(Append(seen, content)) > Len(files)
                         THEN Tail(Append(seen, content)) ELSE Append(seen, content)
  OBVIOUS
<1>10. DOMAIN indices = Known /\ DOMAIN picks = Known
  BY DEF RotationInv
<1>11. indices' = [indices EXCEPT ![as] = j]
  <2>1. CASE Len(files) = 1
    <3>1. indices' = indices /\ j = indices[as] /\ indices \in [Known -> Nat]
      BY <1>1, <1>2, <1>3, <1>5, <1>8, <2>1 DEF RotationInv
    <3> QED
      BY <1>4, <3>1
  <2>2. CASE Len(files) # 1
    <3>1. indices' = next_index(as, Len(files)).indices /\ j = (indices[as] + 1) % Len(files)
      BY <1>1, <1>2, <1>3, <1>5, <1>8, <2>2
    <3> QED
      BY <3>1 DEF next_index
  <2> QED
    BY <2>1, <2>2
<1>12. picks' = [picks EXCEPT ![as] = next]
  BY <1>1, <1>2, <1>3, <1>5, <1>6, <1>7, <1>9, <1>10 DEF next_index, Remember
<1>13. RotationOK(i, seen, files)
  BY <1>3, <1>4, <1>5, <1>6 DEF RotationInv
<1>14. j \in Nat /\ next \in Seq(Seq(Nat)) /\ RotationOK(j, next, files)
  <2>1. PICK S : S = Seq(Nat)
    OBVIOUS
  <2>2. files \in Seq(S) /\ seen \in Seq(S)
    BY <1>4, <2>1
  <2>3. j \in Nat /\ next \in Seq(S) /\ RotationOK(j, next, files)
    BY <1>4, <1>7, <1>8, <1>9, <1>13, <2>2, PickStep
  <2> QED
    BY <2>1, <2>3
<1>15. UNCHANGED command_responses
  BY DEF Lookup, dataVars
<1>16. indices' \in [Known -> Nat] /\ picks' \in [Known -> Seq(Seq(Nat))]
  BY <1>11, <1>12, <1>14 DEF RotationInv
<1>17. ASSUME NEW d \in Known PROVE RotationOK(indices'[d], picks'[d], command_responses'[d])
  <2>1. CASE d = as
    BY <1>3, <1>10, <1>11, <1>12, <1>14, <1>15, <2>1
  <2>2. CASE d # as
    BY <1>10, <1>11, <1>12, <1>15, <2>2 DEF RotationInv
  <2> QED
    BY <2>1, <2>2
<1> QED
  BY <1>16, <1>17 DEF RotationInv, RotationOK

LEMMA RotationInit ==
  ASSUME ServerInit
  PROVE  LoadedInv /\ RotationInv
<1>1. LoadedInv
  BY DEF ServerInit, LoadedInv
<1>2. \A c \in Known : command_responses[c] \in Seq(Seq(Nat))
  BY <1>1, LoadedContents
<1>3. \A c \in Known : RotationOK(0, <<>>, command_responses[c])
  BY <1>2, NothingPicked
<1>4. <<>> \in Seq(Seq(Nat))
  OBVIOUS
<1> QED
  BY <1>1, <1>3, <1>4 DEF ServerInit, RotationInv

\* Where the rotation is and what it has picked survives every step; a server that is
\* started again begins anew.
LEMMA RotationStep ==
  ASSUME LoadedInv, RotationInv, [ClientNext]_clientVars
  PROVE  LoadedInv' /\ RotationInv'
<1>1. CASE UNCHANGED <<indices, picks>> /\ UNCHANGED dataVars
  BY <1>1, LoadedPrime, RotationUnchanged DEF dataVars
<1>2. CASE Stop
  <2>1. \A c \in Known : RotationOK(0, <<>>, command_responses[c])
    BY LoadedContents, NothingPicked
  <2>2. UNCHANGED command_responses /\ <<>> \in Seq(Seq(Nat))
    BY <1>2 DEF Stop, dataVars
  <2>3. RotationInv'
    BY <1>2, <2>1, <2>2 DEF Stop, RotationInv, RotationOK
  <2> QED
    BY <1>2, <2>3, LoadedPrime DEF Stop
<1>3. CASE \E k \in Conns : Lookup(k)
  BY <1>3, LookupRotates, LoadedPrime DEF Lookup
<1>4. ASSUME NEW c \in Callers, Call(c) \/ \E command \in Commands : StartQuery(c, command)
      PROVE  UNCHANGED <<indices, picks>> /\ UNCHANGED dataVars
  BY <1>4 DEF Call, StartQuery, ReceiveConnection, ConnectFails, send_command_stream,
              ReceiveLength, ReceiveData, FinishDecoded, ReceiveFails, Finish, serverVars
<1>5. ASSUME (\E k \in Conns : Help(k)) \/ Tick \/ UNCHANGED clientVars
      PROVE  UNCHANGED <<indices, picks>> /\ UNCHANGED dataVars
  BY <1>5 DEF Help, HelperConnects, HelperRefused, Tick, clientVars, serverVars
<1>6. ASSUME ServerStep
      PROVE  Stop \/ (\E k \in Conns : Lookup(k))
               \/ (UNCHANGED <<indices, picks>> /\ UNCHANGED dataVars)
  BY <1>6 DEF ServerStep, Serve, Accept, handle_connection, RefuseCommand, SendPart,
              EndConnection, StartServer, serverVars
<1> QED
  BY <1>1, <1>2, <1>3, <1>4, <1>5, <1>6 DEF ClientNext

\* Distinct elements are as many as their places.
LEMMA DistinctSize ==
  ASSUME NEW S, NEW s \in Seq(S), Distinct(s)
  PROVE  Cardinality(Range(s)) = Len(s)
<1>1. PICK n \in Nat : n = Len(s) /\ DOMAIN s = 1 .. n
  OBVIOUS
<1>2. s \in Bijection(1 .. n, Range(s))
  <2>1. s \in [1 .. n -> Range(s)]
    BY <1>1 DEF Range
  <2>2. \A j, h \in 1 .. n : s[j] = s[h] => j = h
    BY <1>1 DEF Distinct
  <2>3. \A x \in Range(s) : \E j \in 1 .. n : s[j] = x
    BY <1>1 DEF Range
  <2> QED
    BY <2>1, <2>2, <2>3 DEF Bijection, Injection, Surjection, IsInjective
<1>3. IsFiniteSet(1 .. n) /\ Cardinality(1 .. n) = n
  <2>1. 1 \in Int /\ n \in Int /\ (n - 1) + 1 = n /\ (1 > n => n = 0)
    OBVIOUS
  <2> QED
    BY <2>1, FS_Interval
<1>4. Cardinality(1 .. n) = Cardinality(Range(s))
  BY <1>2, <1>3, FS_Bijection DEF ExistsBijection
<1> QED
  BY <1>1, <1>3, <1>4

\* A round of the rotation picks every place of the list once.
LEMMA RoundIsDistinct ==
  ASSUME NEW S, NEW files \in Seq(S), NEW seen \in Seq(S), NEW i \in Nat,
         RotationOK(i, seen, files), Distinct(files)
  PROVE  Cardinality(Range(seen)) = Len(seen) /\ Range(seen) \subseteq Range(files)
<1>1. PICK L \in Nat : L = Len(files)
  OBVIOUS
<1>2. PICK n \in Nat : n = Len(seen)
  OBVIOUS
<1>3. n <= L /\ DOMAIN files = 1 .. L /\ DOMAIN seen = 1 .. n
  BY <1>1, <1>2 DEF RotationOK
<1>4. PICK place \in [1 .. n -> 1 .. L] :
        /\ \A j \in 1 .. n : seen[j] = files[place[j]]
        /\ \A j, h \in 1 .. n : place[j] = place[h] => j = h
  <2>1. CASE n < L
    <3> DEFINE place == [j \in 1 .. n |-> j]
    <3>1. \A j \in 1 .. n : seen[j] = files[j]
      BY <1>1, <1>2, <2>1 DEF RotationOK
    <3>2. \A j \in 1 .. n : j \in 1 .. L
      BY <1>3
    <3>3. place \in [1 .. n -> 1 .. L]
      BY <3>2
    <3> QED
      BY <3>1, <3>3
  <2>2. CASE n = L
    <3> DEFINE Place(j) == IF i + j <= L THEN i + j ELSE i + j - L
               place == [j \in 1 .. n |-> Place(j)]
    <3>1. \A j \in 1 .. n : seen[j] = files[Place(j)]
      BY <1>1, <1>2, <2>2 DEF RotationOK
    <3>2. ASSUME NEW j \in 1 .. n PROVE Place(j) \in 1 .. L
      <4>1. files # <<>> /\ i < L
        <5>1. L # 0
          BY <2>2
        <5>2. files # <<>>
          BY <1>1, <5>1
        <5> QED
          BY <1>1, <5>2 DEF RotationOK
      <4> QED
        BY <2>2, <4>1
    <3>3. \A j, h \in 1 .. n : Place(j) = Place(h) => j = h
      BY <2>2
    <3> HIDE DEF Place
    <3>4. place \in [1 .. n -> 1 .. L] /\ \A j \in 1 .. n : place[j] = Place(j)
      BY <3>2
    <3> QED
      BY <3>1, <3>3, <3>4
  <2>3. n < L \/ n = L
    BY <1>3
  <2> QED
    BY <2>1, <2>2, <2>3
<1>5. \A j \in 1 .. n : seen[j] \in Range(files)
  BY <1>3, <1>4 DEF Range
<1>6. \A j, h \in 1 .. n : seen[j] = seen[h] => j = h
  BY <1>3, <1>4 DEF Distinct
<1>7. Distinct(seen)
  BY <1>3, <1>6 DEF Distinct
<1>8. Cardinality(Range(seen)) = n
  BY <1>2, <1>7, DistinctSize
<1> QED
  BY <1>2, <1>3, <1>5, <1>8 DEF Range

-----------------------------------------------------------------------------
(* The queries.                                                            *)

\* A query that is not under way has no connection that could matter.
LEMMA IdleOK ==
  ASSUME NEW q, NEW own, NEW other, NEW answers, q.step = "Idle", QueryOK(q, own, answers)
  PROVE  QueryOK(q, other, answers)
BY DEF QueryOK

\* One connection changes, and its query, if there is one, still fits it.
LEMMA ConnectionStep ==
  ASSUME ReplyInv, NEW k \in Conns, NEW new \in ConnType,
         conn' = [conn EXCEPT ![k] = new], UNCHANGED <<mode, dataVars, backlog, query>>,
         new.server = conn[k].server \/ conn[k].server # "Queued",
         new.helper = "Connecting" => new.server = "Closed",
         \A c \in Callers : query[c].conn = k =>
           QueryOK(query[c], new, Answers(query[c].command))
  PROVE  ReplyInv'
<1>1. /\ DOMAIN conn' = Conns /\ conn'[k] = new
      /\ \A j \in Conns : j # k => conn'[j] = conn[j]
  BY DEF ReplyInv, Typed
<1>2. Typed'
  BY DEF ReplyInv, Typed
<1>3. LoadedInv'
  BY LoadedPrime DEF ReplyInv
<1>4. BacklogInv'
  <2>1. \A i \in DOMAIN backlog : conn'[backlog[i]].server = "Queued"
    <3> SUFFICES ASSUME NEW i \in DOMAIN backlog PROVE conn'[backlog[i]].server = "Queued"
      OBVIOUS
    <3>1. backlog[i] \in Conns /\ conn[backlog[i]].server = "Queued"
      BY DEF ReplyInv, Typed, BacklogInv
    <3> QED
      BY <1>1, <3>1
  <2>2. \A j \in Conns : conn'[j].helper = "Connecting" => conn'[j].server = "Closed"
    BY <1>1 DEF ReplyInv, BacklogInv
  <2> QED
    BY <2>1, <2>2 DEF ReplyInv, BacklogInv, Distinct
<1>5. OwnInv'
  BY DEF ReplyInv, OwnInv
<1>6. ASSUME NEW c \in Callers
      PROVE  QueryOK(query[c], conn'[query[c].conn], Answers(query[c].command))
  <2>1. QueryOK(query[c], conn[query[c].conn], Answers(query[c].command))
    BY DEF ReplyInv, QueryInv
  <2>2. query[c].conn \in Conns \cup {0} /\ (query[c].conn = 0 => query[c].step = "Idle")
    BY DEF ReplyInv, Typed, QueryType, OwnInv
  <2>3. CASE query[c].step = "Idle"
    BY <2>1, <2>3, IdleOK
  <2>4. CASE query[c].step # "Idle"
    BY <1>1, <2>1, <2>2, <2>4
  <2> QED
    BY <2>3, <2>4
<1>7. QueryInv'
  BY <1>6, QueryPrime DEF dataVars
<1> QED
  BY <1>2, <1>3, <1>4, <1>5, <1>7 DEF ReplyInv

\* A caller goes on with its query: on its connection, or on one that nobody had.
LEMMA CallerStep ==
  ASSUME ReplyInv, NEW c \in Callers, NEW k \in Conns, NEW new \in ConnType, NEW q \in QueryType,
         conn' = [conn EXCEPT ![k] = new], query' = [query EXCEPT ![c] = q],
         UNCHANGED serverVars,
         \A d \in Callers : query[d].conn = k => d = c,
         new.server = conn[k].server, new.helper = "Connecting" => new.server = "Closed",
         q.conn \in {0, k}, q.step = "Idle" <=> q.conn = 0,
         QueryOK(q, new, Answers(q.command))
  PROVE  ReplyInv'
<1>1. /\ DOMAIN conn' = Conns /\ conn'[k] = new
      /\ \A j \in Conns : j # k => conn'[j] = conn[j]
  BY DEF ReplyInv, Typed
<1>2. /\ DOMAIN query' = Callers /\ query'[c] = q
      /\ \A d \in Callers : d # c => query'[d] = query[d]
  BY DEF ReplyInv, Typed
<1>3. UNCHANGED <<mode, dataVars, backlog>>
  BY DEF serverVars
<1>4. Typed'
  BY <1>3 DEF ReplyInv, Typed
<1>5. LoadedInv'
  BY <1>3, LoadedPrime DEF ReplyInv
<1>6. BacklogInv'
  <2>1. \A i \in DOMAIN backlog : conn'[backlog[i]].server = "Queued"
    <3> SUFFICES ASSUME NEW i \in DOMAIN backlog PROVE conn'[backlog[i]].server = "Queued"
      OBVIOUS
    <3>1. backlog[i] \in Conns /\ conn[backlog[i]].server = "Queued"
      BY DEF ReplyInv, Typed, BacklogInv
    <3> QED
      BY <1>1, <3>1
  <2>2. \A j \in Conns : conn'[j].helper = "Connecting" => conn'[j].server = "Closed"
    BY <1>1 DEF ReplyInv, BacklogInv
  <2> QED
    BY <1>3, <2>1, <2>2 DEF ReplyInv, BacklogInv, Distinct
<1>7. 0 \notin Conns
  BY ClientAssumption
<1>8. OwnInv'
  <2>1. \A d \in Callers : query'[d].step = "Idle" <=> query'[d].conn = 0
    BY <1>2 DEF ReplyInv, OwnInv
  <2>2. ASSUME NEW d \in Callers, NEW e \in Callers, query'[d].conn = query'[e].conn,
               query'[d].conn # 0
        PROVE  d = e
    <3>1. CASE d # c /\ e # c
      BY <1>2, <2>2, <3>1 DEF ReplyInv, OwnInv
    <3>2. CASE d = c \/ e = c
      BY <1>2, <2>2, <3>2
    <3> QED
      BY <3>1, <3>2
  <2> QED
    BY <2>1, <2>2 DEF OwnInv
<1>9. ASSUME NEW d \in Callers
      PROVE  QueryOK(query'[d], conn'[query'[d].conn], Answers(query'[d].command))
  <2>1. CASE d = c
    <3>1. CASE q.step = "Idle"
      BY <1>2, <2>1, <3>1, IdleOK
    <3>2. CASE q.step # "Idle"
      BY <1>1, <1>2, <2>1, <3>2
    <3> QED
      BY <3>1, <3>2
  <2>2. CASE d # c
    <3>1. QueryOK(query[d], conn[query[d].conn], Answers(query[d].command))
      BY DEF ReplyInv, QueryInv
    <3>2. query'[d] = query[d] /\ query[d].conn # k /\ query[d].conn \in Conns \cup {0}
      BY <1>2, <2>2 DEF ReplyInv, Typed, QueryType
    <3>3. CASE query[d].step = "Idle"
      BY <3>1, <3>2, <3>3, IdleOK
    <3>4. CASE query[d].step # "Idle"
      <4>1. query[d].conn \in Conns
        BY <3>2, <3>4 DEF ReplyInv, OwnInv
      <4> QED
        BY <1>1, <3>1, <3>2, <4>1
    <3> QED
      BY <3>3, <3>4
  <2> QED
    BY <2>1, <2>2
<1>10. QueryInv'
  BY <1>3, <1>9, QueryPrime DEF dataVars
<1> QED
  BY <1>4, <1>5, <1>6, <1>8, <1>10 DEF ReplyInv

\* The server changes its end of a connection.
LEMMA ServerChange ==
  ASSUME NEW own \in ConnType, NEW server \in ServerStates, NEW request \in Seq(Commands),
         NEW pending \in Seq(Nat)
  PROVE  [own EXCEPT !.server = server, !.request = request, !.pending = pending] \in ConnType
BY DEF ConnType

LEMMA ServerClosed ==
  ASSUME NEW own \in ConnType
  PROVE  LET new == [own EXCEPT !.server = "Closed", !.request = <<>>, !.pending = <<>>] IN
         /\ new \in ConnType
         /\ new.server = "Closed" /\ new.request = <<>> /\ new.pending = <<>>
         /\ new.helper = own.helper /\ new.client = own.client /\ new.wire = own.wire
<1> DEFINE new == [own EXCEPT !.server = "Closed", !.request = <<>>, !.pending = <<>>]
<1>1. "Closed" \in ServerStates /\ <<>> \in Seq(Commands) /\ <<>> \in Seq(Nat)
  BY DEF ServerStates
<1>2. new \in ConnType
  BY <1>1, ServerChange
<1>3. /\ new.server = "Closed" /\ new.request = <<>> /\ new.pending = <<>>
      /\ new.helper = own.helper /\ new.client = own.client /\ new.wire = own.wire
  BY DEF ConnType
<1> QED
  BY <1>2, <1>3

\* The server's end is closed: what it has sent remains, and nothing more comes.
LEMMA ClosedOK ==
  ASSUME NEW q \in QueryType, NEW own \in ConnType, NEW answers, answers \subseteq Seq(Nat),
         QueryOK(q, own, answers),
         NEW new, new = [own EXCEPT !.server = "Closed", !.request = <<>>, !.pending = <<>>]
  PROVE  new \in ConnType /\ QueryOK(q, new, answers)
<1>1. /\ new.server = "Closed" /\ new.request = <<>> /\ new.pending = <<>>
      /\ new.helper = own.helper /\ new.client = own.client /\ new.wire = own.wire
  BY ServerClosed
<1>2. new \in ConnType
  BY ServerClosed
<1>3. ASSUME NEW content \in answers, NEW n \in Nat, Carries(own, Frame(content), n)
      PROVE  Carries(new, Frame(content), n)
  <2>1. Frame(content) \in Seq(Nat) /\ own.wire \in Seq(Nat)
    BY FrameFacts DEF ConnType
  <2>2. PICK m \in Nat : m = n + Len(own.wire) /\ m <= Len(Frame(content))
    BY <1>3, <2>1 DEF Carries, Fits
  <2>3. Fits(<<>>, Frame(content), m)
    BY <2>1, <2>2, NothingFits
  <2> QED
    BY <1>1, <1>3, <2>2, <2>3 DEF Carries
<1>4. q.got \in Seq(Nat) /\ Len(q.got) \in Nat
  BY DEF QueryType
<1>5. q.step = "Length" => \E content \in answers : Carries(new, Frame(content), 0)
  BY <1>3 DEF QueryOK
<1>6. q.step = "Data" =>
        \E content \in answers :
          /\ Carries(new, Frame(content), 1 + Len(q.got))
          /\ Fits(q.got, Frame(content), 1) /\ q.want = Len(content) + 1
  <2> SUFFICES ASSUME q.step = "Data"
               PROVE  \E content \in answers :
                        /\ Carries(new, Frame(content), 1 + Len(q.got))
                        /\ Fits(q.got, Frame(content), 1) /\ q.want = Len(content) + 1
    OBVIOUS
  <2>1. PICK n \in Nat : n = 1 + Len(q.got)
    BY <1>4
  <2>2. PICK content \in answers :
          /\ Carries(own, Frame(content), n)
          /\ Fits(q.got, Frame(content), 1) /\ q.want = Len(content) + 1
    BY <2>1 DEF QueryOK
  <2> QED
    BY <1>3, <2>1, <2>2
<1>7. Unused(own) => Unused(new)
  BY <1>1 DEF Unused
<1> QED
  BY <1>1, <1>2, <1>5, <1>6, <1>7 DEF QueryOK

LEMMA InvFacts ==
  ASSUME ReplyInv
  PROVE  /\ \A k \in Conns : conn[k] \in ConnType
         /\ \A c \in Callers :
              /\ query[c] \in QueryType
              /\ QueryOK(query[c], conn[query[c].conn], Answers(query[c].command))
              /\ Answers(query[c].command) \subseteq Seq(Nat)
              /\ Answers(query[c].command) # {}
         /\ \A k \in Conns, c, d \in Callers :
              query[c].conn = k /\ query[d].conn = k => c = d
         /\ \A k \in Conns, c \in Callers :
              query[c].conn = k => query[c].step \in {"Connect", "Send", "Length", "Data"}
         /\ \A k \in Conns : conn[k].helper = "Connecting" => conn[k].server = "Closed"
<1>1. \A k \in Conns : conn[k] \in ConnType
  BY DEF ReplyInv, Typed
<1>2. \A c \in Callers : query[c] \in QueryType
  BY DEF ReplyInv, Typed
<1>3. \A c \in Callers : QueryOK(query[c], conn[query[c].conn], Answers(query[c].command))
  BY DEF ReplyInv, QueryInv
<1>4. \A x : Answers(x) \subseteq Seq(Nat) /\ Answers(x) # {}
  BY AnswersFacts DEF ReplyInv
<1>5. \A k \in Conns, c, d \in Callers :
        query[c].conn = k /\ query[d].conn = k => c = d
  BY ClientAssumption DEF ReplyInv, OwnInv
<1>6. \A k \in Conns, c \in Callers :
        query[c].conn = k => query[c].step \in {"Connect", "Send", "Length", "Data"}
  BY <1>2, ClientAssumption DEF ReplyInv, OwnInv, QueryType
<1>7. \A k \in Conns : conn[k].helper = "Connecting" => conn[k].server = "Closed"
  BY DEF ReplyInv, BacklogInv
<1> QED
  BY <1>1, <1>2, <1>3, <1>4, <1>5, <1>6, <1>7

\* The thread of a connection ends.
LEMMA ClosesStep ==
  ASSUME ReplyInv, NEW k \in Conns, conn[k].server # "Queued",
         conn' = [conn EXCEPT ![k] = ServerCloses(k)], UNCHANGED serverVars, UNCHANGED query
  PROVE  ReplyInv'
<1>1. PICK new : new = ServerCloses(k)
  OBVIOUS
<1>2. new = [conn[k] EXCEPT !.server = "Closed", !.request = <<>>, !.pending = <<>>]
  BY <1>1 DEF ServerCloses
<1>3. conn[k] \in ConnType
  BY InvFacts
<1>4. new \in ConnType /\ new.server = "Closed"
  BY <1>2, <1>3, ServerClosed
<1>5. ASSUME NEW c \in Callers, query[c].conn = k
      PROVE  QueryOK(query[c], new, Answers(query[c].command))
  BY <1>2, <1>3, <1>5, InvFacts, ClosedOK
<1> QED
  BY <1>1, <1>4, <1>5, ConnectionStep DEF serverVars

LEMMA RefuseStep ==
  ASSUME ReplyInv, NEW k \in Conns, RefuseCommand(k), UNCHANGED query
  PROVE  ReplyInv'
BY ClosesStep DEF RefuseCommand

\* A reply is looked up for the request of the query itself.
LEMMA LookupStep ==
  ASSUME ReplyInv, RotationInv, NEW k \in Conns, Lookup(k), UNCHANGED query
  PROVE  ReplyInv'
<1>1. conn[k].server = "Reading"
  BY DEF Lookup
<1>2. PICK c \in Commands :
        LET as == AnsweredAs(c)
            files == command_responses[as]
            next == next_index(as, Len(files))
            content == IF Len(files) = 1 THEN files[1] ELSE files[next.index + 1]
        IN  /\ conn[k].request = <<c>>
            /\ conn' = [conn EXCEPT ![k].server = "Replying", ![k].request = <<>>,
                                    ![k].pending = Sent(content)]
  BY DEF Lookup
<1>3. PICK as : as = AnsweredAs(c)
  OBVIOUS
<1>4. PICK files : files = command_responses[as]
  OBVIOUS
<1>5. /\ as \in Known /\ files # <<>> /\ files \in Seq(Seq(Nat))
      /\ Range(files) = Answers(c) /\ Answers(c) \subseteq Seq(Nat)
  BY <1>3, <1>4, AnswersFacts DEF ReplyInv
<1>6. PICK i \in Nat : i = indices[as]
  BY <1>5 DEF RotationInv
<1>7. PICK content : content = IF Len(files) = 1 THEN files[1] ELSE files[i + 1]
  OBVIOUS
<1>8. content \in Answers(c) /\ content \in Seq(Nat)
  <2>1. PICK L \in Nat \ {0} : L = Len(files)
    BY <1>5, EmptySeq
  <2>2. i < L
    BY <1>4, <1>5, <1>6, <2>1 DEF RotationInv, RotationOK
  <2>3. 1 \in DOMAIN files /\ i + 1 \in DOMAIN files
    BY <1>5, <2>1, <2>2
  <2> QED
    BY <1>5, <1>7, <2>3 DEF Range
<1>9. /\ conn[k].request = <<c>>
      /\ conn' = [conn EXCEPT ![k].server = "Replying", ![k].request = <<>>,
                              ![k].pending = Sent(content)]
  BY <1>2, <1>3, <1>4, <1>6, <1>7 DEF next_index
<1>10. Sent(content) \in Seq(Nat) /\ Fits(Sent(content), Frame(content), 0)
  BY <1>8, SentFits
<1>11. PICK new : new = [conn[k] EXCEPT !.server = "Replying", !.request = <<>>,
                                        !.pending = Sent(content)]
  OBVIOUS
<1>12. conn' = [conn EXCEPT ![k] = new]
  BY <1>9, <1>11 DEF ReplyInv, Typed
<1>13. /\ new \in ConnType /\ new.server = "Replying" /\ new.request = <<>>
       /\ new.pending = Sent(content) /\ new.wire = conn[k].wire
       /\ new.client = conn[k].client /\ new.helper = conn[k].helper
  <2>1. conn[k] \in ConnType
    BY InvFacts
  <2>2. "Replying" \in ServerStates /\ <<>> \in Seq(Commands)
    BY DEF ServerStates
  <2>3. new \in ConnType
    BY <1>10, <1>11, <2>1, <2>2, ServerChange
  <2> QED
    BY <1>11, <2>1, <2>3 DEF ConnType
<1>14. ASSUME NEW d \in Callers, query[d].conn = k
       PROVE  QueryOK(query[d], new, Answers(query[d].command))
  <2>1. /\ query[d].step \in {"Connect", "Send", "Length", "Data"} /\ query[d] \in QueryType
        /\ QueryOK(query[d], conn[k], Answers(query[d].command))
    BY <1>14, InvFacts
  <2>2. conn[k].request # <<>>
    BY <1>9
  <2>3. query[d].step = "Length"
    BY <1>1, <2>1, <2>2 DEF QueryOK, Unused
  <2>4. query[d].command = c /\ conn[k].wire = <<>>
    BY <1>1, <1>9, <2>1, <2>2, <2>3 DEF QueryOK
  <2>5. Carries(new, Frame(content), 0)
    <3>1. Frame(content) \in Seq(Nat) /\ 0 <= Len(Frame(content))
      BY <1>8, FrameFacts
    <3>2. Fits(<<>>, Frame(content), 0) /\ 0 + Len(<<>>) = 0
      BY <3>1, NothingFits
    <3> QED
      BY <1>10, <1>13, <2>4, <3>2 DEF Carries
  <2> QED
    BY <1>8, <1>13, <2>1, <2>3, <2>4, <2>5 DEF QueryOK
<1>15. new.helper = "Connecting" => new.server = "Closed"
  BY <1>1, <1>13, InvFacts
<1>16. UNCHANGED <<mode, dataVars, backlog, query>>
  BY DEF Lookup
<1> QED
  BY <1>1, <1>12, <1>13, <1>14, <1>15, <1>16, ConnectionStep

\* One symbol of what is still to be sent goes on the wire.
LEMMA SentOn ==
  ASSUME NEW own \in ConnType, own.pending # <<>>, NEW content, content \in Seq(Nat),
         NEW n \in Nat, Carries(own, Frame(content), n),
         NEW new, new.wire = Append(own.wire, Head(own.pending)), new.pending = Tail(own.pending)
  PROVE  Carries(new, Frame(content), n)
<1>1. PICK frame \in Seq(Nat) : frame = Frame(content)
  BY FrameFacts
<1>2. PICK wire \in Seq(Nat) : wire = own.wire
  BY DEF ConnType
<1>3. PICK pending \in Seq(Nat) : pending = own.pending
  BY DEF ConnType
<1>4. PICK m \in Nat : m = n + Len(wire)
  OBVIOUS
<1>5. Fits(wire, frame, n) /\ Fits(pending, frame, m)
  BY <1>1, <1>2, <1>3, <1>4 DEF Carries
<1>6. PICK e : e = Head(pending)
  OBVIOUS
<1>7. /\ e = frame[m + 1] /\ m + 1 <= Len(frame) /\ Fits(Tail(pending), frame, m + 1)
  BY <1>3, <1>5, <1>6, RestFits
<1>8. e \in Nat
  BY <1>3, <1>6
<1>9. Fits(Append(wire, e), frame, n) /\ Len(Append(wire, e)) = Len(wire) + 1
  <2>1. n + Len(wire) + 1 = m + 1
    BY <1>4
  <2> QED
    BY <1>5, <1>7, <1>8, <2>1, MoreFits
<1>10. n + Len(Append(wire, e)) = m + 1
  BY <1>4, <1>9
<1>11. new.wire = Append(wire, e) /\ new.pending = Tail(pending)
  BY <1>2, <1>3, <1>6
<1> QED
  BY <1>1, <1>7, <1>9, <1>10, <1>11 DEF Carries

LEMMA SendStep ==
  ASSUME ReplyInv, NEW k \in Conns, SendPart(k), UNCHANGED query
  PROVE  ReplyInv'
<1>1. PICK own \in ConnType : own = conn[k]
  BY InvFacts
<1>2. own.server = "Replying" /\ own.pending # <<>>
  BY <1>1 DEF SendPart
<1>3. PICK new : new = [own EXCEPT !.wire = Append(own.wire, Head(own.pending)),
                                   !.pending = Tail(own.pending)]
  OBVIOUS
<1>4. conn' = [conn EXCEPT ![k] = new]
  BY <1>1, <1>3 DEF SendPart, ReplyInv, Typed
<1>5. /\ new.wire = Append(own.wire, Head(own.pending)) /\ new.pending = Tail(own.pending)
      /\ new.server = own.server /\ new.request = own.request
      /\ new.client = own.client /\ new.helper = own.helper
  BY <1>3 DEF ConnType
<1>6. new \in ConnType
  <2>1. /\ Append(own.wire, Head(own.pending)) \in Seq(Nat) /\ Tail(own.pending) \in Seq(Nat)
    BY <1>2 DEF ConnType
  <2> QED
    BY <1>3, <2>1 DEF ConnType
<1>7. ASSUME NEW c \in Callers, query[c].conn = k
      PROVE  QueryOK(query[c], new, Answers(query[c].command))
  <2>1. PICK q \in QueryType : q = query[c]
    BY InvFacts
  <2>2. PICK answers : answers = Answers(query[c].command) /\ answers \subseteq Seq(Nat)
    BY InvFacts
  <2>3. QueryOK(q, own, answers) /\ q.step \in {"Connect", "Send", "Length", "Data"}
    BY <1>1, <1>7, <2>1, <2>2, InvFacts
  <2>4. q.step \in {"Length", "Data"}
    BY <1>2, <2>3 DEF QueryOK, Unused
  <2>5. \A content \in answers, n \in Nat :
          Carries(own, Frame(content), n) => Carries(new, Frame(content), n)
    BY <1>2, <1>5, <2>2, SentOn
  <2>6. 0 \in Nat /\ 1 + Len(q.got) \in Nat
    BY DEF QueryType
  <2>7. QueryOK(q, new, answers)
    BY <1>2, <1>5, <2>3, <2>4, <2>5, <2>6 DEF QueryOK
  <2> QED
    BY <2>1, <2>2, <2>7
<1>8. new.helper = "Connecting" => new.server = "Closed"
  BY <1>1, <1>5, InvFacts
<1> QED
  BY <1>1, <1>4, <1>5, <1>6, <1>7, <1>8, ConnectionStep DEF SendPart, serverVars

LEMMA EndStep ==
  ASSUME ReplyInv, NEW k \in Conns, EndConnection(k), UNCHANGED query
  PROVE  ReplyInv'
<1>1. conn[k].server = "Replying" /\ conn[k] \in ConnType
  BY InvFacts DEF EndConnection
<1>2. CASE mode = "Hang" /\ conn[k].pending = <<>>
  <2>1. PICK new : new = [conn[k] EXCEPT !.server = "Idling"]
    OBVIOUS
  <2>2. conn' = [conn EXCEPT ![k] = new]
    BY <1>2, <2>1 DEF EndConnection
  <2>3. /\ new.server = "Idling" /\ new.wire = conn[k].wire /\ new.pending = conn[k].pending
        /\ new.request = conn[k].request /\ new.client = conn[k].client
        /\ new.helper = conn[k].helper
    BY <1>1, <2>1 DEF ConnType
  <2>4. new \in ConnType
    BY <1>1, <2>1 DEF ConnType, ServerStates
  <2>5. ASSUME NEW c \in Callers, query[c].conn = k
        PROVE  QueryOK(query[c], new, Answers(query[c].command))
    <3>1. /\ QueryOK(query[c], conn[k], Answers(query[c].command))
          /\ query[c].step \in {"Connect", "Send", "Length", "Data"}
      BY <2>5, InvFacts
    <3> QED
      BY <1>1, <2>3, <3>1 DEF QueryOK, Carries
  <2>6. new.helper = "Connecting" => new.server = "Closed"
    BY <1>1, <2>3, InvFacts
  <2> QED
    BY <1>1, <2>2, <2>4, <2>5, <2>6, ConnectionStep DEF EndConnection, serverVars
<1>3. CASE ~(mode = "Hang" /\ conn[k].pending = <<>>)
  BY <1>1, <1>3, ClosesStep DEF EndConnection
<1> QED
  BY <1>2, <1>3

\* A connection that no helper waits for any more, or one that the server refuses.
LEMMA RefusedStep ==
  ASSUME ReplyInv, NEW k \in Conns, HelperRefused(k)
  PROVE  ReplyInv'
<1>1. conn[k].helper = "Connecting" /\ conn[k].server = "Closed" /\ conn[k] \in ConnType
  BY InvFacts DEF HelperRefused
<1>2. PICK helper \in {"Refused", "None"} : helper = IF Awaited(k) THEN "Refused" ELSE "None"
  OBVIOUS
<1>3. PICK new : new = [conn[k] EXCEPT !.helper = helper]
  OBVIOUS
<1>4. conn' = [conn EXCEPT ![k] = new]
  BY <1>2, <1>3 DEF HelperRefused
<1>5. /\ new.helper = helper /\ new.server = "Closed" /\ new.wire = conn[k].wire
      /\ new.pending = conn[k].pending /\ new.request = conn[k].request
      /\ new.client = conn[k].client
  BY <1>1, <1>3 DEF ConnType
<1>6. new \in ConnType
  BY <1>1, <1>3 DEF ConnType
<1>7. ASSUME NEW c \in Callers, query[c].conn = k
      PROVE  QueryOK(query[c], new, Answers(query[c].command))
  <2>1. /\ QueryOK(query[c], conn[k], Answers(query[c].command))
        /\ query[c].step \in {"Connect", "Send", "Length", "Data"}
    BY <1>7, InvFacts
  <2>2. query[c].step = "Connect"
    BY <1>1, <2>1 DEF QueryOK
  <2>3. helper = "Refused"
    BY <1>2, <1>7 DEF Awaited
  <2> QED
    BY <1>1, <1>5, <2>1, <2>2, <2>3 DEF QueryOK, Unused
<1> QED
  BY <1>1, <1>4, <1>5, <1>6, <1>7, ConnectionStep DEF HelperRefused, serverVars

\* The backlog without its first connection.
LEMMA TailDistinct ==
  ASSUME NEW S, NEW s \in Seq(S), s # <<>>, Distinct(s)
  PROVE  /\ Head(s) = s[1] /\ 1 \in DOMAIN s
         /\ Tail(s) \in Seq(S) /\ Len(Tail(s)) <= Len(s) /\ Distinct(Tail(s))
         /\ \A i \in DOMAIN Tail(s) : /\ i + 1 \in DOMAIN s /\ Tail(s)[i] = s[i + 1]
                                      /\ Tail(s)[i] # Head(s)
<1>1. PICK n \in Nat : Len(s) = n + 1
  <2>1. Len(s) \in Nat /\ Len(s) # 0
    BY EmptySeq
  <2>2. Len(s) - 1 \in Nat /\ Len(s) = (Len(s) - 1) + 1
    BY <2>1
  <2> QED
    BY <2>2
<1>2. /\ Tail(s) \in Seq(S) /\ Len(Tail(s)) = n
      /\ \A j \in 1 .. n : Tail(s)[j] = s[j + 1]
  BY <1>1, TailFacts
<1>3. DOMAIN s = 1 .. (n + 1) /\ DOMAIN Tail(s) = 1 .. n
  BY <1>1, <1>2
<1>4. Head(s) = s[1] /\ 1 \in DOMAIN s
  BY <1>1, <1>3
<1>5. \A i \in DOMAIN Tail(s) : /\ i + 1 \in DOMAIN s /\ Tail(s)[i] = s[i + 1]
                                /\ i + 1 # 1
  BY <1>2, <1>3
<1>6. \A i \in DOMAIN Tail(s) : Tail(s)[i] # Head(s)
  BY <1>4, <1>5 DEF Distinct
<1>7. Distinct(Tail(s))
  <2> SUFFICES ASSUME NEW i \in 1 .. n, NEW j \in 1 .. n, Tail(s)[i] = Tail(s)[j] PROVE i = j
    BY <1>3 DEF Distinct
  <2>1. i + 1 = j + 1
    BY <1>3, <1>5 DEF Distinct
  <2> QED
    BY <2>1
<1> QED
  BY <1>1, <1>2, <1>4, <1>5, <1>6, <1>7

LEMMA AcceptStep ==
  ASSUME ReplyInv, Accept, UNCHANGED query
  PROVE  ReplyInv'
<1>1. backlog \in Seq(Conns) /\ backlog # <<>> /\ Distinct(backlog)
  BY DEF Accept, ReplyInv, Typed, BacklogInv
<1>2. PICK k : k = Head(backlog)
  OBVIOUS
<1>3. /\ k = backlog[1] /\ 1 \in DOMAIN backlog
      /\ Tail(backlog) \in Seq(Conns) /\ Len(Tail(backlog)) <= Len(backlog)
      /\ Distinct(Tail(backlog))
      /\ \A i \in DOMAIN Tail(backlog) :
           /\ i + 1 \in DOMAIN backlog /\ Tail(backlog)[i] = backlog[i + 1]
           /\ Tail(backlog)[i] # k
  BY <1>1, <1>2, TailDistinct
<1>4. k \in Conns /\ conn[k] \in ConnType /\ conn[k].server = "Queued"
  BY <1>1, <1>3, InvFacts DEF ReplyInv, BacklogInv
<1>5. PICK new : new = [conn[k] EXCEPT !.server = "Reading"]
  OBVIOUS
<1>6. conn' = [conn EXCEPT ![k] = new]
  BY <1>2, <1>5 DEF Accept
<1>7. /\ new.server = "Reading" /\ new.wire = conn[k].wire /\ new.pending = conn[k].pending
      /\ new.request = conn[k].request /\ new.client = conn[k].client
      /\ new.helper = conn[k].helper
  BY <1>4, <1>5 DEF ConnType
<1>8. new \in ConnType
  BY <1>4, <1>5 DEF ConnType, ServerStates
<1>9. /\ backlog' = Tail(backlog) /\ UNCHANGED <<mode, dataVars, query>>
  BY DEF Accept
<1>10. /\ DOMAIN conn' = Conns /\ conn'[k] = new
       /\ \A j \in Conns : j # k => conn'[j] = conn[j]
  BY <1>4, <1>6 DEF ReplyInv, Typed
<1>11. Typed'
  <2>1. conn' \in [Conns -> ConnType]
    BY <1>6, <1>8 DEF ReplyInv, Typed
  <2>2. Tail(backlog) \in Seq(Conns) /\ Len(Tail(backlog)) <= BACKLOG
    <3>1. PICK a \in Nat : a = Len(Tail(backlog))
      BY <1>3
    <3>2. PICK b \in Nat : b = Len(backlog)
      BY <1>1
    <3>3. a <= b /\ b <= BACKLOG /\ BACKLOG \in Nat
      BY <1>3, <3>1, <3>2, MockAssumption DEF ReplyInv, Typed
    <3> QED
      BY <1>3, <3>1, <3>3
  <2> QED
    BY <1>9, <2>1, <2>2 DEF ReplyInv, Typed
<1>12. LoadedInv'
  BY <1>9, LoadedPrime DEF ReplyInv
<1>13. BacklogInv'
  <2>1. ASSUME NEW i \in DOMAIN Tail(backlog) PROVE conn'[Tail(backlog)[i]].server = "Queued"
    <3>1. /\ Tail(backlog)[i] # k /\ Tail(backlog)[i] \in Conns
          /\ conn[Tail(backlog)[i]].server = "Queued"
      BY <1>1, <1>3 DEF ReplyInv, BacklogInv
    <3> QED
      BY <1>10, <3>1
  <2>2. \A j \in Conns : conn'[j].helper = "Connecting" => conn'[j].server = "Closed"
    BY <1>4, <1>7, <1>10, InvFacts
  <2> QED
    BY <1>3, <1>9, <2>1, <2>2 DEF BacklogInv, Distinct
<1>14. OwnInv'
  BY <1>9 DEF ReplyInv, OwnInv
<1>15. ASSUME NEW c \in Callers
       PROVE  QueryOK(query[c], conn'[query[c].conn], Answers(query[c].command))
  <2>1. QueryOK(query[c], conn[query[c].conn], Answers(query[c].command))
    BY InvFacts
  <2>2. query[c].conn \in Conns \cup {0} /\ (query[c].conn = 0 => query[c].step = "Idle")
    BY DEF ReplyInv, Typed, QueryType, OwnInv
  <2>3. CASE query[c].step = "Idle"
    BY <2>1, <2>3, IdleOK
  <2>4. CASE query[c].step # "Idle" /\ query[c].conn # k
    BY <1>10, <2>1, <2>2, <2>4
  <2>5. CASE query[c].conn = k
    <3>1. QueryOK(query[c], new, Answers(query[c].command))
      BY <1>4, <1>7, <2>1, <2>5 DEF QueryOK, Carries, Unused
    <3> QED
      BY <1>10, <2>5, <3>1
  <2> QED
    BY <2>3, <2>4, <2>5
<1>16. QueryInv'
  BY <1>9, <1>15, QueryPrime DEF dataVars
<1> QED
  BY <1>11, <1>12, <1>13, <1>14, <1>16 DEF ReplyInv

\* The server is gone: what it had sent can still be read.
LEMMA StopStep ==
  ASSUME ReplyInv, Stop, UNCHANGED query
  PROVE  ReplyInv'
<1>1. /\ mode' = "Down" /\ backlog' = <<>> /\ UNCHANGED dataVars
      /\ conn' = [k \in Conns |-> ServerCloses(k)]
  BY DEF Stop
<1>2. ASSUME NEW k \in Conns
      PROVE  /\ conn'[k] =
                  [conn[k] EXCEPT !.server = "Closed", !.request = <<>>, !.pending = <<>>]
             /\ conn'[k] \in ConnType /\ conn'[k].server = "Closed"
  BY <1>1, InvFacts, ServerClosed DEF ServerCloses
<1>3. Typed'
  <2>1. conn' \in [Conns -> ConnType]
    BY <1>1, <1>2
  <2>2. <<>> \in Seq(Conns) /\ Len(<<>>) <= BACKLOG
    BY MockAssumption
  <2> QED
    BY <1>1, <2>1, <2>2 DEF ReplyInv, Typed
<1>4. LoadedInv'
  BY <1>1, LoadedPrime DEF ReplyInv
<1>5. BacklogInv'
  <2>1. \A k \in Conns : conn'[k].helper = "Connecting" => conn'[k].server = "Closed"
    BY <1>2
  <2>2. Distinct(<<>>) /\ \A i \in DOMAIN <<>> : FALSE
    BY DEF Distinct
  <2> QED
    BY <1>1, <2>1, <2>2 DEF BacklogInv, Distinct
<1>6. OwnInv'
  BY DEF ReplyInv, OwnInv
<1>7. ASSUME NEW c \in Callers
      PROVE  QueryOK(query[c], conn'[query[c].conn], Answers(query[c].command))
  <2>1. /\ query[c] \in QueryType
        /\ QueryOK(query[c], conn[query[c].conn], Answers(query[c].command))
        /\ Answers(query[c].command) \subseteq Seq(Nat)
    BY InvFacts
  <2>2. CASE query[c].step = "Idle"
    BY <2>1, <2>2, IdleOK
  <2>3. CASE query[c].step # "Idle"
    <3>1. PICK k \in Conns : k = query[c].conn
      BY <2>1, <2>3 DEF ReplyInv, OwnInv, QueryType
    <3>2. conn[k] \in ConnType
      BY InvFacts
    <3> QED
      BY <1>2, <2>1, <3>1, <3>2, ClosedOK
  <2> QED
    BY <2>2, <2>3
<1>8. QueryInv'
  BY <1>1, <1>7, QueryPrime DEF dataVars
<1> QED
  BY <1>3, <1>4, <1>5, <1>6, <1>8 DEF ReplyInv

\* Nothing that the replies depend on changes.
LEMMA NothingStep ==
  ASSUME ReplyInv, UNCHANGED <<dataVars, backlog, conn, query>>,
         mode' \in {"Down", "Normal", "Hang", "Unresponsive"}
  PROVE  ReplyInv'
<1>1. Typed'
  BY DEF ReplyInv, Typed
<1>2. LoadedInv'
  BY LoadedPrime DEF ReplyInv
<1>3. BacklogInv'
  BY DEF ReplyInv, BacklogInv, Distinct
<1>4. OwnInv'
  BY DEF ReplyInv, OwnInv
<1>5. QueryInv'
  <2>1. \A c \in Callers :
          QueryOK(query'[c], conn'[query'[c].conn], Answers(query'[c].command))
    BY InvFacts
  <2> QED
    BY <2>1, QueryPrime DEF dataVars
<1> QED
  BY <1>1, <1>2, <1>3, <1>4, <1>5 DEF ReplyInv

\* A connection that nobody is queued with is queued last.
LEMMA LastDistinct ==
  ASSUME NEW S, NEW s \in Seq(S), Distinct(s), NEW e \in S, \A i \in DOMAIN s : s[i] # e
  PROVE  /\ Append(s, e) \in Seq(S) /\ Len(Append(s, e)) = Len(s) + 1
         /\ Distinct(Append(s, e))
         /\ \A i \in DOMAIN Append(s, e) :
              Append(s, e)[i] = e \/ (i \in DOMAIN s /\ Append(s, e)[i] = s[i])
<1>1. PICK n \in Nat : n = Len(s)
  OBVIOUS
<1>2. /\ Append(s, e) \in Seq(S) /\ Len(Append(s, e)) = n + 1
      /\ \A j \in 1 .. n : Append(s, e)[j] = s[j]
      /\ Append(s, e)[n + 1] = e
  BY <1>1, MoreFacts
<1>3. DOMAIN s = 1 .. n /\ DOMAIN Append(s, e) = 1 .. (n + 1)
  BY <1>1, <1>2
<1>4. \A i \in DOMAIN Append(s, e) : i = n + 1 \/ i \in 1 .. n
  BY <1>3
<1>5. Distinct(Append(s, e))
  BY <1>2, <1>3, <1>4 DEF Distinct
<1> QED
  BY <1>1, <1>2, <1>3, <1>4, <1>5

LEMMA HelperStep ==
  ASSUME ReplyInv, NEW k \in Conns, HelperConnects(k)
  PROVE  ReplyInv'
<1>1. /\ conn[k].helper = "Connecting" /\ conn[k].server = "Closed" /\ conn[k] \in ConnType
  BY InvFacts DEF HelperConnects
<1>2. backlog \in Seq(Conns) /\ Distinct(backlog) /\ Len(backlog) < BACKLOG
  BY DEF HelperConnects, ReplyInv, Typed, BacklogInv
<1>3. \A i \in DOMAIN backlog : backlog[i] # k /\ conn[backlog[i]].server = "Queued"
  BY <1>1 DEF ReplyInv, BacklogInv
<1>4. PICK more : more = Append(backlog, k)
  OBVIOUS
<1>5. /\ more \in Seq(Conns) /\ Len(more) = Len(backlog) + 1 /\ Distinct(more)
      /\ \A i \in DOMAIN more : more[i] = k \/ (i \in DOMAIN backlog /\ more[i] = backlog[i])
  BY <1>2, <1>3, <1>4, LastDistinct
<1>6. PICK client \in {"Open", "Closed"} : client = IF Awaited(k) THEN "Open" ELSE "Closed"
  OBVIOUS
<1>7. PICK helper \in {"Connected", "None"} : helper = IF Awaited(k) THEN "Connected" ELSE "None"
  OBVIOUS
<1>8. PICK new : new = [conn[k] EXCEPT !.server = "Queued", !.client = client, !.helper = helper]
  OBVIOUS
<1>9. conn' = [conn EXCEPT ![k] = new]
  BY <1>6, <1>7, <1>8 DEF HelperConnects, ReplyInv, Typed
<1>10. /\ new.server = "Queued" /\ new.client = client /\ new.helper = helper
       /\ new.wire = conn[k].wire /\ new.pending = conn[k].pending
       /\ new.request = conn[k].request
  BY <1>1, <1>8 DEF ConnType
<1>11. new \in ConnType
  BY <1>1, <1>8 DEF ConnType, ServerStates
<1>12. backlog' = more /\ UNCHANGED <<mode, dataVars, query>>
  BY <1>4 DEF HelperConnects
<1>13. /\ DOMAIN conn' = Conns /\ conn'[k] = new
       /\ \A j \in Conns : j # k => conn'[j] = conn[j]
  BY <1>9 DEF ReplyInv, Typed
<1>14. Typed'
  <2>1. conn' \in [Conns -> ConnType]
    BY <1>9, <1>11 DEF ReplyInv, Typed
  <2>2. Len(more) <= BACKLOG
    <3>1. PICK n \in Nat : n = Len(backlog)
      BY <1>2
    <3> QED
      BY <1>2, <1>5, <3>1, MockAssumption
  <2> QED
    BY <1>5, <1>12, <2>1, <2>2 DEF ReplyInv, Typed
<1>15. LoadedInv'
  BY <1>12, LoadedPrime DEF ReplyInv
<1>16. BacklogInv'
  <2>1. ASSUME NEW i \in DOMAIN more PROVE conn'[more[i]].server = "Queued"
    <3>1. CASE more[i] = k
      BY <1>10, <1>13, <3>1
    <3>2. CASE more[i] # k
      <4>1. more[i] \in Conns /\ conn[more[i]].server = "Queued"
        BY <1>2, <1>3, <1>5, <3>2
      <4> QED
        BY <1>13, <3>2, <4>1
    <3> QED
      BY <3>1, <3>2
  <2>2. \A j \in Conns : conn'[j].helper = "Connecting" => conn'[j].server = "Closed"
    BY <1>7, <1>10, <1>13, InvFacts
  <2> QED
    BY <1>5, <1>12, <2>1, <2>2 DEF BacklogInv, Distinct
<1>17. OwnInv'
  BY <1>12 DEF ReplyInv, OwnInv
<1>18. ASSUME NEW c \in Callers
       PROVE  QueryOK(query[c], conn'[query[c].conn], Answers(query[c].command))
  <2>1. QueryOK(query[c], conn[query[c].conn], Answers(query[c].command))
    BY InvFacts
  <2>2. query[c].conn \in Conns \cup {0} /\ (query[c].conn = 0 => query[c].step = "Idle")
    BY DEF ReplyInv, Typed, QueryType, OwnInv
  <2>3. CASE query[c].step = "Idle"
    BY <2>1, <2>3, IdleOK
  <2>4. CASE query[c].step # "Idle" /\ query[c].conn # k
    BY <1>13, <2>1, <2>2, <2>4
  <2>5. CASE query[c].conn = k
    <3>1. query[c].step = "Connect"
      BY <1>1, <2>1, <2>5, InvFacts DEF QueryOK
    <3>2. client = "Open" /\ helper = "Connected"
      BY <1>6, <1>7, <2>5 DEF Awaited
    <3>3. QueryOK(query[c], new, Answers(query[c].command))
      BY <1>10, <2>1, <2>5, <3>1, <3>2 DEF QueryOK, Unused
    <3> QED
      BY <1>13, <2>5, <3>3
  <2> QED
    BY <2>3, <2>4, <2>5
<1>19. QueryInv'
  BY <1>12, <1>18, QueryPrime DEF dataVars
<1> QED
  BY <1>14, <1>15, <1>16, <1>17, <1>19 DEF ReplyInv

\* A query ends: with the text of one of the answers to its command, or without.
LEMMA FinishOK ==
  ASSUME ReplyInv, NEW c \in Callers, query[c].step # "Idle",
         NEW kind \in Kinds, NEW text \in Seq(Nat),
         kind = "Ok" => \E content \in Answers(query[c].command) : IsTextOf(text, content),
         Finish(c, kind, text)
  PROVE  ReplyInv'
<1>1. PICK k \in Conns : k = query[c].conn
  BY DEF ReplyInv, Typed, QueryType, OwnInv
<1>2. PICK own \in ConnType : own = conn[k]
  BY InvFacts
<1>3. PICK helper : helper = IF own.helper = "Refused" THEN "None" ELSE own.helper
  OBVIOUS
<1>4. PICK new : new = [own EXCEPT !.client = "Closed", !.wire = <<>>,
                                   !.helper = IF @ = "Refused" THEN "None" ELSE @]
  OBVIOUS
<1>5. conn' = [conn EXCEPT ![k] = new] /\ new.helper = helper
  <2>1. conn' = [conn EXCEPT ![k] = new]
    BY <1>1, <1>2, <1>4 DEF Finish, Own
  <2>2. new.helper = helper
    BY <1>3, <1>4 DEF ConnType
  <2> QED
    BY <2>1, <2>2
<1>6. new \in ConnType
  <2>1. helper \in {"None", "Connecting", "Connected", "Refused"} /\ <<>> \in Seq(Nat)
    BY <1>3 DEF ConnType
  <2>2. new = [own EXCEPT !.client = "Closed", !.wire = <<>>, !.helper = helper]
    BY <1>3, <1>4 DEF ConnType
  <2> QED
    BY <2>1, <2>2 DEF ConnType
<1>7. new.server = own.server /\ (new.helper = "Connecting" => own.helper = "Connecting")
  BY <1>3, <1>4 DEF ConnType
<1>8. PICK q : q = [Idle EXCEPT !.command = query[c].command,
                                !.result = [kind |-> kind, text |-> text]]
  OBVIOUS
<1>9. /\ query' = [query EXCEPT ![c] = q]
      /\ q = [step |-> "Idle", command |-> query[c].command, conn |-> 0, want |-> 0,
              got |-> <<>>, wait |-> 0, spent |-> 0, result |-> [kind |-> kind, text |-> text]]
  <2>1. query' = [query EXCEPT ![c] = q]
    BY <1>8 DEF Finish
  <2>2. q = [step |-> "Idle", command |-> query[c].command, conn |-> 0, want |-> 0,
              got |-> <<>>, wait |-> 0, spent |-> 0, result |-> [kind |-> kind, text |-> text]]
    BY <1>8 DEF Idle
  <2> QED
    BY <2>1, <2>2
<1>10. q \in QueryType
  <2>1. query[c].command \in Commands
    BY InvFacts DEF QueryType
  <2> QED
    BY <1>9, <2>1 DEF QueryType
<1>11. QueryOK(q, new, Answers(q.command))
  <2>1. /\ q.step = "Idle" /\ q.got = <<>> /\ q.want = 0 /\ q.command = query[c].command
        /\ q.result.kind = kind /\ q.result.text = text
    BY <1>9
  <2> QED
    BY <2>1 DEF QueryOK
<1>12. q.step = "Idle" /\ q.conn = 0
  BY <1>9
<1>13. UNCHANGED serverVars
  BY DEF Finish
<1>14. \A d \in Callers : query[d].conn = k => d = c
  BY <1>1, InvFacts
<1>15. new.helper = "Connecting" => new.server = "Closed"
  BY <1>2, <1>7, InvFacts
<1> QED
  BY <1>2, <1>5, <1>6, <1>7, <1>9, <1>10, <1>11, <1>12, <1>13, <1>14, <1>15, CallerStep

LEMMA StartOK ==
  ASSUME ReplyInv, NEW c \in Callers, NEW command \in Commands, StartQuery(c, command)
  PROVE  ReplyInv'
<1>1. PICK k \in Conns :
        /\ Free(k)
        /\ conn' = [conn EXCEPT ![k] = [NoConn EXCEPT !.helper = "Connecting"]]
        /\ query' = [query EXCEPT ![c] = [Idle EXCEPT !.step = "Connect", !.conn = k,
                                                      !.command = command]]
  BY DEF StartQuery
<1>2. PICK new : new = [NoConn EXCEPT !.helper = "Connecting"]
  OBVIOUS
<1>3. PICK q : q = [Idle EXCEPT !.step = "Connect", !.conn = k, !.command = command]
  OBVIOUS
<1>4. /\ conn' = [conn EXCEPT ![k] = new] /\ query' = [query EXCEPT ![c] = q]
      /\ new = [helper |-> "Connecting", client |-> "Closed", server |-> "Closed",
                request |-> <<>>, pending |-> <<>>, wire |-> <<>>]
      /\ q = [step |-> "Connect", command |-> command, conn |-> k, want |-> 0, got |-> <<>>,
              wait |-> 0, spent |-> 0, result |-> [kind |-> "None", text |-> <<>>]]
  <2>1. conn' = [conn EXCEPT ![k] = new] /\ query' = [query EXCEPT ![c] = q]
    BY <1>1, <1>2, <1>3
  <2>2. new = [helper |-> "Connecting", client |-> "Closed", server |-> "Closed",
               request |-> <<>>, pending |-> <<>>, wire |-> <<>>]
    BY <1>2 DEF NoConn
  <2>3. q = [step |-> "Connect", command |-> command, conn |-> k, want |-> 0, got |-> <<>>,
             wait |-> 0, spent |-> 0, result |-> [kind |-> "None", text |-> <<>>]]
    BY <1>3 DEF Idle, NoResult
  <2> QED
    BY <2>1, <2>2, <2>3
<1>5. new \in ConnType
  BY <1>4 DEF ConnType, ServerStates
<1>6. q \in QueryType
  BY <1>4 DEF QueryType, Kinds
<1>7. QueryOK(q, new, Answers(q.command))
  BY <1>4 DEF QueryOK, Unused
<1>8. ASSUME NEW d \in Callers, query[d].conn = k PROVE FALSE
  <2>1. /\ query[d].step \in {"Connect", "Send", "Length", "Data"}
        /\ QueryOK(query[d], conn[k], Answers(query[d].command))
    BY <1>8, InvFacts
  <2>2. conn[k].helper = "None" /\ conn[k].client = "Closed"
    BY <1>1 DEF Free
  <2> QED
    BY <2>1, <2>2 DEF QueryOK
<1>9. new.server = conn[k].server /\ new.helper = "Connecting" /\ new.server = "Closed"
  BY <1>1, <1>4 DEF Free
<1>10. q.step # "Idle" /\ q.conn = k /\ q.conn # 0
  BY <1>4, ClientAssumption
<1>11. UNCHANGED serverVars
  BY DEF StartQuery
<1>12. conn' = [conn EXCEPT ![k] = new] /\ query' = [query EXCEPT ![c] = q]
  BY <1>4
<1>13. \A d \in Callers : query[d].conn = k => d = c
  BY <1>8
<1>14. new.server = conn[k].server /\ (new.helper = "Connecting" => new.server = "Closed")
  BY <1>9
<1>15. q.conn \in {0, k} /\ (q.step = "Idle" <=> q.conn = 0)
  BY <1>10
<1> QED
  BY <1>5, <1>6, <1>7, <1>11, <1>12, <1>13, <1>14, <1>15, CallerStep

LEMMA ConnectedOK ==
  ASSUME ReplyInv, NEW c \in Callers, ReceiveConnection(c)
  PROVE  ReplyInv'
<1>1. query[c].step = "Connect"
  BY DEF ReceiveConnection, At
<1>2. PICK k \in Conns : k = query[c].conn
  BY <1>1 DEF ReplyInv, Typed, QueryType, OwnInv
<1>3. conn[k] \in ConnType /\ query[c] \in QueryType
      /\ QueryOK(query[c], conn[k], Answers(query[c].command))
  BY <1>2, InvFacts
<1>4. conn[k].helper = "Connected" /\ UNCHANGED serverVars
  BY <1>2 DEF ReceiveConnection, Own
<1>5. PICK new : new = [conn[k] EXCEPT !.helper = "None"]
  OBVIOUS
<1>6. conn' = [conn EXCEPT ![k] = new]
  BY <1>2, <1>5 DEF ReceiveConnection
<1>7. /\ new.helper = "None" /\ new.client = conn[k].client /\ new.server = conn[k].server
      /\ new.request = conn[k].request /\ new.pending = conn[k].pending
      /\ new.wire = conn[k].wire
  BY <1>3, <1>5 DEF ConnType
<1>8. new \in ConnType
  BY <1>3, <1>5 DEF ConnType
<1>9. PICK q : q = [query[c] EXCEPT !.step = "Send", !.wait = 0]
  OBVIOUS
<1>10. query' = [query EXCEPT ![c] = q]
  BY <1>9 DEF ReceiveConnection, Proceed, ReplyInv, Typed
<1>11. /\ q.step = "Send" /\ q.command = query[c].command /\ q.conn = k /\ q.want = query[c].want
       /\ q.got = query[c].got /\ q.result = query[c].result
  BY <1>2, <1>3, <1>9 DEF QueryType
<1>12. q \in QueryType
  BY <1>3, <1>9 DEF QueryType
<1>13. QueryOK(q, new, Answers(q.command))
  BY <1>1, <1>3, <1>4, <1>7, <1>11 DEF QueryOK, Unused
<1>14. \A d \in Callers : query[d].conn = k => d = c
  BY <1>2, InvFacts
<1>15. q.step # "Idle" /\ q.conn # 0 /\ new.helper # "Connecting"
  BY <1>7, <1>11, ClientAssumption
<1> QED
  BY <1>4, <1>6, <1>7, <1>8, <1>10, <1>11, <1>12, <1>13, <1>14, <1>15, CallerStep

LEMMA SendOK ==
  ASSUME ReplyInv, NEW c \in Callers, send_command_stream(c)
  PROVE  ReplyInv'
<1>1. query[c].step = "Send"
  BY DEF send_command_stream, At
<1>2. PICK k \in Conns : k = query[c].conn
  BY <1>1 DEF ReplyInv, Typed, QueryType, OwnInv
<1>3. conn[k] \in ConnType /\ query[c] \in QueryType
      /\ QueryOK(query[c], conn[k], Answers(query[c].command))
      /\ Answers(query[c].command) # {} /\ Answers(query[c].command) \subseteq Seq(Nat)
  BY <1>2, InvFacts
<1>4. /\ "InvalidInput" \in Kinds /\ "BrokenPipe" \in Kinds /\ <<>> \in Seq(Nat)
  BY DEF Kinds
<1>5. CASE Finish(c, "InvalidInput", <<>>) \/ Finish(c, "BrokenPipe", <<>>)
  BY <1>1, <1>4, <1>5, FinishOK
<1>6. CASE /\ Own(c).server # "Closed"
           /\ conn' = [conn EXCEPT ![query[c].conn].request = <<query[c].command>>]
           /\ Proceed(c, "Length") /\ UNCHANGED serverVars
  <2>1. PICK request : request = <<query[c].command>>
    OBVIOUS
  <2>2. request \in Seq(Commands)
    BY <1>3, <2>1 DEF QueryType
  <2>3. PICK new : new = [conn[k] EXCEPT !.request = request]
    OBVIOUS
  <2>4. conn' = [conn EXCEPT ![k] = new]
    BY <1>2, <1>6, <2>1, <2>3
  <2>5. /\ new.request = request /\ new.helper = conn[k].helper /\ new.client = conn[k].client
        /\ new.server = conn[k].server /\ new.pending = conn[k].pending
        /\ new.wire = conn[k].wire
    BY <1>3, <2>3 DEF ConnType
  <2>6. new \in ConnType
    BY <1>3, <2>2, <2>3 DEF ConnType
  <2>7. PICK q : q = [query[c] EXCEPT !.step = "Length", !.wait = 0]
    OBVIOUS
  <2>8. query' = [query EXCEPT ![c] = q]
    BY <1>6, <2>7 DEF Proceed, ReplyInv, Typed
  <2>9. /\ q.step = "Length" /\ q.command = query[c].command /\ q.conn = k
        /\ q.want = query[c].want /\ q.got = query[c].got /\ q.result = query[c].result
    BY <1>2, <1>3, <2>7 DEF QueryType
  <2>10. q \in QueryType
    BY <1>3, <2>7 DEF QueryType
  <2>11. new.wire = <<>> /\ new.pending = <<>> /\ new.client = "Open" /\ new.helper = "None"
    BY <1>1, <1>3, <2>5 DEF QueryOK, Unused
  <2>12. PICK content \in Answers(q.command) : content \in Seq(Nat)
    BY <1>3, <2>9
  <2>13. Carries(new, Frame(content), 0)
    <3>1. Frame(content) \in Seq(Nat) /\ 0 <= Len(Frame(content))
      BY <2>12, FrameFacts
    <3>2. Fits(<<>>, Frame(content), 0) /\ 0 + Len(<<>>) = 0
      BY <3>1, NothingFits
    <3> QED
      BY <2>11, <3>2 DEF Carries
  <2>14. QueryOK(q, new, Answers(q.command))
    BY <1>1, <1>3, <2>1, <2>5, <2>9, <2>11, <2>12, <2>13 DEF QueryOK
  <2>15. \A d \in Callers : query[d].conn = k => d = c
    BY <1>2, InvFacts
  <2>16. q.step # "Idle" /\ q.conn # 0 /\ new.helper # "Connecting"
    BY <2>9, <2>11, ClientAssumption
  <2>17. UNCHANGED serverVars /\ new.server = conn[k].server /\ q.conn \in {0, k}
    BY <1>6, <2>5, <2>9
  <2> QED
    BY <2>4, <2>6, <2>8, <2>10, <2>14, <2>15, <2>16, <2>17, CallerStep
<1> QED
  BY <1>5, <1>6 DEF send_command_stream

\* The length announces one of the answers, and the rest of that answer follows.
LEMMA LengthOK ==
  ASSUME ReplyInv, NEW c \in Callers, ReceiveLength(c)
  PROVE  ReplyInv'
<1>1. query[c].step = "Length"
  BY DEF ReceiveLength, At
<1>2. PICK k \in Conns : k = query[c].conn
  BY <1>1 DEF ReplyInv, Typed, QueryType, OwnInv
<1>3. conn[k] \in ConnType /\ query[c] \in QueryType
      /\ QueryOK(query[c], conn[k], Answers(query[c].command))
      /\ Answers(query[c].command) \subseteq Seq(Nat)
  BY <1>2, InvFacts
<1>4. PICK wire \in Seq(Nat) : wire = conn[k].wire
  BY <1>3 DEF ConnType
<1>5. wire # <<>> /\ Head(wire) \in Nat
  <2>1. wire # <<>>
    BY <1>2, <1>4 DEF ReceiveLength, Own
  <2> QED
    BY <2>1
<1> DEFINE reply_len == Head(wire)
<1>6. "InvalidData" \in Kinds /\ <<>> \in Seq(Nat)
  BY DEF Kinds
<1>7. CASE Finish(c, "InvalidData", <<>>)
  BY <1>1, <1>6, <1>7, FinishOK
<1>8. CASE /\ ~(reply_len = 0 \/ reply_len > MAX_REPLY_LEN)
           /\ conn' = [conn EXCEPT ![query[c].conn].wire = Tail(@)]
           /\ query' = [query EXCEPT ![c].step = "Data", ![c].wait = 0, ![c].want = reply_len]
           /\ UNCHANGED serverVars
  <2>1. PICK content \in Answers(query[c].command) : Carries(conn[k], Frame(content), 0)
    BY <1>1, <1>3 DEF QueryOK
  <2>2. content \in Seq(Nat)
    BY <1>3
  <2>3. PICK frame \in Seq(Nat) : frame = Frame(content) /\ frame[1] = Len(content) + 1
    BY <2>2, FrameFacts
  <2>4. Fits(wire, frame, 0) /\ Fits(conn[k].pending, frame, 0 + Len(wire))
    BY <1>4, <2>1, <2>3 DEF Carries
  <2>5. /\ Head(wire) = frame[0 + 1] /\ Tail(wire) \in Seq(Nat) /\ Len(Tail(wire)) + 1 = Len(wire)
        /\ Fits(Tail(wire), frame, 0 + 1)
        /\ 0 + 1 <= Len(frame)
    BY <1>5, <2>4, RestFits
  <2>6. reply_len = Len(content) + 1
    BY <1>5, <2>3, <2>5
  <2>7. 0 + 1 = 1 /\ 0 + Len(wire) = 1 + Len(Tail(wire)) /\ 1 <= Len(frame)
    <3>1. PICK n \in Nat : n = Len(Tail(wire))
      <4>1. PICK rest \in Seq(Nat) : rest = Tail(wire)
        BY <2>5
      <4>2. Len(rest) \in Nat
        OBVIOUS
      <4> QED
        BY <4>1, <4>2
    <3>2. Len(wire) = n + 1 /\ Len(frame) \in Nat
      BY <2>5, <3>1
    <3> QED
      BY <2>5, <3>1, <3>2
  <2>8. PICK new : new = [conn[k] EXCEPT !.wire = Tail(wire)]
    OBVIOUS
  <2>9. conn' = [conn EXCEPT ![k] = new]
    BY <1>2, <1>4, <1>8, <2>8
  <2>10. /\ new.wire = Tail(wire) /\ new.helper = conn[k].helper /\ new.client = conn[k].client
         /\ new.server = conn[k].server /\ new.pending = conn[k].pending
    BY <1>3, <2>8 DEF ConnType
  <2>11. new \in ConnType
    BY <1>3, <2>5, <2>8 DEF ConnType
  <2>12. PICK q : q = [query[c] EXCEPT !.step = "Data", !.wait = 0, !.want = reply_len]
    OBVIOUS
  <2>13. query' = [query EXCEPT ![c] = q]
    BY <1>8, <2>12 DEF ReplyInv, Typed
  <2>14. /\ q.step = "Data" /\ q.command = query[c].command /\ q.conn = k /\ q.want = reply_len
         /\ q.got = query[c].got /\ q.result = query[c].result
    BY <1>2, <1>3, <2>12 DEF QueryType
  <2>15. q \in QueryType
    BY <1>3, <1>5, <2>12 DEF QueryType
  <2>16. q.got = <<>> /\ Len(q.got) = 0 /\ 1 + Len(q.got) = 1
    BY <1>1, <1>3, <2>14 DEF QueryOK
  <2>17. /\ Carries(new, frame, 1 + Len(q.got)) /\ Fits(q.got, frame, 1)
    BY <2>4, <2>5, <2>7, <2>10, <2>16, NothingFits DEF Carries
  <2>18. Len(q.got) < q.want /\ q.want <= MAX_REPLY_LEN
    BY <1>5, <1>8, <2>14, <2>16, ClientAssumption
  <2>19. /\ new.server \notin {"Queued", "Reading"} /\ new.client = "Open" /\ new.helper = "None"
    BY <1>1, <1>3, <1>4, <1>5, <2>10 DEF QueryOK
  <2>20. q.result.kind = "Ok" =>
           \E text \in Answers(q.command) : IsTextOf(q.result.text, text)
    BY <1>3, <2>14 DEF QueryOK
  <2>21. QueryOK(q, new, Answers(q.command))
    BY <2>3, <2>6, <2>14, <2>17, <2>18, <2>19, <2>20 DEF QueryOK
  <2>22. \A d \in Callers : query[d].conn = k => d = c
    BY <1>2, InvFacts
  <2>23. q.step # "Idle" /\ q.conn # 0 /\ new.helper # "Connecting"
    BY <2>14, <2>19, ClientAssumption
  <2>24. UNCHANGED serverVars /\ new.server = conn[k].server /\ q.conn \in {0, k}
    BY <1>8, <2>10, <2>14
  <2> QED
    BY <2>9, <2>11, <2>13, <2>15, <2>21, <2>22, <2>23, <2>24, CallerStep
<1> QED
  BY <1>2, <1>4, <1>5, <1>7, <1>8 DEF ReceiveLength, Own

\* A part that has come continues the answer, and the last one completes its text.
LEMMA DataOK ==
  ASSUME ReplyInv, NEW c \in Callers, ReceiveData(c)
  PROVE  ReplyInv'
<1>1. query[c].step = "Data"
  BY DEF ReceiveData, At
<1>2. PICK k \in Conns : k = query[c].conn
  BY <1>1 DEF ReplyInv, Typed, QueryType, OwnInv
<1>3. conn[k] \in ConnType /\ query[c] \in QueryType
      /\ QueryOK(query[c], conn[k], Answers(query[c].command))
      /\ Answers(query[c].command) \subseteq Seq(Nat)
  BY <1>2, InvFacts
<1>4. PICK wire \in Seq(Nat) : wire = conn[k].wire
  BY <1>3 DEF ConnType
<1>5. PICK before \in Seq(Nat) : before = query[c].got
  BY <1>3 DEF QueryType
<1>6. PICK content \in Answers(query[c].command) :
        /\ Carries(conn[k], Frame(content), 1 + Len(before))
        /\ Fits(before, Frame(content), 1) /\ query[c].want = Len(content) + 1
  BY <1>1, <1>3, <1>5 DEF QueryOK
<1>7. content \in Seq(Nat)
  BY <1>3
<1>8. PICK frame \in Seq(Nat) : frame = Frame(content)
  BY <1>7, FrameFacts
<1>9. PICK n \in Nat : n = Len(before)
  OBVIOUS
<1>10. wire # <<>>
  BY <1>2, <1>4 DEF ReceiveData, Own
<1>11. PICK e : e = Head(wire)
  OBVIOUS
<1>12. e \in Nat
  BY <1>10, <1>11
<1>13. PICK m \in Nat : m = 1 + n
  OBVIOUS
<1>14. Fits(wire, frame, m) /\ Fits(conn[k].pending, frame, m + Len(wire))
  BY <1>4, <1>6, <1>8, <1>9, <1>13 DEF Carries
<1>15. PICK rest \in Seq(Nat) : rest = Tail(wire)
  BY <1>10, <1>14, RestFits
<1>16. /\ e = frame[m + 1] /\ m + 1 <= Len(frame)
       /\ Len(rest) + 1 = Len(wire) /\ Fits(rest, frame, m + 1)
  BY <1>10, <1>11, <1>14, <1>15, RestFits
<1>17. PICK got : got = Append(before, e)
  OBVIOUS
<1>18. got \in Seq(Nat) /\ Len(got) = n + 1 /\ Fits(got, frame, 1)
  <2>1. 1 + Len(before) + 1 = m + 1
    BY <1>9, <1>13
  <2>2. Fits(before, frame, 1)
    BY <1>6, <1>8
  <2> QED
    BY <1>9, <1>12, <1>16, <1>17, <2>1, <2>2, MoreFits
<1>19. got = Append(query[c].got, Head(Own(c).wire))
  BY <1>2, <1>4, <1>5, <1>11, <1>17 DEF Own
<1>20. PICK want \in Nat : want = query[c].want
  BY <1>3 DEF QueryType
<1>21. n < want /\ want <= MAX_REPLY_LEN
  BY <1>1, <1>3, <1>5, <1>9, <1>20 DEF QueryOK
<1>22. CASE Len(got) = want /\ FinishDecoded(c, got)
  <2>1. Decoded(got) \in Seq(Nat) /\ IsTextOf(Decoded(got), content)
    BY <1>6, <1>7, <1>8, <1>18, <1>20, <1>22, DecodedIsText
  <2>2. "InvalidData" \in Kinds /\ "Ok" \in Kinds /\ <<>> \in Seq(Nat)
    BY DEF Kinds
  <2>3. CASE Finish(c, "InvalidData", <<>>)
    BY <1>1, <2>2, <2>3, FinishOK
  <2>4. CASE Finish(c, "Ok", Decoded(got))
    BY <1>1, <2>1, <2>2, <2>4, FinishOK
  <2> QED
    BY <1>22, <2>3, <2>4 DEF FinishDecoded
<1>23. CASE /\ Len(got) # want
            /\ conn' = [conn EXCEPT ![query[c].conn].wire = Tail(@)]
            /\ query' = [query EXCEPT ![c].got = got, ![c].wait = 0]
            /\ UNCHANGED serverVars
  <2>1. PICK new : new = [conn[k] EXCEPT !.wire = rest]
    OBVIOUS
  <2>2. conn' = [conn EXCEPT ![k] = new]
    BY <1>2, <1>4, <1>15, <1>23, <2>1
  <2>3. /\ new.wire = rest /\ new.helper = conn[k].helper /\ new.client = conn[k].client
        /\ new.server = conn[k].server /\ new.pending = conn[k].pending
    BY <1>3, <2>1 DEF ConnType
  <2>4. new \in ConnType
    BY <1>3, <2>1 DEF ConnType
  <2>5. PICK q : q = [query[c] EXCEPT !.got = got, !.wait = 0]
    OBVIOUS
  <2>6. query' = [query EXCEPT ![c] = q]
    BY <1>23, <2>5 DEF ReplyInv, Typed
  <2>7. /\ q.step = "Data" /\ q.command = query[c].command /\ q.conn = k /\ q.want = want
        /\ q.got = got /\ q.result = query[c].result
    BY <1>1, <1>2, <1>3, <1>20, <2>5 DEF QueryType
  <2>8. q \in QueryType
    BY <1>3, <1>18, <2>5 DEF QueryType
  <2>9. 1 + Len(got) = m + 1 /\ m + Len(wire) = (m + 1) + Len(rest)
    <3>1. PICK r \in Nat : r = Len(rest)
      OBVIOUS
    <3>2. Len(wire) = r + 1
      BY <1>16, <3>1
    <3> QED
      BY <1>13, <1>18, <3>1, <3>2
  <2>10. Carries(new, frame, 1 + Len(got))
    BY <1>14, <1>16, <2>3, <2>9 DEF Carries
  <2>11. Len(got) < want
    BY <1>18, <1>21, <1>23
  <2>12. /\ new.server \notin {"Queued", "Reading"} /\ new.client = "Open" /\ new.helper = "None"
    BY <1>1, <1>3, <2>3 DEF QueryOK
  <2>13. q.result.kind = "Ok" =>
           \E text \in Answers(q.command) : IsTextOf(q.result.text, text)
    BY <1>3, <2>7 DEF QueryOK
  <2>14. content \in Answers(q.command) /\ q.want = Len(content) + 1
    BY <1>6, <1>20, <2>7
  <2>15. QueryOK(q, new, Answers(q.command))
    BY <1>8, <1>18, <1>21, <2>7, <2>10, <2>11, <2>12, <2>13, <2>14 DEF QueryOK
  <2>16. \A d \in Callers : query[d].conn = k => d = c
    BY <1>2, InvFacts
  <2>17. q.step # "Idle" /\ q.conn # 0 /\ new.helper # "Connecting"
    BY <2>7, <2>12, ClientAssumption
  <2>18. UNCHANGED serverVars /\ new.server = conn[k].server /\ q.conn \in {0, k}
    BY <1>23, <2>3, <2>7
  <2> QED
    BY <2>2, <2>4, <2>6, <2>8, <2>15, <2>16, <2>17, <2>18, CallerStep
<1> QED
  BY <1>19, <1>20, <1>22, <1>23 DEF ReceiveData

\* Time passes for those who wait.
LEMMA WaitOK ==
  ASSUME ReplyInv, Tick
  PROVE  ReplyInv'
<1>1. /\ DOMAIN query' = Callers /\ UNCHANGED <<mode, dataVars, backlog, conn>>
      /\ \A c \in Callers : query'[c] = IF Blocked(c)
           THEN [query[c] EXCEPT !.wait = @ + 1, !.spent = @ + 1] ELSE query[c]
  BY DEF Tick, serverVars
<1>2. ASSUME NEW c \in Callers
      PROVE  /\ query'[c] \in QueryType
             /\ query'[c].step = query[c].step /\ query'[c].command = query[c].command
             /\ query'[c].conn = query[c].conn /\ query'[c].want = query[c].want
             /\ query'[c].got = query[c].got /\ query'[c].result = query[c].result
  <2>1. query[c] \in QueryType
    BY InvFacts
  <2>2. CASE ~Blocked(c)
    BY <1>1, <2>1, <2>2
  <2>3. CASE Blocked(c)
    <3>1. PICK wait \in Nat : wait = query[c].wait + 1
      BY <2>1 DEF QueryType
    <3>2. PICK spent \in Nat : spent = query[c].spent + 1
      BY <2>1 DEF QueryType
    <3>3. query'[c] = [query[c] EXCEPT !.wait = wait, !.spent = spent]
      BY <1>1, <2>3, <3>1, <3>2
    <3>4. query'[c] \in QueryType
      BY <2>1, <3>3 DEF QueryType
    <3> QED
      BY <2>1, <3>3, <3>4 DEF QueryType
  <2> QED
    BY <2>2, <2>3
<1>3. Typed'
  <2>1. query' \in [Callers -> QueryType]
    <3>1. query' = [c \in Callers |-> query'[c]]
      BY DEF Tick
    <3> QED
      BY <1>2, <3>1
  <2> QED
    BY <1>1, <2>1 DEF ReplyInv, Typed
<1>4. LoadedInv'
  BY <1>1, LoadedPrime DEF ReplyInv
<1>5. BacklogInv'
  BY <1>1 DEF ReplyInv, BacklogInv, Distinct
<1>6. OwnInv'
  BY <1>2 DEF ReplyInv, OwnInv
<1>7. ASSUME NEW c \in Callers
      PROVE  QueryOK(query'[c], conn[query'[c].conn], Answers(query'[c].command))
  <2>1. QueryOK(query[c], conn[query[c].conn], Answers(query[c].command))
    BY InvFacts
  <2> QED
    BY <1>2, <2>1 DEF QueryOK
<1>8. QueryInv'
  BY <1>1, <1>7, QueryPrime DEF dataVars
<1> QED
  BY <1>3, <1>4, <1>5, <1>6, <1>8 DEF ReplyInv

LEMMA FullInit == ClientInit => FullInv
<1> SUFFICES ASSUME ClientInit PROVE FullInv
  OBVIOUS
<1>1. LoadedInv /\ RotationInv
  BY RotationInit DEF ClientInit
<1>2. /\ mode \in {"Normal", "Hang", "Unresponsive"} /\ backlog = <<>>
      /\ conn = [k \in Conns |-> NoConn] /\ query = [c \in Callers |-> Idle]
  BY DEF ClientInit, ServerInit
<1>3. NoConn \in ConnType /\ NoConn.helper = "None"
  BY DEF NoConn, ConnType, ServerStates
<1>4. Idle = [step |-> "Idle", command |-> ShowMaps, conn |-> 0, want |-> 0, got |-> <<>>,
              wait |-> 0, spent |-> 0, result |-> [kind |-> "None", text |-> <<>>]]
  BY DEF Idle, NoResult
<1>5. Idle \in QueryType
  <2>1. ShowMaps \in Commands
    BY MockAssumption
  <2> QED
    BY <1>4, <2>1 DEF QueryType, Kinds
<1>6. Typed
  <2>1. <<>> \in Seq(Conns) /\ Len(<<>>) <= BACKLOG
    BY MockAssumption
  <2> QED
    BY <1>2, <1>3, <1>5, <2>1 DEF Typed
<1>7. BacklogInv
  BY <1>2, <1>3 DEF BacklogInv, Distinct
<1>8. OwnInv
  BY <1>2, <1>4 DEF OwnInv
<1>9. QueryInv
  <2> SUFFICES ASSUME NEW c \in Callers
               PROVE  QueryOK(query[c], conn[query[c].conn], Answers(query[c].command))
    BY DEF QueryInv
  <2>1. query[c] = Idle
    BY <1>2
  <2> QED
    BY <1>4, <2>1 DEF QueryOK
<1> QED
  BY <1>1, <1>6, <1>7, <1>8, <1>9 DEF FullInv, ReplyInv

LEMMA FullStep == FullInv /\ [ClientNext]_clientVars => FullInv'
<1> SUFFICES ASSUME FullInv, [ClientNext]_clientVars PROVE FullInv'
  OBVIOUS
<1>1. ReplyInv /\ RotationInv /\ LoadedInv
  BY DEF FullInv, ReplyInv
<1>2. RotationInv'
  BY <1>1, RotationStep
<1>3. "ConnectionRefused" \in Kinds /\ "TimedOut" \in Kinds /\ "ConnectionReset" \in Kinds
      /\ <<>> \in Seq(Nat)
  BY DEF Kinds
<1>4. ASSUME NEW c \in Callers, Call(c) PROVE ReplyInv'
  <2>1. CASE ReceiveConnection(c)
    BY <1>1, <2>1, ConnectedOK
  <2>2. CASE ConnectFails(c)
    BY <1>1, <1>3, <2>2, FinishOK DEF ConnectFails, At
  <2>3. CASE send_command_stream(c)
    BY <1>1, <2>3, SendOK
  <2>4. CASE ReceiveLength(c)
    BY <1>1, <2>4, LengthOK
  <2>5. CASE ReceiveData(c)
    BY <1>1, <2>5, DataOK
  <2>6. CASE ReceiveFails(c)
    BY <1>1, <1>3, <2>6, FinishOK DEF ReceiveFails, Receiving
  <2> QED
    BY <1>4, <2>1, <2>2, <2>3, <2>4, <2>5, <2>6 DEF Call
<1>5. ASSUME NEW c \in Callers, NEW command \in Commands, StartQuery(c, command) PROVE ReplyInv'
  BY <1>1, <1>5, StartOK
<1>6. ASSUME NEW k \in Conns, Help(k) PROVE ReplyInv'
  BY <1>1, <1>6, HelperStep, RefusedStep DEF Help
<1>7. ASSUME Tick PROVE ReplyInv'
  BY <1>1, <1>7, WaitOK
<1>8. ASSUME ServerStep PROVE ReplyInv'
  <2>1. CASE Accept
    BY <1>1, <1>8, <2>1, AcceptStep DEF ServerStep
  <2>2. CASE Stop
    BY <1>1, <1>8, <2>2, StopStep DEF ServerStep
  <2>3. CASE StartServer
    BY <1>1, <1>8, <2>3, NothingStep DEF ServerStep, StartServer
  <2>4. ASSUME NEW k \in Conns, handle_connection(k) PROVE ReplyInv'
    BY <1>1, <1>8, <2>4, RefuseStep, LookupStep, SendStep, EndStep
       DEF ServerStep, handle_connection
  <2> QED
    BY <1>8, <2>1, <2>2, <2>3, <2>4 DEF ServerStep, Serve
<1>9. ASSUME UNCHANGED clientVars PROVE ReplyInv'
  <2>1. UNCHANGED <<dataVars, backlog, conn, query>> /\ mode' = mode
    BY <1>9 DEF clientVars, serverVars
  <2>2. mode \in {"Down", "Normal", "Hang", "Unresponsive"}
    BY DEF FullInv, ReplyInv, Typed
  <2> QED
    BY <1>1, <2>1, <2>2, NothingStep
<1>10. ReplyInv'
  BY <1>4, <1>5, <1>6, <1>7, <1>8, <1>9 DEF ClientNext
<1> QED
  BY <1>2, <1>10 DEF FullInv

\* Whose request and whose reply are on a connection is known at every time.
THEOREM FullInductive == ClientSpec => []FullInv
<1>1. ClientInit => FullInv
  BY FullInit
<1>2. FullInv /\ [ClientNext]_clientVars => FullInv'
  BY FullStep
<1>3. ClientSpec => ClientInit /\ [][ClientNext]_clientVars
  BY PTL DEF ClientSpec
<1> QED
  BY <1>1, <1>2, <1>3, PTL

\* A reply is the whole text of an answer to the caller's own command, whatever the
\* server did meanwhile and whatever earlier queries have left behind.
THEOREM RepliesCorrect == ClientSpec => []ReplyIsFaithful
<1>1. FullInv => ReplyIsFaithful
  <2> SUFFICES ASSUME FullInv, NEW c \in Callers, query[c].result.kind = "Ok"
               PROVE  \E content \in Answers(query[c].command) :
                        IsTextOf(query[c].result.text, content)
    BY DEF ReplyIsFaithful, Answers
  <2>1. QueryOK(query[c], conn[query[c].conn], Answers(query[c].command))
    BY InvFacts DEF FullInv
  <2> QED
    BY <2>1 DEF QueryOK
<1> QED
  BY <1>1, FullInductive, PTL

\* The index of the next file stays inside the list, the backlog inside its bound and what
\* has been received inside the announced length.
THEOREM TypesCorrect == ClientSpec => []ClientTypeOK
<1>1. FullInv => ClientTypeOK
  <2> SUFFICES ASSUME FullInv PROVE ClientTypeOK
    OBVIOUS
  <2>1. mode \in {"Down", "Normal", "Hang", "Unresponsive"} /\ setup \in Setups
        /\ Len(backlog) <= BACKLOG
    BY DEF FullInv, ReplyInv, Typed, LoadedInv
  <2>2. ASSUME NEW c \in Known PROVE indices[c] < Max({Len(command_responses[c]), 1})
    <3>1. PICK L \in Nat : L = Len(command_responses[c])
      BY LoadedContents DEF FullInv, ReplyInv
    <3>2. PICK i \in Nat : i = indices[c]
      BY DEF FullInv, RotationInv
    <3>3. i < IF L = 0 THEN 1 ELSE L
      <4>1. RotationOK(i, picks[c], command_responses[c])
        BY <3>2 DEF FullInv, RotationInv
      <4>2. command_responses[c] = <<>> => L = 0
        BY <3>1
      <4> QED
        BY <3>1, <4>1, <4>2 DEF RotationOK
    <3>4. Max({L, 1}) = IF L = 0 THEN 1 ELSE L
      <4>1. PICK m \in {L, 1} : \A y \in {L, 1} : y <= m
        OBVIOUS
      <4>2. Max({L, 1}) \in {L, 1} /\ \A y \in {L, 1} : y <= Max({L, 1})
        BY <4>1 DEF Max
      <4> QED
        BY <4>2
    <3> QED
      BY <3>1, <3>2, <3>3, <3>4
  <2>3. Range(backlog) \subseteq Conns
    BY DEF FullInv, ReplyInv, Typed, Range
  <2>4. ASSUME NEW k \in Conns
        PROVE  /\ conn[k].helper \in {"None", "Connecting", "Connected", "Refused"}
               /\ conn[k].client \in {"Open", "Closed"}
               /\ conn[k].server \in ServerStates
               /\ conn[k].request \in Seq(Commands)
               /\ conn[k].pending \in Seq(Nat) /\ conn[k].wire \in Seq(Nat)
    BY InvFacts DEF FullInv, ConnType
  <2>5. ASSUME NEW c \in Callers
        PROVE  /\ query[c].step \in {"Idle", "Connect", "Send", "Length", "Data"}
               /\ query[c].command \in Commands
               /\ query[c].conn \in Conns \cup {0}
               /\ query[c].want \in 0 .. MAX_REPLY_LEN
               /\ Len(query[c].got) <= query[c].want
    <3>1. /\ query[c] \in QueryType
          /\ QueryOK(query[c], conn[query[c].conn], Answers(query[c].command))
      BY InvFacts DEF FullInv
    <3>2. PICK got \in Seq(Nat) : got = query[c].got
      BY <3>1 DEF QueryType
    <3>3. PICK want \in Nat : want = query[c].want
      BY <3>1 DEF QueryType
    <3>4. CASE query[c].step = "Data"
      <4>1. Len(got) < want /\ want <= MAX_REPLY_LEN
        BY <3>1, <3>2, <3>3, <3>4 DEF QueryOK
      <4> QED
        BY <3>1, <3>2, <3>3, <4>1, ClientAssumption DEF QueryType
    <3>5. CASE query[c].step # "Data"
      <4>1. got = <<>> /\ want = 0
        BY <3>1, <3>2, <3>3, <3>5 DEF QueryOK
      <4> QED
        BY <3>1, <3>2, <3>3, <4>1, ClientAssumption DEF QueryType
    <3> QED
      BY <3>4, <3>5
  <2> QED
    BY <2>1, <2>2, <2>3, <2>4, <2>5 DEF ClientTypeOK
<1> QED
  BY <1>1, FullInductive, PTL

\* Test data in which no two files have the same contents, and no command has a file twice.
Unambiguous(s) == Distinct(s.files) /\ \A c \in DOMAIN s.map : Distinct(s.map[c])

\* A round serves each file of a command once and begins with the default file, for any
\* unambiguous test data: in other data contents do not tell which file was served.
THEOREM RotationCorrect ==
  ASSUME \A s \in Setups : Unambiguous(s)
  PROVE  ClientSpec => []RotationIsComplete
<1>1. FullInv => RotationIsComplete
  <2> SUFFICES ASSUME FullInv, NEW c \in Known
               PROVE  LET served == Range(picks[c])
                          default == [dir |-> c, name |-> setup.default[c]]
                      IN  /\ Cardinality(served) = Len(picks[c])
                          /\ served \subseteq TestContents(c)
                          /\ picks[c] # <<>> /\ Len(picks[c]) < Cardinality(TestContents(c))
                               /\ c \notin DOMAIN setup.map /\ default \in DOMAIN setup.files
                             => picks[c][1] = setup.files[default]
    BY DEF RotationIsComplete
  <2>1. PICK files : files = command_responses[c]
    OBVIOUS
  <2>2. setup \in Setups /\ files = Responses(c)
    BY <2>1 DEF FullInv, ReplyInv, LoadedInv
  <2>3. /\ files \in Seq(Seq(Nat)) /\ Range(files) = TestContents(c) /\ Distinct(files)
        /\ c \notin DOMAIN setup.map /\ DefaultFile(c) \in DOMAIN setup.files =>
             files # <<>> /\ files[1] = setup.files[DefaultFile(c)]
    BY <2>2, ResponsesFacts DEF Unambiguous
  <2>4. PICK seen \in Seq(Seq(Nat)) : seen = picks[c]
    BY DEF FullInv, RotationInv
  <2>5. PICK i \in Nat : i = indices[c]
    BY DEF FullInv, RotationInv
  <2>6. RotationOK(i, seen, files)
    BY <2>1, <2>4, <2>5 DEF FullInv, RotationInv
  <2>7. Cardinality(Range(seen)) = Len(seen) /\ Range(seen) \subseteq Range(files)
    BY <2>3, <2>6, RoundIsDistinct
  <2>8. ASSUME seen # <<>>, Len(seen) < Cardinality(TestContents(c)),
               c \notin DOMAIN setup.map, DefaultFile(c) \in DOMAIN setup.files
        PROVE  seen[1] = setup.files[DefaultFile(c)]
    <3>1. Cardinality(Range(files)) = Len(files)
      BY <2>3, DistinctSize
    <3>2. Len(seen) < Len(files)
      BY <2>3, <2>8, <3>1
    <3>3. \A j \in 1 .. Len(seen) : seen[j] = files[j]
      BY <2>6, <3>2 DEF RotationOK
    <3>4. 1 \in 1 .. Len(seen)
      BY <2>8, EmptySeq
    <3> QED
      BY <2>3, <2>8, <3>3, <3>4
  <2> QED
    BY <2>3, <2>4, <2>7, <2>8 DEF DefaultFile
<1> QED
  BY <1>1, FullInductive, PTL
=============================================================================
