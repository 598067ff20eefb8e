---------------------------- MODULE MpathClient -----------------------------
(***************************************************************************)
(* send_multipath_command_to_socket: a query on a connection of its own,   *)
(* made by a helper thread that the caller waits for with a timeout and    *)
(* abandons when it is late; then the command, and a reply that is read    *)
(* with a timeout for every part of it.                                    *)
(***************************************************************************)
EXTENDS MpathMockd

CONSTANTS
  Callers,          \* the threads and programs that make queries
  WithNul,          \* the commands with a NUL inside
  Invalid,          \* the bytes that are not UTF-8
  MAX_REPLY_LEN,
  CONNECT_TIMEOUT,  \* DEFAULT_CONNECT_TIMEOUT_MS, in ticks
  REPLY_TIMEOUT     \* DEFAULT_REPLY_TIMEOUT_MS, in ticks

ASSUME ClientAssumption ==
  /\ WithNul \subseteq Commands
  /\ MAX_REPLY_LEN \in Nat \ {0}
  /\ CONNECT_TIMEOUT \in Nat /\ REPLY_TIMEOUT \in Nat
  /\ Conns \subseteq Nat \ {0}

VARIABLE query  \* what each caller is doing, and the result of its latest query

clientVars == <<serverVars, conn, query>>

NoResult == [kind |-> "None", text |-> <<>>]

Idle == [step |-> "Idle", command |-> ShowMaps, conn |-> 0, want |-> 0, got |-> <<>>,
         wait |-> 0, spent |-> 0, result |-> NoResult]

ClientTypeOK ==
  /\ mode \in {"Down", "Normal", "Hang", "Unresponsive"}
  /\ setup \in Setups
  /\ \A c \in Known : indices[c] < Max({Len(command_responses[c]), 1})
  /\ Range(backlog) \subseteq Conns /\ Len(backlog) <= BACKLOG
  /\ \A k \in Conns :
       /\ conn[k].helper \in {"None", "Connecting", "Connected", "Refused"}
       /\ conn[k].client \in {"Open", "Closed"}
       /\ conn[k].server \in ServerStates
       /\ conn[k].request \in Seq(Commands)
       /\ conn[k].pending \in Seq(Nat) /\ conn[k].wire \in Seq(Nat)
  /\ \A c \in Callers :
       /\ query[c].step \in {"Idle", "Connect", "Send", "Length", "Data"}
       /\ query[c].command \in Commands
       /\ query[c].conn \in Conns \cup {0}
       /\ query[c].want \in 0 .. MAX_REPLY_LEN
       /\ Len(query[c].got) <= query[c].want

ClientInit ==
  /\ ServerInit
  /\ conn = [k \in Conns |-> NoConn]
  /\ query = [c \in Callers |-> Idle]
-----------------------------------------------------------------------------
Own(c) == conn[query[c].conn]
At(c, step) == query[c].step = step

Free(k) ==
  /\ conn[k].helper = "None"
  /\ conn[k].client = "Closed" /\ conn[k].server = "Closed"

\* The caller goes on; time starts to count anew for the next wait.
Proceed(c, step) == query' = [query EXCEPT ![c].step = step, ![c].wait = 0]

\* The query ends and its connection, if there is one, is dropped.
Finish(c, kind, text) ==
  /\ query' = [query EXCEPT ![c] = [Idle EXCEPT !.command = query[c].command,
                                                !.result = [kind |-> kind, text |-> text]]]
  /\ conn' = [conn EXCEPT ![query[c].conn] =
                [Own(c) EXCEPT !.client = "Closed", !.wire = <<>>,
                               !.helper = IF @ = "Refused" THEN "None" ELSE @]]
  /\ UNCHANGED serverVars

\* A query begins: connect_to_socket starts the helper.
StartQuery(c, command) ==
  /\ At(c, "Idle")
  /\ \E k \in Conns :
       /\ Free(k)
       /\ \A j \in Conns : Free(j) => k <= j
       /\ conn' = [conn EXCEPT ![k] = [NoConn EXCEPT !.helper = "Connecting"]]
       /\ query' = [query EXCEPT ![c] = [Idle EXCEPT !.step = "Connect", !.conn = k,
                                                     !.command = command]]
  /\ UNCHANGED serverVars

\* The receiving end of the helper's channel still exists.
Awaited(k) == \E c \in Callers : query[c].conn = k

\* Mutant: the connection of an abandoned helper stays open.
KeepLateConnection(k) ==
  /\ conn[k].helper = "Connecting"
  /\ mode # "Down"
  /\ Len(backlog) < BACKLOG
  /\ backlog' = Append(backlog, k)
  /\ conn' = [conn EXCEPT ![k].server = "Queued", ![k].client = "Open",
                          ![k].helper = IF Awaited(k) THEN "Connected" ELSE "None"]
  /\ UNCHANGED <<mode, dataVars, indices, picks, query>>

\* The helper connects once the backlog has room.  Nobody receives the connection
\* of an abandoned helper, so it is dropped at once.
HelperConnects(k) ==
  /\ conn[k].helper = "Connecting"
  /\ mode # "Down"
  /\ Len(backlog) < BACKLOG
  /\ backlog' = Append(backlog, k)
  /\ conn' = [conn EXCEPT ![k].server = "Queued",
                          ![k].client = IF Awaited(k) THEN "Open" ELSE "Closed",
                          ![k].helper = IF Awaited(k) THEN "Connected" ELSE "None"]
  /\ UNCHANGED <<mode, dataVars, indices, picks, query>>

HelperRefused(k) ==
  /\ conn[k].helper = "Connecting"
  /\ mode = "Down"
  /\ conn' = [conn EXCEPT ![k].helper = IF Awaited(k) THEN "Refused" ELSE "None"]
  /\ UNCHANGED <<serverVars, query>>

ReceiveConnection(c) ==
  /\ At(c, "Connect")
  /\ Own(c).helper = "Connected"
  /\ conn' = [conn EXCEPT ![query[c].conn].helper = "None"]
  /\ Proceed(c, "Send")
  /\ UNCHANGED serverVars

ConnectFails(c) ==
  /\ At(c, "Connect")
  /\ \/ Own(c).helper = "Refused" /\ Finish(c, "ConnectionRefused", <<>>)
     \/ /\ Own(c).helper = "Connecting" /\ query[c].wait = CONNECT_TIMEOUT
        /\ Finish(c, "TimedOut", <<>>)

send_command_stream(c) ==
  /\ At(c, "Send")
  /\ IF query[c].command \in WithNul THEN Finish(c, "InvalidInput", <<>>)
     ELSE IF Own(c).server = "Closed" THEN Finish(c, "BrokenPipe", <<>>)
     ELSE /\ conn' = [conn EXCEPT ![query[c].conn].request = <<query[c].command>>]
          /\ Proceed(c, "Length")
          /\ UNCHANGED serverVars

ReceiveLength(c) ==
  /\ At(c, "Length")
  /\ Own(c).wire # <<>>
  /\ LET reply_len == Head(Own(c).wire)
     IN  IF reply_len = 0 \/ reply_len > MAX_REPLY_LEN THEN Finish(c, "InvalidData", <<>>)
         ELSE /\ conn' = [conn EXCEPT ![query[c].conn].wire = Tail(@)]
              /\ query' = [query EXCEPT ![c].step = "Data", ![c].wait = 0,
                                        ![c].want = reply_len]
              /\ UNCHANGED serverVars

\* The last byte is overwritten with a NUL and the reply cut off at the first.
Decoded(bytes) ==
  LET terminated == [bytes EXCEPT ![Len(bytes)] = NUL]
  IN  SubSeq(terminated, 1, SelectInSeq(terminated, LAMBDA b : b = NUL) - 1)

FinishDecoded(c, bytes) ==
  IF Range(Decoded(bytes)) \cap Invalid # {} THEN Finish(c, "InvalidData", <<>>)
  ELSE Finish(c, "Ok", Decoded(bytes))

\* Mutant: whatever a single read returns is the reply.
ReceiveSome(c) ==
  /\ At(c, "Data")
  /\ Own(c).wire # <<>>
  /\ FinishDecoded(c, query[c].got \o Own(c).wire)

\* read_exact goes on until it has all the bytes that the length announced.
ReceiveData(c) ==
  /\ At(c, "Data")
  /\ Own(c).wire # <<>>
  /\ LET got == Append(query[c].got, Head(Own(c).wire))
     IN  IF Len(got) = query[c].want THEN FinishDecoded(c, got)
         ELSE /\ conn' = [conn EXCEPT ![query[c].conn].wire = Tail(@)]
              /\ query' = [query EXCEPT ![c].got = got, ![c].wait = 0]
              /\ UNCHANGED serverVars

Receiving(c) == query[c].step \in {"Length", "Data"}

ReceiveFails(c) ==
  /\ Receiving(c)
  /\ Own(c).wire = <<>>
  /\ \/ Own(c).server = "Closed" /\ Finish(c, "ConnectionReset", <<>>)
     \/ /\ Own(c).server # "Closed" /\ query[c].wait = REPLY_TIMEOUT
        /\ Finish(c, "TimedOut", <<>>)

Call(c) ==
  \/ ReceiveConnection(c) \/ ConnectFails(c)
  \/ send_command_stream(c)
  \/ ReceiveLength(c) \/ ReceiveData(c) \/ ReceiveFails(c)

Help(k) == HelperConnects(k) \/ HelperRefused(k)
-----------------------------------------------------------------------------
\* Mutant: the caller waits for the helper without a timeout.
NoConnectLimit(c) == IF At(c, "Connect") THEN CONNECT_TIMEOUT + 1 ELSE REPLY_TIMEOUT

WaitLimit(c) == IF At(c, "Connect") THEN CONNECT_TIMEOUT ELSE REPLY_TIMEOUT

Blocked(c) ==
  \/ At(c, "Connect") /\ Own(c).helper = "Connecting"
  \/ Receiving(c) /\ Own(c).wire = <<>> /\ Own(c).server # "Closed"

\* Time passes while callers wait; one that can go on does so in no time.
Tick ==
  /\ \E c \in Callers : Blocked(c)
  /\ \A c \in Callers : At(c, "Idle") \/ (Blocked(c) /\ query[c].wait < WaitLimit(c))
  /\ query' = [c \in Callers |-> IF Blocked(c)
                 THEN [query[c] EXCEPT !.wait = @ + 1, !.spent = @ + 1] ELSE query[c]]
  /\ UNCHANGED <<serverVars, conn>>

ServerStep == (Serve \/ Stop \/ StartServer) /\ UNCHANGED query

ClientNext ==
  \/ \E c \in Callers : Call(c) \/ \E command \in Commands : StartQuery(c, command)
  \/ \E k \in Conns : Help(k)
  \/ Tick
  \/ ServerStep

\* The threads run, time passes, and the kernel wakes a helper that waits for room
\* in the backlog before others fill it again and again.
ClientSpec ==
  /\ ClientInit /\ [][ClientNext]_clientVars
  /\ \A c \in Callers : WF_clientVars(Call(c))
  /\ \A k \in Conns : SF_clientVars(Help(k))
  /\ WF_clientVars(Tick)
  /\ WF_clientVars(Accept /\ UNCHANGED query)
  /\ \A k \in Conns : WF_clientVars(handle_connection(k) /\ UNCHANGED query)
-----------------------------------------------------------------------------
\* The text of a file: all of it, or what comes before its first NUL.
IsTextOf(text, content) ==
  /\ NUL \notin Range(text)
  /\ IsPrefix(text, content)
  /\ text = content \/ content[Len(text) + 1] = NUL

\* A reply that is given to a caller is the whole text of a file that its own
\* command is answered with: never a part of it, and never what an earlier query,
\* abandoned or timed out, had asked for.
ReplyIsFaithful ==
  \A c \in Callers :
    LET asked == query[c].command
        contents == IF asked \in Known /\ TestContents(asked) # {} THEN TestContents(asked)
                    ELSE TestContents(ShowMaps)
    IN  query[c].result.kind = "Ok" =>
          \E content \in contents : IsTextOf(query[c].result.text, content)

\* A query takes no longer than the connection may and every part of the reply that
\* has come, and the one that it waits for, may.
QueryBounded ==
  \A c \in Callers :
    LET parts == IF At(c, "Data") THEN 1 + Len(query[c].got) ELSE 0
    IN  query[c].spent <= CONNECT_TIMEOUT
          + IF Receiving(c) THEN REPLY_TIMEOUT * (parts + 1) ELSE 0

\* Once a server runs that answers, whatever the ones before it have left behind is
\* released: helpers that hung in connect, and connections that nobody waits for.
ConnectionsReleased == <>[](mode = "Normal") => \A k \in Conns : []<>Free(k)

\* The documentation of send_command: timeout_ms is the timeout for the reply.
ReplyWithinTimeout ==
  \A c \in Callers : query[c].spent <= CONNECT_TIMEOUT + REPLY_TIMEOUT
=============================================================================
