----------------------------- MODULE MpathMockd -----------------------------
(***************************************************************************)
(* The server's end of the multipathd socket, as the mock server of the    *)
(* integration tests implements it: the listener with its backlog, one     *)
(* thread per connection, and the test data that it cycles through.  The   *)
(* sockets are the kernel's.                                               *)
(*                                                                         *)
(* A byte is a number, and one symbol stands for what one read returns.    *)
(***************************************************************************)
EXTENDS Naturals, SequencesExt

CONSTANTS
  Commands,         \* what clients may send
  ShowMaps,         \* "show maps json"
  Known,            \* the commands that have test data of their own
  Overlong,         \* the commands longer than MAX_CMD_LEN
  Setups,           \* the test data directories and --file-map options in use
  NoMaps,           \* the built-in reply without any maps
  HANG_PARTS,       \* how much of a reply the hanging server sends
  BACKLOG,          \* connections the listener keeps until they are accepted
  Conns             \* the connections that may exist at the same time

NUL == 0

ASSUME MockAssumption ==
  /\ ShowMaps \in Known /\ Known \subseteq Commands /\ Overlong \subseteq Commands \ Known
  /\ BACKLOG \in Nat \ {0} /\ HANG_PARTS \in Nat
  /\ NoMaps \in Seq(Nat \ {NUL})

\* A file is found by its directory and a number that stands for its name.
ASSUME SetupAssumption ==
  \A s \in Setups :
    /\ IsFiniteSet(DOMAIN s.files)
    /\ \A p \in DOMAIN s.files : /\ p = [dir |-> p.dir, name |-> p.name] /\ p.name \in Nat
                                 /\ s.files[p] \in Seq(Nat)
    /\ \A c \in DOMAIN s.map : s.map[c] \in Seq(Range(s.map[c]))

VARIABLES
  mode,                 \* how the server was started, or "Down"
  setup,                \* its test data
  command_responses,    \* the contents it has loaded, per command
  indices,              \* FileCounters: the index of the next file, per command
  picks,                \* history: the latest files picked, per command
  backlog,              \* connections not accepted yet, oldest first
  conn                  \* the two ends of each connection and what is between

dataVars == <<setup, command_responses>>
serverVars == <<mode, dataVars, indices, picks, backlog>>

\* Both ends closed; `helper' belongs to the client.
NoConn == [helper |-> "None", client |-> "Closed", server |-> "Closed",
           request |-> <<>>, pending |-> <<>>, wire |-> <<>>]

ServerStates == {"Closed", "Queued", "Reading", "Replying", "Idling"}
-----------------------------------------------------------------------------
(* The test data.  A file is named by its directory and its place in the   *)
(* order of file names; `setup.files' has the contents of the readable     *)
(* ones, `setup.map' the commands with a --file-map of their own.          *)

\* The n-th of a set of numbers, the smallest first.
Nth(S, n) == CHOOSE x \in S : Cardinality({y \in S : y <= x}) = n

\* The contents of those of the files that can be read.
Loaded(paths) ==
  LET readable == {i \in DOMAIN paths : paths[i] \in DOMAIN setup.files}
  IN  [n \in 1 .. Cardinality(readable) |-> setup.files[paths[Nth(readable, n)]]]

InDirectory(dir) == {p \in DOMAIN setup.files : p.dir = dir}

\* Files of a directory in the order of their names.
Sorted(dir, files) ==
  LET names == {p.name : p \in files}
  IN  [n \in 1 .. Cardinality(names) |-> [dir |-> dir, name |-> Nth(names, n)]]

\* Mutant: the default file is loaded once more with the other files.
DirectoryResponsesTwice(c) ==
  LET default == [dir |-> c, name |-> setup.default[c]]
      own == Loaded(<<default>> \o Sorted(c, InDirectory(c)))
  IN  IF own # <<>> THEN own ELSE Loaded(<<[dir |-> "flat", name |-> setup.default[c]]>>)

\* The default file of a command, then the other files of its directory by name;
\* without any of them the default file one directory up.
DirectoryResponses(c) ==
  LET default == [dir |-> c, name |-> setup.default[c]]
      own == Loaded(<<default>> \o Sorted(c, InDirectory(c) \ {default}))
  IN  IF own # <<>> THEN own ELSE Loaded(<<[dir |-> "flat", name |-> setup.default[c]]>>)

\* A custom mapping that cannot be loaded leaves the command without responses.
LoadResponses(c) ==
  IF c \in DOMAIN setup.map THEN Loaded(setup.map[c])
  ELSE DirectoryResponses(c)

Responses(c) ==
  LET own == LoadResponses(c)
  IN  IF c = ShowMaps /\ own = <<>> THEN <<NoMaps>> ELSE own

\* A command without responses is answered as "show maps json" is.
AnsweredAs(c) == IF c \in Known /\ command_responses[c] # <<>> THEN c ELSE ShowMaps
-----------------------------------------------------------------------------
ServerInit ==
  /\ mode \in {"Normal", "Hang", "Unresponsive"}
  /\ setup \in Setups
  /\ command_responses = [c \in Known |-> Responses(c)]
  /\ indices = [c \in Known |-> 0]
  /\ picks = [c \in Known |-> <<>>]
  /\ backlog = <<>>

\* What has been sent before the server's end is closed may still be read.
ServerCloses(k) == [conn[k] EXCEPT !.server = "Closed", !.request = <<>>, !.pending = <<>>]

\* The server is stopped, or dies, with everything it has in memory.
Stop ==
  /\ mode # "Down"
  /\ mode' = "Down"
  /\ indices' = [c \in Known |-> 0]
  /\ picks' = [c \in Known |-> <<>>]
  /\ backlog' = <<>>
  /\ conn' = [k \in Conns |-> ServerCloses(k)]
  /\ UNCHANGED dataVars

StartServer ==
  /\ mode = "Down"
  /\ mode' \in {"Normal", "Hang", "Unresponsive"}
  /\ UNCHANGED <<dataVars, indices, picks, backlog, conn>>

Accept ==
  /\ mode \in {"Normal", "Hang"}
  /\ backlog # <<>>
  /\ conn' = [conn EXCEPT ![Head(backlog)].server = "Reading"]
  /\ backlog' = Tail(backlog)
  /\ UNCHANGED <<mode, dataVars, indices, picks>>

\* The command cannot be read, or is too long to be.
RefuseCommand(k) ==
  /\ conn[k].server = "Reading"
  /\ \/ conn[k].request = <<>> /\ conn[k].client = "Closed"
     \/ \E c \in Overlong : conn[k].request = <<c>>
  /\ conn' = [conn EXCEPT ![k] = ServerCloses(k)]
  /\ UNCHANGED serverVars

\* Mutant: the counters count on.
next_index_unbounded(c, max) ==
  [index |-> indices[c] % max, indices |-> [indices EXCEPT ![c] = @ + 1]]

\* The index of the next file, and the counters after it.
next_index(c, max) ==
  [index |-> indices[c], indices |-> [indices EXCEPT ![c] = (@ + 1) % max]]

\* The reply on the wire: its length, its bytes and a terminating NUL.  A hanging
\* server sends the length and the first bytes.
Sent(content) ==
  LET reply == Append(content, NUL)
      parts == IF mode = "Hang" THEN Min({HANG_PARTS, Len(reply)}) ELSE Len(reply)
  IN  <<Len(reply)>> \o SubSeq(reply, 1, parts)

\* The picks of one round through the files.
Remember(c, content) ==
  LET seen == Append(picks[c], content)
  IN  [picks EXCEPT ![c] = IF Len(seen) > Len(command_responses[c]) THEN Tail(seen) ELSE seen]

\* The command is read and its response looked up, under the lock of the counters.
Lookup(k) ==
  /\ conn[k].server = "Reading"
  /\ \E c \in Commands \ Overlong :
       LET as == AnsweredAs(c)
           files == command_responses[as]
           next == next_index(as, Len(files))
           content == IF Len(files) = 1 THEN files[1] ELSE files[next.index + 1]
       IN  /\ conn[k].request = <<c>>
           /\ indices' = IF Len(files) = 1 THEN indices ELSE next.indices
           /\ picks' = Remember(as, content)
           /\ conn' = [conn EXCEPT ![k].server = "Replying", ![k].request = <<>>,
                                   ![k].pending = Sent(content)]
  /\ UNCHANGED <<mode, dataVars, backlog>>

\* The next part of the reply is sent, in the pieces in which the client reads it.
SendPart(k) ==
  /\ conn[k].server = "Replying"
  /\ conn[k].client = "Open"
  /\ conn[k].pending # <<>>
  /\ conn' = [conn EXCEPT ![k].wire = Append(@, Head(conn[k].pending)),
                          ![k].pending = Tail(@)]
  /\ UNCHANGED serverVars

\* Everything is sent, or the client has gone: the thread ends.  The thread of a
\* hanging server keeps the connection, and sleeps for ever.
EndConnection(k) ==
  /\ conn[k].server = "Replying"
  /\ conn[k].pending = <<>> \/ conn[k].client = "Closed"
  /\ conn' = [conn EXCEPT ![k] =
                IF mode = "Hang" /\ conn[k].pending = <<>>
                THEN [conn[k] EXCEPT !.server = "Idling"] ELSE ServerCloses(k)]
  /\ UNCHANGED serverVars

handle_connection(k) == RefuseCommand(k) \/ Lookup(k) \/ SendPart(k) \/ EndConnection(k)

Serve == Accept \/ \E k \in Conns : handle_connection(k)
-----------------------------------------------------------------------------
(* What the rotation promises, defined without the lists and the counters. *)

\* The files that a command is answered with.
TestFiles(c) ==
  LET own == InDirectory(c)
      flat == {p \in InDirectory("flat") : p.name = setup.default[c]}
  IN  IF c \in DOMAIN setup.map THEN Range(setup.map[c]) \cap DOMAIN setup.files
      ELSE IF own # {} THEN own ELSE flat

TestContents(c) ==
  LET contents == {setup.files[p] : p \in TestFiles(c)}
  IN  IF c = ShowMaps /\ contents = {} THEN {NoMaps} ELSE contents

\* However the connections interleave, a round through the files of a command serves
\* each of them once, beginning with the default file when there is one.
RotationIsComplete ==
  \A c \in Known :
    LET served == Range(picks[c])
        default == [dir |-> c, name |-> setup.default[c]]
    IN  /\ Cardinality(served) = Len(picks[c])
        /\ served \subseteq TestContents(c)
        /\ picks[c] # <<>> /\ Len(picks[c]) < Cardinality(TestContents(c))
             /\ c \notin DOMAIN setup.map /\ default \in DOMAIN setup.files
           => picks[c][1] = setup.files[default]
=============================================================================
