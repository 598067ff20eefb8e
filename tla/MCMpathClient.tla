--------------------------- MODULE MCMpathClient ----------------------------
(***************************************************************************)
(* Test data with a default file that is not the first by name, a command  *)
(* whose only file is one directory up, a mapping whose file is missing,   *)
(* and files that are empty, too long, not UTF-8 or with a NUL inside.     *)
(***************************************************************************)
EXTENDS MpathClient, TLC

MCKnown == {"maps", "config"}
MCCommands == MCKnown \cup {"help", "overlong", "nul"}

File(dir, name) == [dir |-> dir, name |-> name]
Default == [maps |-> 1, config |-> 1]

Directories ==
  [map |-> <<>>, default |-> Default,
   files |-> File("maps", 0) :> <<1>> @@ File("maps", 1) :> <<2>> @@ File("flat", 1) :> <<3>>]

Mappings ==
  [map |-> [maps |-> <<File("flat", 2), File("flat", 3)>>, config |-> <<File("flat", 5)>>],
   default |-> Default,
   files |-> File("flat", 2) :> <<1, NUL, 1>> @@ File("flat", 3) :> <<9>>
               @@ File("config", 1) :> <<4>>]

Empty ==
  [map |-> <<>>, default |-> Default,
   files |-> File("config", 0) :> <<>> @@ File("flat", 1) :> <<1, 2, 3, 4>>]

MCSetups == {Directories, Mappings, Empty}
MCConns == 1 .. 2
MCNoMaps == <<7>>
=============================================================================
