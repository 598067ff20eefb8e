--------------------------- MODULE MCStatusCheck ----------------------------
(***************************************************************************)
(* A poll interval of one tick, checks that know of it, and a clock that   *)
(* is set back, and forward by more than any age.                          *)
(***************************************************************************)
EXTENDS StatusCheck

MCCheckerPolls == {1}
MCJumps == {-2, 4}
=============================================================================
