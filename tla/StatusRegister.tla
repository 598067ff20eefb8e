--------------------------- MODULE StatusRegister ---------------------------
(***************************************************************************)
(* What the status tracker promises to whoever reads the status file: the  *)
(* file is a register that takes over the daemon's current status, one at  *)
(* a time and in order.  A status is taken over while it is current; it    *)
(* may be dropped, and the file then keeps the one it had.                 *)
(***************************************************************************)
CONSTANTS
  Statuses,     \* all statuses
  Initially     \* the status at the start

VARIABLES
  current,      \* the status of the daemon
  pending,      \* the status being written: a set of at most one
  file          \* the status in the file

vars == <<current, pending, file>>

Init == current = Initially /\ pending = {} /\ file = Initially

Change == current' \in Statuses /\ UNCHANGED <<pending, file>>

Take == pending = {} /\ pending' = {current} /\ UNCHANGED <<current, file>>

Publish == pending = {file'} /\ pending' = {} /\ UNCHANGED current

Drop == pending # {} /\ pending' = {} /\ UNCHANGED <<current, file>>

Next == Change \/ Take \/ Publish \/ Drop

Spec == Init /\ [][Next]_vars
=============================================================================
