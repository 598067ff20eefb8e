---------------------------- MODULE MCDiscovery ----------------------------
(***************************************************************************)
(* Two VMs, one on the LUN "a", the other on the LUN "c" and the spanned   *)
(* volume group of "a" and "b", under the default delays.                  *)
(***************************************************************************)
EXTENDS Discovery

MCVMs == {"vm1", "vm2"}
MCLunsOf == [vm1 |-> {{"a"}}, vm2 |-> {{"c"}, {"a", "b"}}]
=============================================================================
