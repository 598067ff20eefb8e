------------------------------ MODULE MCFencer ------------------------------
(***************************************************************************)
(* Two maps, "a" (WWID "ua") and "b" (WWID "ub"), under every kind of path *)
(* report the Fencer distinguishes, and active sets with plain, spanned    *)
(* and WWID-named LUNs and a LUN "c" whose map multipathd does not report. *)
(***************************************************************************)
EXTENDS FencerObserver

MCMapNames == {"a", "b"}

PathReports ==
  { Missing,
    << >>,
    << [dm_st |-> "enabled", paths |-> << >>] >>,
    << [dm_st |-> "active", paths |-> <<"failed", "active">>] >>,
    << [dm_st |-> "active", paths |-> <<"faulty", "ghost">>] >>,
    << [dm_st |-> "offline", paths |-> <<"active">>],
       [dm_st |-> "active", paths |-> Missing] >>,
    << [dm_st |-> Missing, paths |-> <<Missing>>] >> }

ReportsOf(name, uuid) ==
  {{}} \cup {{[name |-> name, uuid |-> uuid, path_groups |-> pgs]} : pgs \in PathReports}

MCReplies == {ra \cup rb : ra \in ReportsOf("a", "ua"), rb \in ReportsOf("b", "ub")}

MCActiveSets ==
  { {}, {{"a"}}, {{"ub"}}, {{"a"}, {"b"}}, {{"a", "b"}}, {{"a", "b"}, {"c"}}, {{"a"}, {"c"}} }
=============================================================================
