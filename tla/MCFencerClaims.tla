--------------------------- MODULE MCFencerClaims ---------------------------
(***************************************************************************)
(* Two maps that are alive, dead, without paths, without path_groups or    *)
(* not reported, both in use, or only the first.                           *)
(***************************************************************************)
EXTENDS FencerClaims

MCMapNames == {"a", "b"}

PathReports ==
  { Missing,
    << >>,
    << [dm_st |-> "active", paths |-> <<"active">>] >>,
    << [dm_st |-> "active", paths |-> <<"failed">>] >> }

ReportsOf(name, uuid) ==
  {{}} \cup {{[name |-> name, uuid |-> uuid, path_groups |-> pgs]} : pgs \in PathReports}

MCReplies == {ra \cup rb : ra \in ReportsOf("a", "ua"), rb \in ReportsOf("b", "ub")}

MCActiveSets == { {}, {{"a"}}, {{"a"}, {"b"}} }
=============================================================================
