------------------------------ MODULE MCDaemon ------------------------------
(***************************************************************************)
(* One VM on one LUN, whose map has a usable path or has none.  A poll     *)
(* every tick, a discovery every other.  Each combination of faults is     *)
(* watched with the stopwatch of the question it is there for, counting    *)
(* one tick further than the property admits.                              *)
(***************************************************************************)
EXTENDS DaemonObserver, Sequences

MCVMs == {"vm"}
MCLunsOf == [vm |-> {{"a"}}]
MCActiveSets == {{}, {{"a"}}}

Map(path) ==
  [name |-> "a", uuid |-> "ua", path_groups |-> << [dm_st |-> "active", paths |-> <<path>>] >>]

MCReplies == { {Map("active")}, {Map("failed")} }

MCFaultSets ==
  { {}, {"bad_reply"}, {"discovery_fails"},
    {"discovery_fails", "discovery_hangs", "query_fails"} }

WatchOnly(watch, n) ==
  [w \in {"exposure", "blind", "vacant", "lossSpan"} |-> IF w = watch THEN n ELSE 0]

MCWatch ==
  [f \in MCFaultSets |->
     CASE f = {}                  -> WatchOnly("exposure", 7)
       [] f = {"bad_reply"}       -> WatchOnly("none", 0)
       [] f = {"discovery_fails"} -> WatchOnly("vacant", 8)
       [] OTHER                   -> WatchOnly("blind", 4)]

\* The settings of the claims: one combination of faults, one stopwatch.
HangingOnly == { {"discovery_hangs"} }
WatchHanging == [f \in HangingOnly |-> WatchOnly("exposure", 7)]
BadReplyOnly == { {"bad_reply"} }
WatchBadReply == [f \in BadReplyOnly |-> WatchOnly("blind", 4)]
=============================================================================
