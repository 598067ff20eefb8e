--------------------------- MODULE MultipathMaps ---------------------------
(***************************************************************************)
(* The maps of a "show maps json" reply and what the daemon reads off one  *)
(* map.  A map is a record with the fields name, uuid and path_groups; a   *)
(* path group has dm_st and paths; a path is represented by its dm_st      *)
(* alone, the only field of it the daemon decodes.  Every field the code   *)
(* declares as an Option may be Missing.                                   *)
(***************************************************************************)
EXTENDS Naturals, Sequences

CONSTANT Missing    \* a JSON field that the reply omits (None after decoding)

\* The two identifiers under which a LUN or a target WWID may name a map.
Idents(map) == {map.name, map.uuid}

\* total_paths > 0 in update_with_maps: some group lists at least one path.
HasPaths(map) ==
  /\ map.path_groups # Missing
  /\ \E i \in DOMAIN map.path_groups :
       /\ map.path_groups[i].paths # Missing
       /\ map.path_groups[i].paths # << >>

PathAlive(dm_st) == dm_st \notin {"failed", "faulty", "ghost"}

GroupAlive(pg) == pg.dm_st \notin {"offline", "failed"}

GroupUsable(pg) ==
  /\ GroupAlive(pg)
  /\ pg.paths # Missing
  /\ \E j \in DOMAIN pg.paths : PathAlive(pg.paths[j])

\* A map is dead when its groups are reported and none of them is usable.  An
\* omitted path_groups, or an omitted dm_st on a group or a path, counts as alive.
is_map_dead(map) ==
  /\ map.path_groups # Missing
  /\ \A i \in DOMAIN map.path_groups : ~GroupUsable(map.path_groups[i])

\* is_map_dead meets an omitted dm_st while it scans: on a group no later than
\* the first usable one, or on a path where the scan of a live group stops.
MeetsMissingDmSt(map) ==
  /\ map.path_groups # Missing
  /\ \E i \in DOMAIN map.path_groups :
       LET pg == map.path_groups[i] IN
       /\ \A k \in 1 .. (i - 1) : ~GroupUsable(map.path_groups[k])
       /\ \/ pg.dm_st = Missing
          \/ /\ GroupAlive(pg)
             /\ pg.paths # Missing
             /\ \E j \in DOMAIN pg.paths :
                  /\ pg.paths[j] = Missing
                  /\ \A k \in 1 .. (j - 1) : ~PathAlive(pg.paths[k])
=============================================================================
