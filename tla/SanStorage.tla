----------------------------- MODULE SanStorage -----------------------------
(***************************************************************************)
(* One discovery after the other: list the VMs, find the multipath devices *)
(* beneath every device-mapper device by a walk through sysfs, read the    *)
(* configuration of each VM and resolve its disks to LUNs.                 *)
(*                                                                         *)
(* Device-mapper devices come, go and change their numbers while the walk  *)
(* reads sysfs file by file.                                               *)
(***************************************************************************)
EXTENDS Naturals, SequencesExt

CONSTANTS
  VMs,          \* the VMs configured on this node
  Config,       \* Config[v]: the lines of v's configuration file
  Attached,     \* Attached[v]: the storages of the disks that v really has
  Section,      \* the line "[...]" that starts a snapshot or pending section
  DmDevices,    \* the block devices named dm-*
  Worlds,       \* what the device mapper may look like
  Modes         \* the query modes in use

VARIABLES
  world,        \* the device mapper now: names, slaves and the disks' devices
  phase,        \* what the discovery is doing
  devs,         \* listed devices still to be resolved
  dev,          \* the device being resolved, with the mapped name read for it
  todo,         \* slaves the walk has still to look at
  visited,      \* devices the walk has looked at
  mpaths,       \* multipath devices the walk has found
  mpath_map,    \* device or mapped name -> multipath devices beneath it
  vms,          \* listed VMs whose configuration is still to be read
  luns,         \* the LUNs of the VMs read so far, each a set of map names
  calm,         \* history: the device mapper has not changed since the start
  expected      \* history: listed VMs that this discovery has not left out

walkVars == <<todo, visited, mpaths>>
sanVars == <<world, phase, devs, dev, walkVars, mpath_map, vms, luns, calm, expected>>

\* A name is a sequence of the pieces that its conversion tells apart.
IsMultipath(name) == name # <<>> /\ name[1] = "mpath"

Exists(d) == d \in DOMAIN world.name
MappedNames == UNION {{w.name[d] : d \in DOMAIN w.name} : w \in Worlds}
MultipathNames == {n \in MappedNames : IsMultipath(n)}

NoDevice == [number |-> "", name |-> <<>>]

SanTypeOK ==
  /\ world \in Worlds
  /\ phase \in {"Listing", "Devices", "Resolving", "Walking", "Configs", "Done", "Failed"}
  /\ devs \subseteq DmDevices
  /\ dev = NoDevice \/ (dev.number \in DmDevices /\ dev.name \in MappedNames)
  /\ todo \subseteq DmDevices /\ visited \subseteq DmDevices
  /\ mpaths \subseteq MultipathNames
  /\ DOMAIN mpath_map \subseteq MappedNames \cup {<<d>> : d \in DmDevices}
  /\ \A n \in DOMAIN mpath_map : mpath_map[n] \in (SUBSET MultipathNames) \ {{}}
  /\ luns \subseteq (SUBSET MultipathNames) \ {{}}
  /\ calm \in BOOLEAN
  /\ vms \subseteq VMs /\ expected \subseteq VMs

Start ==
  /\ phase' = "Listing"
  /\ devs' = {} /\ dev' = NoDevice
  /\ todo' = {} /\ visited' = {} /\ mpaths' = {}
  /\ mpath_map' = <<>>
  /\ vms' = {} /\ luns' = {}
  /\ calm' = TRUE /\ expected' = {}

SanInit ==
  /\ world \in Worlds
  /\ phase = "Listing"
  /\ devs = {} /\ dev = NoDevice
  /\ todo = {} /\ visited = {} /\ mpaths = {}
  /\ mpath_map = <<>>
  /\ vms = {} /\ luns = {}
  /\ calm = TRUE /\ expected = {}
-----------------------------------------------------------------------------
(* From a configuration to the names under which its disks are looked up.  *)

\* The lines before the first section; the last line of a key wins.
parse_vm_config(lines) ==
  LET sections == {i \in DOMAIN lines : lines[i] = Section}
      current == {i \in DOMAIN lines : \A s \in sections : i < s}
      LastOf(key) == CHOOSE i \in current : /\ lines[i].key = key
                                            /\ \A j \in current : lines[j].key = key => j <= i
  IN  [key \in {lines[i].key : i \in current} |-> lines[LastOf(key)].value]

DiskPrefixes == {"scsi", "virtio", "sata", "ide", "efidisk"}

\* A disk's key is a prefix and an index; anything else is not a disk.
extract_disks(config_map) ==
  {config_map[key] : key \in {k \in DOMAIN config_map :
                                k[1] \in DiskPrefixes /\ k[2] \in 0 .. 99}}

Escaped(name) == FlattenSeq([i \in DOMAIN name |->
                               IF name[i] = "-" THEN <<"-", "-">> ELSE <<name[i]>>])

\* storage.split_once(':')
IsVolume(storage) == \E i \in DOMAIN storage : storage[i] = ":"
Colon(storage) == SelectInSeq(storage, LAMBDA piece : piece = ":")
Pool(storage) == SubSeq(storage, 1, Colon(storage) - 1)
Volume(storage) == SubSeq(storage, Colon(storage) + 1, Len(storage))

\* pool:volume becomes pool-volume with their dashes doubled; in the legacy form
\* only those of the volume are.
storage_to_dm_name(storage) ==
  IF IsVolume(storage) THEN Escaped(Pool(storage)) \o <<"-">> \o Escaped(Volume(storage))
  ELSE storage

storage_to_dm_name_legacy(storage) ==
  IF IsVolume(storage) THEN Pool(storage) \o <<"-">> \o Escaped(Volume(storage))
  ELSE storage

\* name.strip_prefix("/dev/mapper/"), as a sequence of none or one.
StripMapper(name) ==
  IF name # <<>> /\ name[1] = "/dev/mapper/" THEN <<Tail(name)>> ELSE <<>>

\* The names of a storage, in the order in which they are tried.
LookupNames(storage) ==
  <<storage_to_dm_name(storage), storage_to_dm_name_legacy(storage), storage>>
    \o StripMapper(storage_to_dm_name(storage))
    \o StripMapper(storage_to_dm_name_legacy(storage))

\* The multipath devices beneath a disk; none when no name is known.
MatchedMpaths(storage) ==
  LET names == LookupNames(storage)
      first == SelectInSeq(names, LAMBDA n : n \in DOMAIN mpath_map)
  IN  IF first = 0 THEN {} ELSE mpath_map[names[first]]
-----------------------------------------------------------------------------
ChangesDevices ==
  /\ world' \in Worlds \ {world}
  /\ calm' = FALSE
  /\ UNCHANGED <<phase, devs, dev, walkVars, mpath_map, vms, luns, expected>>

\* pvesh lists the VMs that run, apart from entries without an identifier; the
\* local files are those of all VMs, or none when their directory is missing.
list_running_vms(mode) ==
  /\ phase = "Listing"
  /\ phase' = "Devices"
  /\ \/ mode = "Pvesh" /\ vms' \in SUBSET VMs
     \/ mode = "LocalFiles" /\ vms' \in {VMs, {}}
  /\ expected' = vms'
  /\ UNCHANGED <<world, devs, dev, walkVars, mpath_map, luns, calm>>

\* Without a list of VMs there is no discovery.
ListingFails ==
  /\ phase = "Listing"
  /\ phase' = "Failed"
  /\ UNCHANGED <<world, devs, dev, walkVars, mpath_map, vms, luns, calm, expected>>

\* The list of block devices; when it cannot be read it counts as empty.
ListDevices ==
  /\ phase = "Devices"
  /\ phase' = "Resolving"
  /\ devs' \in {DOMAIN world.name \cap DmDevices, {}}
  /\ expected' = IF devs' = {} THEN {} ELSE expected
  /\ UNCHANGED <<world, dev, walkVars, mpath_map, vms, luns, calm>>

\* A device whose name cannot be read, because it is gone by now, is left out.
SkipDevice(d) ==
  /\ phase = "Resolving"
  /\ d \in devs
  /\ ~Exists(d)
  /\ devs' = devs \ {d}
  /\ UNCHANGED <<world, phase, dev, walkVars, mpath_map, vms, luns, calm, expected>>

Resolve(d) ==
  /\ phase = "Resolving"
  /\ d \in devs
  /\ Exists(d)
  /\ phase' = "Walking"
  /\ devs' = devs \ {d}
  /\ dev' = [number |-> d, name |-> world.name[d]]
  /\ todo' = {d}
  /\ UNCHANGED <<world, visited, mpaths, mpath_map, vms, luns, calm, expected>>

\* What the walk finds at a device: a multipath device ends the branch, any other
\* leads on to its slaves, a device that is gone to nothing.
Slaves(d) == IF Exists(d) /\ ~IsMultipath(world.name[d])
             THEN world.slaves[d] \cap DmDevices ELSE {}
Found(d) == IF Exists(d) /\ IsMultipath(world.name[d]) THEN {world.name[d]} ELSE {}

\* Mutant: visited devices are looked at again.
VisitAgain(d) ==
  /\ phase = "Walking"
  /\ d \in todo
  /\ todo' = (todo \ {d}) \cup Slaves(d)
  /\ mpaths' = mpaths \cup Found(d)
  /\ UNCHANGED <<world, phase, devs, dev, visited, mpath_map, vms, luns, calm, expected>>

\* One call of find_multipaths_for_dm, which reads the name and the slaves of one
\* device; the calls for the slaves are in todo.
find_multipaths_for_dm(d) ==
  /\ phase = "Walking"
  /\ d \in todo
  /\ IF d \in visited
     THEN todo' = todo \ {d} /\ UNCHANGED <<visited, mpaths>>
     ELSE /\ visited' = visited \cup {d}
          /\ todo' = (todo \ {d}) \cup Slaves(d)
          /\ mpaths' = mpaths \cup Found(d)
  /\ UNCHANGED <<world, phase, devs, dev, mpath_map, vms, luns, calm, expected>>

\* The table with what has been found under both names of the device.
Entered ==
  LET names == {dev.name, <<dev.number>>}
  IN  [n \in DOMAIN mpath_map \cup names |-> IF n \in names THEN mpaths ELSE mpath_map[n]]

\* Mutant: a device without a multipath device beneath it is entered as well.
EndWalkEmpty ==
  /\ phase = "Walking"
  /\ todo = {}
  /\ phase' = "Resolving"
  /\ mpath_map' = Entered
  /\ dev' = NoDevice /\ visited' = {} /\ mpaths' = {}
  /\ UNCHANGED <<world, devs, todo, vms, luns, calm, expected>>

\* Mutant: the walks of all devices share their set of visited devices.
EndWalkSharing ==
  /\ phase = "Walking"
  /\ todo = {}
  /\ phase' = "Resolving"
  /\ mpath_map' = IF mpaths = {} THEN mpath_map ELSE Entered
  /\ dev' = NoDevice /\ mpaths' = {}
  /\ UNCHANGED <<world, devs, todo, vms, luns, calm, expected, visited>>

\* The device is entered under both of its names if there is anything beneath it.
EndWalk ==
  /\ phase = "Walking"
  /\ todo = {}
  /\ phase' = "Resolving"
  /\ mpath_map' = IF mpaths = {} THEN mpath_map ELSE Entered
  /\ dev' = NoDevice /\ visited' = {} /\ mpaths' = {}
  /\ UNCHANGED <<world, devs, todo, vms, luns, calm, expected>>

DevicesResolved ==
  /\ phase = "Resolving"
  /\ devs = {}
  /\ phase' = "Configs"
  /\ UNCHANGED <<world, devs, dev, walkVars, mpath_map, vms, luns, calm, expected>>

\* From the local file or, failing that, from pvesh, which gives the current section
\* as an object.
VMConfig(v) == parse_vm_config(Config[v])

get_vm_config(v) ==
  /\ phase = "Configs"
  /\ v \in vms
  /\ vms' = vms \ {v}
  /\ luns' = luns \cup ({MatchedMpaths(s) : s \in extract_disks(VMConfig(v))} \ {{}})
  /\ UNCHANGED <<world, phase, devs, dev, walkVars, mpath_map, calm, expected>>

\* Both fail: a warning, and the VM is left out.
SkipVM(v) ==
  /\ phase = "Configs"
  /\ v \in vms
  /\ vms' = vms \ {v}
  /\ expected' = expected \ {v}
  /\ UNCHANGED <<world, phase, devs, dev, walkVars, mpath_map, luns, calm>>

\* The block devices are listed a second time; here a failure ends the discovery.
get_block_devices ==
  /\ phase = "Configs"
  /\ vms = {}
  /\ phase' \in {"Done", "Failed"}
  /\ UNCHANGED <<world, devs, dev, walkVars, mpath_map, vms, luns, calm, expected>>

NextDiscovery ==
  /\ phase \in {"Done", "Failed"}
  /\ Start
  /\ UNCHANGED world

Work ==
  \/ \E mode \in Modes : list_running_vms(mode)
  \/ ListingFails \/ ListDevices
  \/ \E d \in DmDevices : SkipDevice(d) \/ Resolve(d) \/ find_multipaths_for_dm(d)
  \/ EndWalk \/ DevicesResolved
  \/ \E v \in VMs : get_vm_config(v) \/ SkipVM(v)
  \/ get_block_devices

SanNext == Work \/ NextDiscovery \/ ChangesDevices

SanSpec == SanInit /\ [][SanNext]_sanVars /\ WF_sanVars(Work)
-----------------------------------------------------------------------------
(* What a discovery should find, defined without a walk or a lookup.       *)

\* The devices reached from d without going through a multipath device: the
\* least set that has d and, with any other device, its slaves.
Reached(d) ==
  LET Closed(R) == d \in R /\ \A x \in R : Slaves(x) \subseteq R
  IN  {x \in DmDevices : \A R \in SUBSET DmDevices : Closed(R) => x \in R}

Beneath(d) == UNION {Found(x) : x \in Reached(d)}

LunsOf(v) == {Beneath(world.backing[s]) : s \in Attached[v] \cap DOMAIN world.backing} \ {{}}

\* How disks and devices are named: a disk that a VM has is looked up under the mapped
\* name of the device behind it, and no disk under a name of any other device.
ASSUME NamingAssumption ==
  \A w \in Worlds, v \in VMs :
    LET disks == extract_disks(VMConfig(v))
        backed == Attached[v] \cap DOMAIN w.backing
    IN  /\ backed \subseteq disks
        /\ \A s \in backed : /\ w.backing[s] \in DmDevices \cap DOMAIN w.name
                              /\ w.name[w.backing[s]] \in Range(LookupNames(s))
        /\ \A s \in disks, d \in DmDevices \cap DOMAIN w.name :
             Range(LookupNames(s)) \cap {w.name[d], <<d>>} # {} =>
               s \in backed /\ d = w.backing[s]

\* A discovery during which the device mapper stays as it is finds for each listed
\* VM that it does not leave out the LUNs beneath the disks that the VM really has,
\* however the devices are stacked and their names escaped, and no others.
LunsAreExact ==
  phase = "Done" /\ calm => luns = UNION {LunsOf(v) : v \in expected}

\* A walk ends although devices change their numbers under it, so that each of
\* them may turn up beneath any other, again and again.
DiscoveryEnds == (phase = "Listing") ~> (phase \in {"Done", "Failed"})
=============================================================================
