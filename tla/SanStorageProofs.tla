-------------------------- MODULE SanStorageProofs --------------------------
(***************************************************************************)
(* Proofs about the discovery of the LUNs: a walk that nothing disturbs    *)
(* collects exactly what it can reach, and a discovery that nothing        *)
(* disturbs publishes exactly the LUNs of the VMs that it does not leave   *)
(* out, for any stack of devices and any set of VMs.                       *)
(*                                                                         *)
(* No induction over the stack is needed: what a walk has visited when     *)
(* nothing is left to do is closed under slaves, and what is reached is    *)
(* the least closed set.                                                   *)
(***************************************************************************)
EXTENDS SanStorage, TLAPS, WellFoundedInduction

\* A set of numbers has a least one.
LEMMA LeastNumber ==
  ASSUME NEW S, S \subseteq Nat, S # {}
  PROVE  Min(S) \in S
<1> DEFINE R == {p \in Nat \X Nat : p[1] < p[2]}
<1>1. IsWellFoundedOn(R, Nat)
  BY NatLessThanWellFounded DEF OpToRel
<1>2. PICK x \in S : \A y \in S : ~ (<<y, x>> \in R)
  BY <1>1, WFMin
<1>3. ASSUME NEW y \in S PROVE x <= y
  <2>1. <<y, x>> \notin R /\ x \in Nat /\ y \in Nat
    BY <1>2, <1>3
  <2>2. ~ (y < x)
    BY <2>1
  <2> QED
    BY <2>1, <2>2
<1> QED
  BY <1>3 DEF Min

\* The first of the names that are known.
LEMMA FirstKnown ==
  ASSUME NEW storage
  PROVE  LET known == Range(LookupNames(storage)) \cap DOMAIN mpath_map
         IN  IF known = {} THEN MatchedMpaths(storage) = {}
             ELSE \E n \in known : MatchedMpaths(storage) = mpath_map[n]
<1> DEFINE names == LookupNames(storage)
           I == {i \in 1 .. Len(names) : names[i] \in DOMAIN mpath_map}
<1>1. DOMAIN names = 1 .. Len(names) /\ Len(names) \in Nat
  BY DEF LookupNames, StripMapper
<1> HIDE DEF names
<1>2. CASE I = {}
  <2>1. Range(names) \cap DOMAIN mpath_map = {}
    BY <1>1, <1>2 DEF Range
  <2>2. MatchedMpaths(storage) = {}
    BY <1>2 DEF MatchedMpaths, SelectInSeq, names
  <2> QED
    BY <2>1, <2>2 DEF names
<1>3. CASE I # {}
  <2>1. I \subseteq Nat
    BY <1>1
  <2> HIDE DEF I
  <2>2. Min(I) \in I
    BY <1>3, <2>1, LeastNumber
  <2>3. names[Min(I)] \in Range(names) \cap DOMAIN mpath_map
    BY <1>1, <2>2 DEF Range, I
  <2>4. MatchedMpaths(storage) = mpath_map[names[Min(I)]]
    BY <1>1, <1>3, <2>2 DEF MatchedMpaths, SelectInSeq, names, I
  <2> QED
    BY <2>3, <2>4 DEF names
<1> QED
  BY <1>2, <1>3
-----------------------------------------------------------------------------
(* The types.                                                              *)

TypeInv ==
  /\ SanTypeOK
  /\ phase = "Walking" => dev.number \in DmDevices /\ dev.name \in MappedNames

\* What the walk finds at a device.
LEMMA FoundTyped ==
  ASSUME world \in Worlds, NEW d
  PROVE  Found(d) \subseteq MultipathNames /\ Slaves(d) \subseteq DmDevices
<1>1. Exists(d) => world.name[d] \in MappedNames
  BY DEF Exists, MappedNames
<1> QED
  BY <1>1 DEF Found, Slaves, MultipathNames

LEMMA MatchedTyped ==
  ASSUME SanTypeOK, NEW storage
  PROVE  MatchedMpaths(storage) \in SUBSET MultipathNames
BY FirstKnown DEF SanTypeOK

LEMMA ListStep ==
  ASSUME TypeInv,
         \/ \E mode \in Modes : list_running_vms(mode)
         \/ ListingFails \/ ListDevices
         \/ \E d \in DmDevices : SkipDevice(d)
         \/ DevicesResolved
  PROVE  TypeInv'
<1> USE DEF TypeInv, SanTypeOK, walkVars
<1>1. ASSUME NEW mode \in Modes, list_running_vms(mode) PROVE TypeInv'
  BY <1>1 DEF list_running_vms
<1>2. CASE ListingFails
  BY <1>2 DEF ListingFails
<1>3. CASE ListDevices
  BY <1>3 DEF ListDevices
<1>4. ASSUME NEW d \in DmDevices, SkipDevice(d) PROVE TypeInv'
  BY <1>4 DEF SkipDevice
<1>5. CASE DevicesResolved
  BY <1>5 DEF DevicesResolved
<1> QED
  BY <1>1, <1>2, <1>3, <1>4, <1>5

LEMMA WalkStep ==
  ASSUME TypeInv,
         \/ \E d \in DmDevices : Resolve(d) \/ find_multipaths_for_dm(d)
         \/ EndWalk
  PROVE  TypeInv'
<1> USE DEF TypeInv, SanTypeOK, walkVars
<1>1. ASSUME NEW d \in DmDevices, Resolve(d) PROVE TypeInv'
  <2>1. world.name[d] \in MappedNames
    BY <1>1 DEF Resolve, Exists, MappedNames
  <2> QED
    BY <1>1, <2>1 DEF Resolve
<1>2. ASSUME NEW d \in DmDevices, find_multipaths_for_dm(d) PROVE TypeInv'
  BY <1>2, FoundTyped DEF find_multipaths_for_dm
<1>3. CASE EndWalk
  <2>1. dev.number \in DmDevices /\ dev.name \in MappedNames
    BY <1>3 DEF EndWalk
  <2>2. /\ DOMAIN mpath_map' \subseteq MappedNames \cup {<<d>> : d \in DmDevices}
        /\ \A n \in DOMAIN mpath_map' : mpath_map'[n] \in (SUBSET MultipathNames) \ {{}}
    <3>1. CASE mpaths = {}
      BY <1>3, <3>1 DEF EndWalk
    <3>2. CASE mpaths # {}
      <4>1. /\ DOMAIN mpath_map' = DOMAIN mpath_map \cup {dev.name, <<dev.number>>}
            /\ \A n \in DOMAIN mpath_map' :
                 mpath_map'[n] = IF n \in {dev.name, <<dev.number>>} THEN mpaths ELSE mpath_map[n]
        BY <1>3, <3>2 DEF EndWalk, Entered
      <4> QED
        BY <2>1, <3>2, <4>1
    <3> QED
      BY <3>1, <3>2
  <2> QED
    BY <1>3, <2>2 DEF EndWalk
<1> QED
  BY <1>1, <1>2, <1>3

LEMMA ConfigStep ==
  ASSUME TypeInv,
         (\E v \in VMs : get_vm_config(v) \/ SkipVM(v)) \/ get_block_devices
  PROVE  TypeInv'
<1> USE DEF TypeInv, SanTypeOK, walkVars
<1>1. ASSUME NEW v \in VMs, get_vm_config(v) PROVE TypeInv'
  <2>1. \A s \in extract_disks(VMConfig(v)) : MatchedMpaths(s) \in SUBSET MultipathNames
    BY MatchedTyped
  <2> QED
    BY <1>1, <2>1 DEF get_vm_config
<1>2. ASSUME NEW v \in VMs, SkipVM(v) PROVE TypeInv'
  BY <1>2 DEF SkipVM
<1>3. CASE get_block_devices
  BY <1>3 DEF get_block_devices
<1> QED
  BY <1>1, <1>2, <1>3

LEMMA TypeInvStep == TypeInv /\ [SanNext]_sanVars => TypeInv'
<1> SUFFICES ASSUME TypeInv, [SanNext]_sanVars PROVE TypeInv'
  OBVIOUS
<1>1. CASE Work
  BY <1>1, ListStep, WalkStep, ConfigStep DEF Work
<1>2. CASE NextDiscovery
  BY <1>2 DEF NextDiscovery, Start, TypeInv, SanTypeOK
<1>3. CASE ChangesDevices
  BY <1>3 DEF ChangesDevices, TypeInv, SanTypeOK, walkVars
<1>4. CASE UNCHANGED sanVars
  BY <1>4 DEF sanVars, TypeInv, SanTypeOK, walkVars
<1> QED
  BY <1>1, <1>2, <1>3, <1>4 DEF SanNext

LEMMA SpecSteps == SanSpec => SanInit /\ [][SanNext]_sanVars
BY PTL DEF SanSpec

\* The types of the discovery, for every device mapper and every set of VMs.
THEOREM TypesCorrect == SanSpec => []SanTypeOK
<1>1. SanInit => TypeInv
  BY DEF SanInit, TypeInv, SanTypeOK
<1>2. TypeInv => SanTypeOK
  BY DEF TypeInv
<1> QED
  BY <1>1, <1>2, SpecSteps, TypeInvStep, PTL
-----------------------------------------------------------------------------
(* A walk, and what a discovery knows of each device.                      *)

Devices == DmDevices \cap DOMAIN world.name

\* What is reached from a device has it, and the slaves of what it has.
LEMMA ReachedIsClosed ==
  ASSUME NEW d \in DmDevices
  PROVE  /\ d \in Reached(d)
         /\ \A x \in Reached(d) : Slaves(x) \subseteq Reached(d)
         /\ Reached(d) \subseteq DmDevices
<1> DEFINE Closed(R) == d \in R /\ \A x \in R : Slaves(x) \subseteq R
<1>1. Reached(d) = {x \in DmDevices : \A R \in SUBSET DmDevices : Closed(R) => x \in R}
  BY DEF Reached
<1>2. \A x : Slaves(x) \subseteq DmDevices
  BY DEF Slaves
<1> QED
  BY <1>1, <1>2

\* Nothing else is reached than what any closed set has.
LEMMA ReachedIsLeast ==
  ASSUME NEW d \in DmDevices, NEW R \in SUBSET DmDevices, d \in R,
         \A x \in R : Slaves(x) \subseteq R
  PROVE  Reached(d) \subseteq R
BY DEF Reached

\* While the device mapper stays as it is, so does what can be found in it.
LEMMA SameWorld ==
  ASSUME UNCHANGED world
  PROVE  /\ Devices' = Devices
         /\ \A d : Slaves(d)' = Slaves(d) /\ Found(d)' = Found(d)
         /\ \A d : Reached(d)' = Reached(d) /\ Beneath(d)' = Beneath(d)
         /\ \A v : LunsOf(v)' = LunsOf(v)
<1>1. \A d : Slaves(d)' = Slaves(d) /\ Found(d)' = Found(d)
  BY DEF Slaves, Found, Exists
<1>2. \A d : Reached(d)' = Reached(d)
  BY <1>1 DEF Reached
<1>3. \A d : Beneath(d)' = Beneath(d)
  BY <1>1, <1>2 DEF Beneath
<1>4. \A v : LunsOf(v)' = LunsOf(v)
  BY <1>3 DEF LunsOf
<1> QED
  BY <1>1, <1>2, <1>3, <1>4 DEF Devices

\* The walk beneath a device: everything visited or still to be visited is reached, what
\* the visited ones lead to is among them, and what they are has been collected.
WalkInv ==
  IF phase = "Walking"
  THEN LET d == dev.number IN
       /\ d \in Devices /\ dev.name = world.name[d]
       /\ d \in todo \cup visited /\ todo \cup visited \subseteq Reached(d)
       /\ \A x \in visited : Slaves(x) \subseteq todo \cup visited
       /\ mpaths = UNION {Found(x) : x \in visited}
  ELSE todo = {} /\ visited = {} /\ mpaths = {}

\* Whatever the table has, it has rightly.
TableSound ==
  \A n \in DOMAIN mpath_map :
    \E d \in Devices : n \in {world.name[d], <<d>>} /\ mpath_map[n] = Beneath(d)

Known(d) == Beneath(d) = {} \/ {world.name[d], <<d>>} \subseteq DOMAIN mpath_map

\* The table has what has been resolved, and the LUNs are those of the VMs that have
\* been read; or no device is listed, and nothing is found for any VM.
Unlisted == expected = {} /\ devs = {} /\ DOMAIN mpath_map = {} /\ phase # "Walking"

Pending(d) == d \in devs \/ (phase = "Walking" /\ d = dev.number)

TableComplete == Unlisted \/ (vms \subseteq expected /\ \A d \in Devices : Pending(d) \/ Known(d))

ReadSoFar == luns = UNION {LunsOf(v) : v \in expected \ vms}

PhaseInv ==
  /\ phase \in {"Listing", "Devices"} => devs = {} /\ DOMAIN mpath_map = {} /\ luns = {}
  /\ phase = "Listing" => vms = {} /\ expected = {}
  /\ phase \in {"Devices", "Resolving", "Walking"} => expected \subseteq vms
  /\ phase = "Devices" => vms \subseteq expected
  /\ phase \in {"Resolving", "Walking"} => luns = {} /\ TableComplete
  /\ phase = "Configs" => devs = {} /\ TableComplete /\ ReadSoFar
  /\ phase = "Done" => luns = UNION {LunsOf(v) : v \in expected}

Undisturbed == WalkInv /\ TableSound /\ PhaseInv

\* What a VM's disks are resolved to is what is beneath the devices behind them.
LEMMA DisksResolved ==
  ASSUME TypeInv, TableSound, \A d \in Devices : Known(d), NEW v \in VMs
  PROVE  {MatchedMpaths(s) : s \in extract_disks(VMConfig(v))} \ {{}} = LunsOf(v)
<1> DEFINE disks == extract_disks(VMConfig(v))
           backed == Attached[v] \cap DOMAIN world.backing
           names(s) == Range(LookupNames(s))
<1>1. /\ backed \subseteq disks
      /\ \A s \in backed : /\ world.backing[s] \in Devices
                           /\ world.name[world.backing[s]] \in names(s)
      /\ \A s \in disks, d \in Devices :
           names(s) \cap {world.name[d], <<d>>} # {} => s \in backed /\ d = world.backing[s]
  BY NamingAssumption DEF TypeInv, SanTypeOK, Devices
<1> HIDE DEF disks, backed, names
<1>2. ASSUME NEW s \in disks, NEW n \in names(s), n \in DOMAIN mpath_map
      PROVE  s \in backed /\ mpath_map[n] = Beneath(world.backing[s])
  <2>1. PICK d \in Devices : n \in {world.name[d], <<d>>} /\ mpath_map[n] = Beneath(d)
    BY <1>2 DEF TableSound
  <2>2. s \in backed /\ d = world.backing[s]
    BY <1>1, <1>2, <2>1
  <2> QED
    BY <2>1, <2>2
<1>3. ASSUME NEW s \in disks, MatchedMpaths(s) # {}
      PROVE  s \in backed /\ MatchedMpaths(s) = Beneath(world.backing[s])
  <2>1. PICK n \in names(s) : n \in DOMAIN mpath_map /\ MatchedMpaths(s) = mpath_map[n]
    BY <1>3, FirstKnown DEF names
  <2> QED
    BY <1>2, <2>1
<1>4. ASSUME NEW s \in backed, Beneath(world.backing[s]) # {}
      PROVE  s \in disks /\ MatchedMpaths(s) = Beneath(world.backing[s])
  <2>1. s \in disks /\ world.name[world.backing[s]] \in names(s) \cap DOMAIN mpath_map
    BY <1>1, <1>4 DEF Known
  <2>2. PICK n \in names(s) : n \in DOMAIN mpath_map /\ MatchedMpaths(s) = mpath_map[n]
    BY <2>1, FirstKnown DEF names
  <2> QED
    BY <1>2, <2>1, <2>2
<1>5. LunsOf(v) = {Beneath(world.backing[s]) : s \in backed} \ {{}}
  BY DEF LunsOf, backed
<1>6. {MatchedMpaths(s) : s \in disks} \ {{}} = LunsOf(v)
  BY <1>3, <1>4, <1>5
<1> QED
  BY <1>6 DEF disks

\* An empty table resolves nothing.
LEMMA NothingResolved ==
  ASSUME DOMAIN mpath_map = {}, NEW v
  PROVE  {MatchedMpaths(s) : s \in extract_disks(VMConfig(v))} \ {{}} = {}
<1>1. \A s : MatchedMpaths(s) = {}
  BY FirstKnown
<1> QED
  BY <1>1
-----------------------------------------------------------------------------
(* The steps of an undisturbed discovery.                                  *)

LEMMA ListExact ==
  ASSUME TypeInv, Undisturbed,
         (\E mode \in Modes : list_running_vms(mode)) \/ ListingFails \/ ListDevices
  PROVE  Undisturbed'
<1> USE DEF Undisturbed, walkVars
<1>1. UNCHANGED <<world, dev, walkVars, mpath_map, luns>>
  BY DEF list_running_vms, ListingFails, ListDevices
<1>2. phase \in {"Listing", "Devices"} /\ phase' \in {"Devices", "Resolving", "Failed"}
  BY DEF list_running_vms, ListingFails, ListDevices
<1>3. DOMAIN mpath_map = {} /\ luns = {} /\ devs = {}
  BY <1>2 DEF PhaseInv
<1>4. WalkInv' /\ TableSound'
  BY <1>1, <1>2, <1>3 DEF WalkInv, TableSound
<1>5. ASSUME NEW mode \in Modes, list_running_vms(mode) PROVE PhaseInv'
  BY <1>1, <1>3, <1>5 DEF PhaseInv, list_running_vms
<1>6. CASE ListingFails
  BY <1>4, <1>6 DEF PhaseInv, ListingFails
<1>7. CASE ListDevices
  <2>1. /\ phase' = "Resolving" /\ vms' = vms /\ expected \subseteq vms /\ vms \subseteq expected
        /\ expected' = IF devs' = {} THEN {} ELSE expected
    BY <1>7 DEF ListDevices, PhaseInv
  <2>2. CASE devs' = {}
    <3>1. Unlisted'
      BY <1>1, <1>3, <2>1, <2>2 DEF Unlisted
    <3> QED
      BY <1>1, <1>3, <1>4, <2>1, <2>2, <3>1 DEF PhaseInv, TableComplete
  <2>3. CASE devs' # {}
    <3>1. devs' = Devices
      BY <1>7, <2>3 DEF ListDevices, Devices
    <3>2. TableComplete'
      BY <1>1, <2>1, <2>3, <3>1, SameWorld DEF TableComplete, Pending
    <3> QED
      BY <1>1, <1>3, <1>4, <2>1, <2>3, <3>2 DEF PhaseInv
  <2> QED
    BY <2>2, <2>3
<1> QED
  BY <1>4, <1>5, <1>6, <1>7

\* Which devices are still to be resolved, and what is known of the others.
LEMMA ResolveExact ==
  ASSUME TypeInv, Undisturbed,
         (\E d \in DmDevices : SkipDevice(d) \/ Resolve(d)) \/ DevicesResolved
  PROVE  Undisturbed'
<1> USE DEF Undisturbed
<1>1. UNCHANGED <<world, mpath_map, visited, mpaths, vms, luns, expected>>
  BY DEF SkipDevice, Resolve, DevicesResolved, walkVars
<1>2. phase = "Resolving" /\ luns = {} /\ TableComplete /\ expected \subseteq vms
  BY DEF SkipDevice, Resolve, DevicesResolved, PhaseInv
<1>3. TableSound'
  BY <1>1, SameWorld DEF TableSound
<1>4. \A d : Known(d)' <=> Known(d)
  BY <1>1, SameWorld DEF Known
<1>5. ASSUME NEW d \in DmDevices, SkipDevice(d) PROVE WalkInv' /\ PhaseInv'
  <2>1. phase' = "Resolving" /\ UNCHANGED todo /\ devs' = devs \ {d} /\ d \notin Devices
    BY <1>5 DEF SkipDevice, Devices, Exists, walkVars
  <2>2. TableComplete'
    BY <1>1, <1>2, <1>4, <2>1, SameWorld DEF TableComplete, Unlisted, Pending
  <2> QED
    BY <1>1, <1>2, <2>1, <2>2 DEF WalkInv, PhaseInv
<1>6. ASSUME NEW d \in DmDevices, Resolve(d) PROVE WalkInv' /\ PhaseInv'
  <2>1. /\ phase' = "Walking" /\ todo' = {d} /\ devs' = devs \ {d} /\ d \in devs
        /\ dev' = [number |-> d, name |-> world.name[d]] /\ d \in Devices
    BY <1>6 DEF Resolve, Devices, Exists
  <2>2. TableComplete'
    BY <1>1, <1>2, <1>4, <2>1, SameWorld DEF TableComplete, Unlisted, Pending
  <2>3. visited = {} /\ mpaths = {}
    BY <1>2 DEF WalkInv
  <2>4. WalkInv'
    <3>1. d \in Reached(d) /\ dev'.number = d /\ dev'.name = world.name[d]
      BY <2>1, ReachedIsClosed
    <3> QED
      BY <1>1, <2>1, <2>3, <3>1, SameWorld DEF WalkInv
  <2> QED
    BY <1>1, <1>2, <2>1, <2>2, <2>4 DEF PhaseInv
<1>7. CASE DevicesResolved
  <2>1. phase' = "Configs" /\ UNCHANGED <<devs, todo>> /\ devs = {}
    BY <1>7 DEF DevicesResolved, walkVars
  <2>2. TableComplete'
    BY <1>1, <1>2, <1>4, <2>1, SameWorld DEF TableComplete, Unlisted, Pending
  <2>3. ReadSoFar'
    BY <1>1, <1>2 DEF ReadSoFar
  <2> QED
    BY <1>1, <1>2, <1>3, <2>1, <2>2, <2>3 DEF WalkInv, PhaseInv
<1> QED
  BY <1>3, <1>5, <1>6, <1>7

LEMMA VisitExact ==
  ASSUME TypeInv, Undisturbed, NEW d \in DmDevices, find_multipaths_for_dm(d)
  PROVE  Undisturbed'
<1> USE DEF Undisturbed
<1>1. /\ UNCHANGED <<world, phase, devs, dev, mpath_map, vms, luns, expected>>
      /\ phase = "Walking" /\ d \in todo
  BY DEF find_multipaths_for_dm
<1>2. TableSound' /\ \A x : Known(x)' <=> Known(x)
  BY <1>1, SameWorld DEF TableSound, Known
<1>3. PhaseInv'
  <2>1. TableComplete'
    BY <1>1, <1>2, SameWorld DEF PhaseInv, TableComplete, Unlisted, Pending
  <2> QED
    BY <1>1, <2>1 DEF PhaseInv
<1>4. WalkInv'
  <2> DEFINE top == dev.number
  <2>1. /\ top \in Devices /\ dev.name = world.name[top]
        /\ top \in todo \cup visited /\ todo \cup visited \subseteq Reached(top)
        /\ \A x \in visited : Slaves(x) \subseteq todo \cup visited
        /\ mpaths = UNION {Found(x) : x \in visited}
    BY <1>1 DEF WalkInv
  <2>2. Slaves(d) \subseteq Reached(top)
    BY <1>1, <2>1, ReachedIsClosed DEF Devices
  <2>3. CASE d \in visited
    <3>1. todo' = todo \ {d} /\ UNCHANGED <<visited, mpaths>>
      BY <2>3 DEF find_multipaths_for_dm
    <3> QED
      BY <1>1, <2>1, <2>3, <3>1, SameWorld DEF WalkInv
  <2>4. CASE d \notin visited
    <3>1. /\ visited' = visited \cup {d}
          /\ todo' = (todo \ {d}) \cup Slaves(d)
          /\ mpaths' = mpaths \cup Found(d)
      BY <2>4 DEF find_multipaths_for_dm
    <3>2. mpaths' = UNION {Found(x) : x \in visited'}
      BY <2>1, <3>1
    <3>3. \A x \in visited' : Slaves(x) \subseteq todo' \cup visited'
      BY <2>1, <3>1
    <3>4. top \in todo' \cup visited' /\ todo' \cup visited' \subseteq Reached(top)
      BY <1>1, <2>1, <2>2, <3>1
    <3>5. \A x : Slaves(x)' = Slaves(x) /\ Found(x)' = Found(x) /\ Reached(x)' = Reached(x)
      BY <1>1, SameWorld
    <3>6. /\ top \in Devices' /\ dev'.number = top /\ dev'.name = world'.name[top]
          /\ phase' = "Walking"
      BY <1>1, <2>1, SameWorld
    <3> QED
      BY <1>1, <3>2, <3>3, <3>4, <3>5, <3>6 DEF WalkInv
  <2> QED
    BY <2>3, <2>4
<1> QED
  BY <1>2, <1>3, <1>4

\* A walk that has nothing left to visit has found what is beneath its device.
LEMMA EndExact ==
  ASSUME TypeInv, Undisturbed, EndWalk
  PROVE  Undisturbed'
<1> USE DEF Undisturbed
<1> PICK d : d = dev.number
  OBVIOUS
<1>1. /\ UNCHANGED <<world, devs, todo, vms, luns, expected>> /\ todo = {}
      /\ phase = "Walking" /\ phase' = "Resolving" /\ visited' = {} /\ mpaths' = {}
  BY DEF EndWalk
<1>2. d \in Devices /\ dev.name = world.name[d]
  BY <1>1 DEF WalkInv
<1>3. mpaths = Beneath(d)
  <2>1. /\ d \in visited /\ visited \subseteq Reached(d)
        /\ \A x \in visited : Slaves(x) \subseteq visited
        /\ mpaths = UNION {Found(x) : x \in visited}
    BY <1>1 DEF WalkInv
  <2>2. visited \in SUBSET DmDevices /\ d \in DmDevices
    BY <1>2 DEF TypeInv, SanTypeOK, Devices
  <2>3. Reached(d) \subseteq visited
    BY <2>1, <2>2, ReachedIsLeast
  <2> QED
    BY <2>1, <2>3 DEF Beneath
<1>4. CASE mpaths = {}
  <2>1. UNCHANGED mpath_map
    BY <1>4 DEF EndWalk
  <2>2. TableSound' /\ \A x : Known(x)' <=> Known(x)
    BY <1>1, <2>1, SameWorld DEF TableSound, Known
  <2>3. Known(d)
    BY <1>3, <1>4 DEF Known
  <2>4. TableComplete'
    BY <1>1, <2>1, <2>2, <2>3, SameWorld DEF PhaseInv, TableComplete, Unlisted, Pending
  <2> QED
    BY <1>1, <2>1, <2>2, <2>4 DEF WalkInv, PhaseInv
<1>5. CASE mpaths # {}
  <2>1. /\ DOMAIN mpath_map' = DOMAIN mpath_map \cup {world.name[d], <<d>>}
        /\ \A n \in DOMAIN mpath_map' :
             mpath_map'[n] = IF n \in {world.name[d], <<d>>} THEN Beneath(d) ELSE mpath_map[n]
    BY <1>2, <1>3, <1>5 DEF EndWalk, Entered
  <2>2. TableSound'
    <3>1. ASSUME NEW n \in DOMAIN mpath_map'
          PROVE  \E x \in Devices : n \in {world.name[x], <<x>>} /\ mpath_map'[n] = Beneath(x)
      <4>1. CASE n \in {world.name[d], <<d>>}
        BY <1>2, <2>1, <4>1
      <4>2. CASE n \notin {world.name[d], <<d>>}
        BY <2>1, <4>2 DEF TableSound
      <4> QED
        BY <4>1, <4>2
    <3> QED
      BY <1>1, <3>1, SameWorld DEF TableSound
  <2>3. Known(d)' /\ \A x : Known(x) => Known(x)'
    <3>1. \A x : Known(x)' <=>
            Beneath(x) = {} \/ {world.name[x], <<x>>} \subseteq DOMAIN mpath_map'
      BY <1>1, SameWorld DEF Known
    <3>2. \A x : Known(x) => Beneath(x) = {} \/ {world.name[x], <<x>>} \subseteq DOMAIN mpath_map
      BY DEF Known
    <3>3. {world.name[d], <<d>>} \subseteq DOMAIN mpath_map'
      BY <2>1
    <3>4. DOMAIN mpath_map \subseteq DOMAIN mpath_map'
      BY <2>1
    <3>5. Known(d)'
      BY <3>1, <3>3
    <3>6. ASSUME NEW x, Known(x) PROVE Known(x)'
      <4>1. CASE Beneath(x) = {}
        BY <3>1, <4>1
      <4>2. CASE {world.name[x], <<x>>} \subseteq DOMAIN mpath_map
        BY <3>1, <3>4, <4>2
      <4> QED
        BY <3>2, <3>6, <4>1, <4>2
    <3> QED
      BY <3>5, <3>6
  <2>4. TableComplete'
    BY <1>1, <2>1, <2>3, SameWorld DEF PhaseInv, TableComplete, Unlisted, Pending
  <2> QED
    BY <1>1, <2>2, <2>4 DEF WalkInv, PhaseInv
<1> QED
  BY <1>4, <1>5

\* One VM after the other; a VM that is left out is not expected either.
LEMMA ConfigExact ==
  ASSUME TypeInv, Undisturbed,
         (\E v \in VMs : get_vm_config(v) \/ SkipVM(v)) \/ get_block_devices
  PROVE  Undisturbed'
<1> USE DEF Undisturbed
<1>1. /\ UNCHANGED <<world, devs, dev, walkVars, mpath_map>>
      /\ phase = "Configs" /\ phase' \in {"Configs", "Done", "Failed"}
  BY DEF get_vm_config, SkipVM, get_block_devices
<1>2. TableSound' /\ \A d : Known(d)' <=> Known(d)
  BY <1>1, SameWorld DEF TableSound, Known
<1>3. WalkInv'
  BY <1>1 DEF WalkInv, walkVars
<1>4. devs = {} /\ TableComplete /\ ReadSoFar
  BY <1>1 DEF PhaseInv
<1>5. \A v : LunsOf(v)' = LunsOf(v)
  BY <1>1, SameWorld
<1>6. ASSUME NEW v \in VMs, get_vm_config(v) PROVE PhaseInv'
  <2> DEFINE resolved == {MatchedMpaths(s) : s \in extract_disks(VMConfig(v))} \ {{}}
  <2>1. /\ phase' = "Configs" /\ UNCHANGED expected /\ v \in vms /\ vms' = vms \ {v}
        /\ luns' = luns \cup resolved
    BY <1>6 DEF get_vm_config
  <2>2. resolved = IF v \in expected THEN LunsOf(v) ELSE {}
    <3>1. CASE Unlisted
      BY <3>1, NothingResolved DEF Unlisted
    <3>2. CASE ~Unlisted
      <4>1. v \in expected /\ \A d \in Devices : Known(d)
        BY <1>1, <1>4, <2>1, <3>2 DEF TableComplete, Pending
      <4> QED
        BY <4>1, DisksResolved
    <3> QED
      BY <3>1, <3>2
  <2> HIDE DEF resolved
  <2>3. TableComplete'
    BY <1>1, <1>2, <1>4, <2>1, SameWorld DEF TableComplete, Unlisted, Pending
  <2>4. ReadSoFar'
    <3>1. luns' = UNION {LunsOf(w) : w \in expected \ vms'}
      BY <1>4, <2>1, <2>2 DEF ReadSoFar
    <3> QED
      BY <1>5, <2>1, <3>1 DEF ReadSoFar
  <2> QED
    BY <1>1, <1>4, <2>1, <2>3, <2>4 DEF PhaseInv
<1>7. ASSUME NEW v \in VMs, SkipVM(v) PROVE PhaseInv'
  <2>1. /\ phase' = "Configs" /\ UNCHANGED luns /\ v \in vms /\ vms' = vms \ {v}
        /\ expected' = expected \ {v}
    BY <1>7 DEF SkipVM
  <2>2. TableComplete'
    BY <1>1, <1>2, <1>4, <2>1, SameWorld DEF TableComplete, Unlisted, Pending
  <2>3. expected' \ vms' = expected \ vms
    BY <2>1
  <2>4. ReadSoFar'
    BY <1>4, <1>5, <2>1, <2>3 DEF ReadSoFar
  <2> QED
    BY <1>1, <1>4, <2>1, <2>2, <2>4 DEF PhaseInv
<1>8. CASE get_block_devices
  <2>1. vms = {} /\ UNCHANGED <<luns, expected>> /\ phase' \in {"Done", "Failed"}
    BY <1>8 DEF get_block_devices
  <2>2. PhaseInv'
    BY <1>4, <1>5, <2>1 DEF ReadSoFar, PhaseInv
  <2> QED
    BY <1>2, <1>3, <2>2
<1> QED
  BY <1>2, <1>3, <1>6, <1>7, <1>8
-----------------------------------------------------------------------------
\* What a discovery has found is exact as long as the device mapper has not changed.
IInv == TypeInv /\ (calm => Undisturbed)

LEMMA InitInv == SanInit => IInv
<1> SUFFICES ASSUME SanInit PROVE IInv
  OBVIOUS
<1>1. TypeInv
  BY DEF SanInit, TypeInv, SanTypeOK
<1>2. DOMAIN mpath_map = {}
  BY DEF SanInit
<1>3. WalkInv /\ TableSound /\ PhaseInv
  BY <1>2 DEF SanInit, WalkInv, TableSound, PhaseInv
<1> QED
  BY <1>1, <1>3 DEF IInv, Undisturbed

LEMMA StepInv == IInv /\ [SanNext]_sanVars => IInv'
<1> SUFFICES ASSUME IInv, [SanNext]_sanVars PROVE IInv'
  OBVIOUS
<1>1. TypeInv /\ TypeInv'
  BY TypeInvStep DEF IInv
<1>2. ASSUME calm', Work PROVE Undisturbed'
  <2>1. calm
    BY <1>2 DEF Work, list_running_vms, ListingFails, ListDevices, SkipDevice, Resolve,
       find_multipaths_for_dm, EndWalk, DevicesResolved, get_vm_config, SkipVM,
       get_block_devices
  <2>2. Undisturbed
    BY <2>1 DEF IInv
  <2> QED
    BY <1>1, <1>2, <2>2, ListExact, ResolveExact, VisitExact, EndExact, ConfigExact DEF Work
<1>3. CASE NextDiscovery
  <2>1. DOMAIN mpath_map' = {}
    BY <1>3 DEF NextDiscovery, Start
  <2>2. WalkInv' /\ TableSound' /\ PhaseInv'
    BY <1>3, <2>1 DEF NextDiscovery, Start, WalkInv, TableSound, PhaseInv
  <2> QED
    BY <1>1, <2>2 DEF IInv, Undisturbed
<1>4. CASE ChangesDevices
  BY <1>1, <1>4 DEF ChangesDevices, IInv
<1>5. CASE UNCHANGED sanVars
  <2>1. Undisturbed' <=> Undisturbed
    <3>1. UNCHANGED <<world, phase, devs, dev, todo, visited, mpaths, mpath_map, vms, luns,
                      expected>>
      BY <1>5 DEF sanVars, walkVars
    <3>2. \A d : Known(d)' <=> Known(d)
      BY <3>1, SameWorld DEF Known
    <3>3. (TableComplete' <=> TableComplete) /\ (ReadSoFar' <=> ReadSoFar)
      BY <3>1, <3>2, SameWorld DEF TableComplete, Unlisted, Pending, ReadSoFar
    <3>4. (WalkInv' <=> WalkInv) /\ (TableSound' <=> TableSound)
      BY <3>1, SameWorld DEF WalkInv, TableSound
    <3>5. PhaseInv' <=> PhaseInv
      BY <3>1, <3>3, SameWorld DEF PhaseInv
    <3> QED
      BY <3>4, <3>5 DEF Undisturbed
  <2> QED
    BY <1>1, <1>5, <2>1 DEF IInv, sanVars
<1> QED
  BY <1>1, <1>2, <1>3, <1>4, <1>5 DEF SanNext, IInv

\* Every walk has found what it has visited, and the table what the walks have found.
THEOREM Inductive == SanSpec => []IInv
BY InitInv, StepInv, SpecSteps, PTL

\* An undisturbed discovery publishes exactly the LUNs beneath the disks of the VMs that it
\* does not leave out, however many VMs and devices there are and however deep they stack.
THEOREM DiscoveryCorrect == SanSpec => []LunsAreExact
<1>1. IInv => LunsAreExact
  BY DEF IInv, Undisturbed, PhaseInv, LunsAreExact
<1> QED
  BY <1>1, Inductive, PTL
=============================================================================
