---------------------------- MODULE MCSanStorage ----------------------------
(***************************************************************************)
(* Two maps under a volume that spans both and one stacked on it; a world  *)
(* in which the two volumes have exchanged their numbers, and one in which *)
(* the second map is gone and a volume on a local disk has come.           *)
(***************************************************************************)
EXTENDS SanStorage

MCVMs == {"vm1", "vm2"}

MpathA == <<"mpath", "a">>
MpathB == <<"mpath", "b">>
Spanned == <<"san", "-", "1", ":", "disk", "-", "0">>       \* san-1:disk-0
Stacked == <<"old", "-", "pool", ":", "thin">>              \* old-pool:thin
Direct == <<"/dev/mapper/", "mpath", "a">>
Local == <<"local", ":", "disk">>
Cdrom == <<"none">>

SpannedName == <<"san", "-", "-", "1", "-", "disk", "-", "-", "0">>
StackedName == <<"old", "-", "pool", "-", "thin">>          \* dash not escaped
LocalName == <<"local", "-", "disk">>

MCDevices == {"dm-0", "dm-1", "dm-2", "dm-3"}

Ordered ==
  [name |-> ("dm-0" :> MpathA @@ "dm-1" :> MpathB @@ "dm-2" :> SpannedName
               @@ "dm-3" :> StackedName),
   slaves |-> ("dm-0" :> {"sda", "sdb"} @@ "dm-1" :> {"sdc"} @@ "dm-2" :> {"dm-0", "dm-1"}
                 @@ "dm-3" :> {"dm-2", "dm-0"}),
   backing |-> (Spanned :> "dm-2" @@ Stacked :> "dm-3" @@ Direct :> "dm-0")]

Exchanged ==
  [name |-> ("dm-0" :> MpathA @@ "dm-1" :> MpathB @@ "dm-3" :> SpannedName
               @@ "dm-2" :> StackedName),
   slaves |-> ("dm-0" :> {"sda", "sdb"} @@ "dm-1" :> {"sdc"} @@ "dm-3" :> {"dm-1"}
                 @@ "dm-2" :> {"dm-3"}),
   backing |-> (Spanned :> "dm-3" @@ Stacked :> "dm-2" @@ Direct :> "dm-0")]

Shrunk ==
  [name |-> ("dm-0" :> MpathA @@ "dm-1" :> LocalName @@ "dm-3" :> SpannedName),
   slaves |-> ("dm-0" :> {"sda"} @@ "dm-1" :> {"sdd"} @@ "dm-3" :> {"dm-0", "dm-1"}),
   backing |-> (Spanned :> "dm-3" @@ Direct :> "dm-0" @@ Local :> "dm-1")]

MCWorlds == {Ordered, Exchanged, Shrunk}

Line(prefix, index, storage) == [key |-> <<prefix, index>>, value |-> storage]

CONSTANT NoNumber   \* what follows the prefix when it is not a number

MCConfig ==
  [vm1 |-> <<Line("scsi", NoNumber, Cdrom), Line("scsi", 0, Spanned), Line("scsi", 100, Direct),
             Line("efidisk", 0, Local), Section, Line("scsi", 0, Direct), Line("sata", 1, Direct)>>,
   vm2 |-> <<Line("virtio", 1, Direct), Line("ide", 2, Cdrom), Line("unused", 0, Spanned),
             Line("virtio", 1, Stacked), Line("virtio", 99, Direct)>>]

MCAttached == [vm1 |-> {Spanned, Local}, vm2 |-> {Stacked, Direct}]
MCModes == {"Pvesh", "LocalFiles"}
=============================================================================
