----------------------------- MODULE DiskLayout -----------------------------
(***************************************************************************)
(* The disk image of an online build and of the builds from its lock: the  *)
(* sizes chosen once the tarball is there, the lock that records them, the *)
(* lock read back as hostile input, the partition table and the bytes each *)
(* partition is copied to (internal/builder/disklayout.go, and             *)
(* renderSfdiskScript and assemble in diskassemble.go).  Sizes are bytes.  *)
(***************************************************************************)
EXTENDS Integers, Sequences

CONSTANTS MiB, Sector,   \* bytes in each
          EspMiB, HeadroomMiB, MaxMiB, EspMinMiB, EspMaxMiB, \* the code's constants, in MiB
          Tarballs,      \* the sizes a tarball may have
          Requests,      \* the [disk] size of a recipe in MiB, 0 for none
          DiskSeeds, Shims,  \* what an online build may draw, the shims a lock may name
          Edited         \* the sizes a hand may write in a lock

ASSUME GeometryAssumption ==
  /\ Sector \in Nat \ {0} /\ MiB \in Nat \ {0} /\ MiB % Sector = 0
  /\ {EspMiB, HeadroomMiB, MaxMiB, EspMinMiB, EspMaxMiB} \subseteq Nat \ {0}
  /\ EspMiB \in EspMinMiB..EspMaxMiB
  /\ Tarballs \subseteq Nat /\ Requests \subseteq 0..MaxMiB /\ Edited \subseteq Int

VARIABLES layout, \* of the build that runs
          request, tarball,
          locked, \* what the lock records
          disk,   \* what was assembled: the table and where the bytes went
          before, \* the disk and the tarball of the build that wrote the lock
          state

diskVars == <<layout, request, tarball, locked, disk, before, state>>

NoLayout == [seed |-> "none", shim |-> "none", esp |-> 0, root |-> 0, disk |-> 0]
NoDisk == [table |-> <<>>, bytes |-> <<>>, ids |-> <<>>]

FirstPartition == MiB
EspBytes == EspMiB * MiB
GPTTail  == MiB
Headroom == HeadroomMiB * MiB

-----------------------------------------------------------------------------
RoundUpToMiB(size) == ((size + MiB - 1) \div MiB) * MiB
RootFor(t) == RoundUpToMiB(t + t \div 4 + Headroom)
Whole(esp, root) == FirstPartition + esp + root + GPTTail

(* No tarball is so large that its disk passes what validate lets a recipe *)
(* ask for, 64 TiB.                                                        *)
ASSUME TarballAssumption ==
  \A t \in Tarballs : Whole(EspBytes, RootFor(t)) <= MaxMiB * MiB

(* The layout of an online build, drawn and then sized by its tarball, or  *)
(* by the recipe, which may ask for too little.                            *)
NewDiskLayout(seed, shim) ==
  [seed |-> seed, shim |-> shim, esp |-> EspBytes, root |-> 0, disk |-> 0]
TooSmallForTheRoot(l, t, asked) == asked # 0 /\ asked * MiB < RootFor(t)
TooSmall(l, t, asked) == asked # 0 /\ asked * MiB < Whole(l.esp, RootFor(t))
Size(l, t, asked) ==
  IF asked = 0
  THEN [l EXCEPT !.root = RootFor(t), !.disk = Whole(l.esp, RootFor(t))]
  ELSE [l EXCEPT !.root = asked * MiB - FirstPartition - l.esp - GPTTail, !.disk = asked * MiB]

(* What a lock's sizes must be, whoever wrote it.                          *)
WholeMiB(size) == size > 0 /\ size % MiB = 0
CheckedOneByOne(l) ==
  /\ WholeMiB(l.esp) /\ WholeMiB(l.root) /\ WholeMiB(l.disk)
  /\ l.esp >= EspMinMiB * MiB /\ l.esp <= EspMaxMiB * MiB /\ l.disk <= MaxMiB * MiB
CheckSizes(l) ==
  /\ WholeMiB(l.esp) /\ WholeMiB(l.root) /\ WholeMiB(l.disk)
  /\ l.esp >= EspMinMiB * MiB /\ l.esp <= EspMaxMiB * MiB
  /\ l.disk = Whole(l.esp, l.root)
  /\ l.disk <= MaxMiB * MiB
DiskLayoutFromLock(l) == l.seed \in DiskSeeds /\ l.shim \in Shims /\ CheckSizes(l)

(* Every identifier derives from the seed.                                 *)
Derive(key, message) == <<key, message>>
Identifiers(seed) ==
  LET esp  == Derive(seed, "esp type")
      root == Derive(seed, "root type")
  IN [disk |-> Derive(seed, "disk-uuid"), espPartition |-> esp, rootPartition |-> root,
      espFilesystem |-> Derive(esp, "file-system-uuid"),
      rootFilesystem |-> Derive(root, "file-system-uuid"), rootHashSeed |-> Derive(root, "hash-seed")]

(* The table in sectors, and where dd seeks to, in MiB.                    *)
RenderSfdiskScript(l) ==
  <<[start |-> FirstPartition \div Sector, size |-> l.esp \div Sector],
    [start |-> (FirstPartition + l.esp) \div Sector, size |-> l.root \div Sector]>>
Placed(l) ==
  <<[seek |-> FirstPartition \div MiB, size |-> l.esp],
    [seek |-> (FirstPartition + l.esp) \div MiB, size |-> l.root]>>
Assembled(l) == [table |-> RenderSfdiskScript(l), bytes |-> Placed(l), ids |-> Identifiers(l.seed)]

-----------------------------------------------------------------------------
DiskInit ==
  /\ layout = NoLayout /\ locked = NoLayout /\ disk = NoDisk
  /\ before = [disk |-> NoDisk, layout |-> NoLayout]
  /\ request = 0 /\ tarball = 0 /\ state = "start"

Online ==
  /\ state \in {"start", "done"}
  /\ \E seed \in DiskSeeds, shim \in Shims, t \in Tarballs, asked \in Requests :
       /\ request' = asked /\ tarball' = t
       /\ IF TooSmall(NewDiskLayout(seed, shim), t, asked)
          THEN state' = "refused" /\ layout' = NewDiskLayout(seed, shim)
          ELSE state' = "sized" /\ layout' = Size(NewDiskLayout(seed, shim), t, asked)
  /\ disk' = NoDisk /\ UNCHANGED <<locked, before>>

Assemble ==
  /\ state \in {"sized", "from lock"}
  /\ disk' = Assembled(layout)
  /\ state' = (IF state = "sized" THEN "built" ELSE "rebuilt")
  /\ UNCHANGED <<layout, request, tarball, locked, before>>

WriteLock ==
  /\ state = "built" /\ locked' = layout /\ state' = "done"
  /\ before' = [disk |-> disk, layout |-> layout]
  /\ UNCHANGED <<layout, request, tarball, disk>>

EditSizes ==
  /\ state = "done"
  /\ \E size \in Edited, field \in {"esp", "root", "disk"} : locked' = [locked EXCEPT ![field] = size]
  /\ state' = "edited" /\ UNCHANGED <<layout, request, tarball, disk, before>>

Offline ==
  /\ state \in {"done", "edited"} /\ layout' = locked
  /\ state' = (IF DiskLayoutFromLock(locked) THEN "from lock" ELSE "bad lock")
  /\ disk' = NoDisk /\ UNCHANGED <<request, tarball, locked, before>>

DiskNext == Online \/ Assemble \/ WriteLock \/ EditSizes \/ Offline
DiskSpec == DiskInit /\ [][DiskNext]_diskVars

-----------------------------------------------------------------------------
LayoutType == [seed : DiskSeeds \cup {"none"}, shim : Shims \cup {"none"}, esp : Int, root : Int, disk : Int]
SizeType   == [seed : DiskSeeds, shim : Shims, esp : Nat, root : Nat, disk : Nat]
DiskTypeOK ==
  /\ layout \in LayoutType /\ locked \in LayoutType /\ request \in Requests \cup {0}
  /\ state \in {"sized", "built", "done", "from lock", "rebuilt"} => layout \in SizeType
  /\ tarball \in Tarballs \cup {0}
  /\ state \in {"start", "sized", "refused", "built", "done", "edited", "from lock", "bad lock", "rebuilt"}

(* Whatever sizes a disk is assembled from, the build's own or a lock's    *)
(* that a hand has changed, the table keeps its partitions on whole MiBs,  *)
(* one after the other, between the first MiB and the table's copy at the  *)
(* end, and the bytes of each are copied to where the table says it is.    *)
(* The root of an online build holds its tarball with room to spare, the   *)
(* lock it writes is one an offline build takes, and from it the disk is   *)
(* the same.                                                               *)
Bytes(sectors) == sectors * Sector
Aligned(partition) == Bytes(partition.start) % MiB = 0 /\ Bytes(partition.size) % MiB = 0
End(partition) == Bytes(partition.start) + Bytes(partition.size)
TableFits ==
  disk # NoDisk =>
    /\ \A i \in {1, 2} :
         /\ Aligned(disk.table[i]) /\ disk.table[i].size > 0
         /\ Bytes(disk.table[i].start) = disk.bytes[i].seek * MiB
         /\ Bytes(disk.table[i].size) = disk.bytes[i].size
    /\ Bytes(disk.table[1].start) = FirstPartition
    /\ End(disk.table[1]) <= Bytes(disk.table[2].start)
    /\ End(disk.table[2]) + GPTTail = layout.disk
RootHolds == state \in {"sized", "built", "done"} => layout.root >= tarball + tarball \div 4 + Headroom
LockIsTaken ==
  /\ state = "done" => DiskLayoutFromLock(locked)
  /\ state = "rebuilt" /\ locked = before.layout => disk = before.disk
PartitionsFit == TableFits /\ RootHolds /\ LockIsTaken
=============================================================================
