---------------------------- MODULE BlockDevice -----------------------------
(***************************************************************************)
(* The block devices of core/drivers/storage.h: a drive, or a partition,   *)
(* which is a window on one.  Nothing in the kernel writes to them, so     *)
(* their contents are a constant; a sector is a record whose field k says  *)
(* what was written there.                                                 *)
(***************************************************************************)
EXTENDS Integers, SequencesExt

CONSTANTS
    Disks,          \* the disks: a name, and its sectors by number
    SectorSize      \* bytes in a sector

ASSUME SectorAssumption == SectorSize \in Nat \ {0}

Blank == [k |-> "blank"]

(* The entries of a partition table, mbr_partition.                        *)
PartitionEntries == [system_id : 0 .. 255, start_lba : Nat, lba_size : Nat]

(* A device: the disk it is on, what that holds, and where it starts.     *)
WholeDrive(d) == [disk |-> d, sectors |-> Disks[d], offset |-> 0]
PartitionOf(dev, start) == [dev EXCEPT !.offset = @ + start]

MutReadSectors(dev, start, count) ==
    [i \in 1 .. count |->
        LET n == start + i - 1 IN IF n \in DOMAIN dev.sectors THEN dev.sectors[n] ELSE Blank]

(* BlockDevice::read(), through Partition::read() for a partition.         *)
ReadSectors(dev, start, count) ==
    [i \in 1 .. count |->
        LET n == dev.offset + start + i - 1
        IN IF n \in DOMAIN dev.sectors THEN dev.sectors[n] ELSE Blank]

(* The bytes of a buffer just read, where the reader counts in bytes.      *)
BytesOf(sectors) ==
    [i \in 1 .. Len(sectors) * SectorSize |->
        LET s == sectors[((i - 1) \div SectorSize) + 1]
        IN IF "bytes" \in DOMAIN s THEN s.bytes[((i - 1) % SectorSize) + 1] ELSE 0]

-----------------------------------------------------------------------------
(* What the file system drivers share: FileState, and the walk along a     *)
(* path.  A path is a sequence of names, with the empty name for a slash   *)
(* that no name follows.                                                   *)

NoVolume == [fs |-> "none"]
Attributes == {"subdir", "label", "device", "unused", "missing"}
FileStates == [inode : Nat, size : Nat, flags : SUBSET Attributes, position : {0}]
NotFound == [inode |-> 0, size |-> 0, flags |-> {"missing"}, position |-> 0]
IsDir(state) == "subdir" \in state.flags

(* A step of both resolve_path(): part is what the name stands for in the  *)
(* directory reached so far.                                               *)
Enter(last, name, part) ==
    CASE ~IsDir(last) -> NotFound
      [] IsDir(last) /\ name = <<>> -> last
      [] IsDir(last) /\ name # <<>> -> part

(* The end of both resolve_path_part(): the first entry with the name.     *)
FirstNamed(listed, name) ==
    LET found == {i \in DOMAIN listed : listed[i].name = name}
        first == listed[Min(found)]
    IN IF found = {} THEN NotFound
       ELSE [inode |-> first.inode, size |-> first.size, flags |-> first.flags, position |-> 0]

=============================================================================
