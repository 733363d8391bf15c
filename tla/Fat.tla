-------------------------------- MODULE Fat ---------------------------------
(***************************************************************************)
(* The FAT driver, core/filesystems/fat.cpp: recognising a volume, walking *)
(* cluster chains, parsing directories with long names, resolving paths    *)
(* and reading files.  One kernel thread calls it and the medium does not  *)
(* change, so an operation is a function of the volume and its arguments;  *)
(* what a volume keeps from one call to the next, the size of its buffer,  *)
(* is in Storage.                                                          *)
(*                                                                         *)
(* A name is a sequence of pieces of at most 13 characters, the length one *)
(* long-name entry holds; a piece that ends has fewer, and its terminator  *)
(* with it.  A file's content is bytes, and so is the allocation table.    *)
(***************************************************************************)
EXTENDS BlockDevice, FiniteSetsExt

CONSTANTS
    DirEntrySize,                   \* sizeof(dir_entry)
    Fat12Clusters, Fat16Clusters,   \* 4085 and 65525
    TableSizes,                     \* the values of VolumeInfo::sectorsPerFAT: 2^16
    SectorCounts,                   \* the values of VolumeInfo::dataSectors: 2^32
    FirstClusters,                  \* the values of dir_entry::first_cluster: 2^16
    MaxPieces                       \* whole pieces in a file name buffer: 19

ASSUME FatAssumption == /\ {DirEntrySize, Fat12Clusters, Fat16Clusters, MaxPieces} \subseteq Nat \ {0}
                        /\ {TableSizes, SectorCounts, FirstClusters} \subseteq Nat \ {0}
                        /\ Fat12Clusters < Fat16Clusters

(* What the driver finds in a boot sector, with what the place of the      *)
(* partition table holds, and in a directory.  handle_next() writes every  *)
(* piece of a name at its place, also outside the buffer: the disks have   *)
(* names of 1 .. MaxPieces pieces.  A short entry has its first cluster    *)
(* whole, the half at first_cluster and the one at not_used.               *)
BootSectors ==
    [k : {"bpb"}, signed : BOOLEAN, partitions : Seq(PartitionEntries), oem : STRING, signature : STRING, volume_label : Seq(STRING),
     bytes_per_sector : Nat, sectors_per_cluster : Nat, reserved_sectors : Nat, fat_count : Nat,
     sectors_per_fat : Nat, root_dir_entries : Nat, total_sectors : Nat, fsinfo_sector : Nat,
     root_dir_cluster : Nat]
Pieces == [text : Seq(STRING), ends : BOOLEAN]
NameBuffers == [0 .. MaxPieces - 1 -> Pieces]
DirEntries ==
    [k : {"erased", "end"}]
    \cup [k : {"lfn"}, seq : 1 .. MaxPieces, checksum : 0 .. 255, piece : Pieces]
    \cup [k : {"short"}, base : Seq(STRING), ext : Seq(STRING), attr : SUBSET Attributes, checksum : 0 .. 255,
          first_cluster : Nat, file_size : Nat]
DirSectors == [k : {"dir"}, entries : Seq(DirEntries)]

FatRoot == [inode |-> 0, size |-> 0, flags |-> {"subdir"}, position |-> 0]

-----------------------------------------------------------------------------
(* kfat::probe()                                                           *)

ValidSectorSizes == {SectorSize, 2 * SectorSize, 4 * SectorSize, 8 * SectorSize}
RoundUp(a, b) == (a + b - 1) \div b

TypeFor(clusters, rootSectors) ==
    CASE clusters = 0 -> "ExFAT"
      [] clusters \in 1 .. Fat12Clusters - 1 -> "FAT12"
      [] clusters \in Fat12Clusters .. Fat16Clusters - 1 -> "FAT16"
      [] clusters >= Fat16Clusters -> IF rootSectors = 0 THEN "FAT32" ELSE "none"

ChainEnd == [FAT12 |-> 4087, FAT16 |-> 65527, FAT32 |-> 268435447]

(* sectors_per_fat and total_sectors stand for the field in use, the       *)
(* 16-bit one or its 32-bit replacement; what is kept has 16 and 32 bits.  *)
SectorsPerFAT(bpb) == bpb.sectors_per_fat % TableSizes

Recognised(bpb) == /\ bpb.k = "bpb" /\ bpb.signed /\ bpb.oem \notin {"EXFAT", "NTFS"}
                   /\ bpb.bytes_per_sector \in ValidSectorSizes
                   /\ bpb.sectors_per_cluster \in {1, 2, 4, 8, 16, 32, 64, 128}
                   /\ 0 \notin {bpb.reserved_sectors, bpb.fat_count, SectorsPerFAT(bpb)}

(* A total that is too small makes dataSectors wrap.  signature stands for *)
(* the bytes at the place that goes with the type.                         *)
FatVolume(dev, bpb) ==
    LET rootDirectoryLBA == bpb.reserved_sectors + SectorsPerFAT(bpb) * bpb.fat_count
        rootDirSectors == RoundUp(bpb.root_dir_entries * DirEntrySize, bpb.bytes_per_sector)
        dataSectors == (bpb.total_sectors - (rootDirectoryLBA + rootDirSectors)) % SectorCounts
        type == TypeFor(dataSectors \div bpb.sectors_per_cluster, rootDirSectors)
        fsinfo == ReadSectors(dev, bpb.fsinfo_sector, 1)[1]
    IN  IF \/ ~Recognised(bpb)
           \/ type \notin DOMAIN ChainEnd
           \/ bpb.signature # type
           \/ (type = "FAT32" /\ fsinfo.k # "fsinfo")
        THEN NoVolume
        ELSE [fs |-> "fat", type |-> type, dev |-> dev, label |-> bpb.volume_label,
              bytesPerSector |-> bpb.bytes_per_sector, sectorsPerCluster |-> bpb.sectors_per_cluster,
              sectorsPerFAT |-> SectorsPerFAT(bpb), fatLBA |-> bpb.reserved_sectors,
              rootDirectoryLBA |-> rootDirectoryLBA, rootDirSectors |-> rootDirSectors,
              dataLBA |-> rootDirectoryLBA + rootDirSectors, loadedFAT |-> <<>>,
              root |-> IF type = "FAT32" THEN [FatRoot EXCEPT !.inode = bpb.root_dir_cluster]
                       ELSE [FatRoot EXCEPT !.size = rootDirSectors]]

FatProbe(dev) == FatVolume(dev, ReadSectors(dev, 0, 1)[1])

-----------------------------------------------------------------------------
(* Clusters.                                                               *)

FatByte(v, i) == IF i + 1 \in DOMAIN v.loadedFAT THEN v.loadedFAT[i + 1] ELSE 0
FatWord(v, i) == FatByte(v, i) + 256 * FatByte(v, i + 1)

MutNextCluster(v, c) ==
    CASE v.type = "FAT12" -> FatWord(v, c + c \div 2) % 4096
      [] v.type = "FAT16" -> FatWord(v, 2 * c)
      [] v.type = "FAT32" -> FatWord(v, 4 * c) + 65536 * (FatWord(v, 4 * c + 2) % 4096)

(* next_cluster(): entries of 12, 16 and 28 bits.                          *)
NextCluster(v, c) ==
    CASE v.type = "FAT12" -> IF c % 2 = 1 THEN FatWord(v, c + c \div 2) \div 16
                             ELSE FatWord(v, c + c \div 2) % 4096
      [] v.type = "FAT16" -> FatWord(v, 2 * c)
      [] v.type = "FAT32" -> FatWord(v, 4 * c) + 65536 * (FatWord(v, 4 * c + 2) % 4096)

(* The clusters a ClusterReader started at c visits; 0 is the root of a    *)
(* volume that has it outside its clusters, and ends the walk.             *)
Chain(v, c) ==
    LET chain[d \in Nat] ==
            IF d # 0 /\ NextCluster(v, d) < ChainEnd[v.type] THEN <<d>> \o chain[NextCluster(v, d)] ELSE <<d>>
    IN chain[c]

Extent(v, c) == IF c = 0 THEN [lba |-> v.rootDirectoryLBA, count |-> v.rootDirSectors]
                ELSE [lba |-> v.dataLBA + (c - 2) * v.sectorsPerCluster, count |-> v.sectorsPerCluster]

(* load_sectors(), as ClusterReader::read_next() calls it.                 *)
LoadCluster(v, c) ==
    LET converter == v.bytesPerSector \div SectorSize
    IN ReadSectors(v.dev, Extent(v, c).lba * converter, Extent(v, c).count * converter)

-----------------------------------------------------------------------------
(* Directories: EntryParser                                                *)

EmptyPiece == [text |-> <<>>, ends |-> TRUE]

(* A directory's name and extension are joined, a file's always get a dot. *)
ShortName(e) == [text |-> IF {"subdir", "label"} \cap e.attr # {} THEN e.base \o e.ext
                          ELSE e.base \o <<".">> \o e.ext, ends |-> TRUE]

NameIn(buff) ==
    LET last == CHOOSE n \in 0 .. MaxPieces - 1 :
                    /\ \A m \in 0 .. n - 1 : ~buff[m].ends
                    /\ buff[n].ends \/ n = MaxPieces - 1
    IN FlattenSeq([i \in 1 .. last + 1 |-> buff[i - 1].text])

NewParser(buff) == [parsing |-> FALSE, checksum |-> 0, buff |-> buff, ready |-> FALSE]

Skipped(e) == e.k = "erased" \/ (e.k = "short" /\ {"device", "unused"} \cap e.attr # {})

MutHandleNext(p, e) ==
    CASE Skipped(e) -> [p EXCEPT !.ready = FALSE]
      [] e.k = "lfn" -> [parsing |-> TRUE, checksum |-> e.checksum,
                         buff |-> [p.buff EXCEPT ![e.seq - 1] = e.piece], ready |-> FALSE]
      [] OTHER -> IF p.parsing THEN [p EXCEPT !.parsing = FALSE, !.ready = TRUE]
                  ELSE [p EXCEPT !.buff[0] = ShortName(e), !.ready = TRUE]

(* handle_next(); a long-name entry's 13 characters go to their place in   *)
(* the buffer as they are, with a terminator or without.                   *)
HandleNext(p, e) ==
    CASE Skipped(e) ->
             [p EXCEPT !.parsing = FALSE, !.ready = FALSE]
      [] e.k = "lfn" -> [parsing |-> TRUE, checksum |-> e.checksum,
                         buff |-> [p.buff EXCEPT ![e.seq - 1] = e.piece], ready |-> FALSE]
      [] OTHER -> IF p.parsing /\ p.checksum = e.checksum
                  THEN [p EXCEPT !.parsing = FALSE, !.ready = TRUE]
                  ELSE [p EXCEPT !.buff[0] = ShortName(e), !.ready = TRUE]

(* The entries of one loaded cluster, up to the first empty one.           *)
EntriesIn(sectors) ==
    LET all == FlattenSeq([i \in 1 .. Len(sectors) |->
                   IF sectors[i].k = "dir" THEN sectors[i].entries ELSE <<[k |-> "end"]>>])
        ends == {i \in DOMAIN all : all[i].k = "end"}
    IN  IF ends = {} THEN all ELSE SubSeq(all, 1, Min(ends) - 1)

(* What a walk over a directory comes by: every cluster of the chain, also *)
(* past the one with the empty entry.                                      *)
EntriesOf(v, cluster) ==
    LET clusters == Chain(v, cluster)
    IN FlattenSeq([i \in DOMAIN clusters |-> EntriesIn(LoadCluster(v, clusters[i]))])

(* The parser after each of the entries.                                   *)
Parsing(buff, entries) ==
    LET parser[i \in 0 .. Len(entries)] ==
            IF i = 0 THEN NewParser(buff) ELSE HandleNext(parser[i - 1], entries[i])
    IN parser

(* The half of the first cluster that a FAT32 entry keeps elsewhere is     *)
(* left out.                                                               *)
HandedOut(p, e) ==
    [name |-> NameIn(p.buff), inode |-> e.first_cluster % FirstClusters, size |-> e.file_size, flags |-> e.attr]

(* What it hands out: the entries at which a name is ready.                *)
Listing(v, cluster, buff) ==
    LET entries == EntriesOf(v, cluster)
        parser == Parsing(buff, entries)
    IN FlattenSeq([i \in DOMAIN entries |->
                       IF parser[i].ready THEN <<HandedOut(parser[i], entries[i])>> ELSE <<>>])

AllEmpty == [i \in 0 .. MaxPieces - 1 |-> EmptyPiece]

(* resolve_path_part(), whose name buffer starts with what the stack held. *)
FatPart(v, inode, name, buff) == FirstNamed(Listing(v, inode, buff), name)

(* Where the walk along a path is after each of its names.                 *)
FatWalk(v, path, buff) ==
    LET last[i \in 0 .. Len(path)] ==
            IF i = 0 THEN v.root
            ELSE Enter(last[i - 1], path[i], FatPart(v, last[i - 1].inode, path[i], buff))
    IN last

FatResolve(v, path, buff) == FatWalk(v, path, buff)[Len(path)]

(* on_init(): load the table, then look for a label entry in the root.     *)
LoadFAT(v) ==
    LET sectors == (v.sectorsPerFAT * v.bytesPerSector) \div SectorSize
    IN [v EXCEPT !.loadedFAT = BytesOf(ReadSectors(v.dev, v.fatLBA, sectors))]

FindLabel(v) ==
    LET labels == SelectSeq(Listing(v, v.root.inode, AllEmpty), LAMBDA e : "label" \in e.flags)
    IN IF labels = <<>> THEN v ELSE [v EXCEPT !.label = labels[1].name]

FatInit(v) == FindLabel(LoadFAT(v))

-----------------------------------------------------------------------------
(* read_file(): the clusters from the one guessed for the position on, the *)
(* portion of each copied to the start of the caller's buffer.             *)

MutFirstCluster(v, state) == state.inode + state.position \div v.bytesPerSector

FirstCluster(v, state) == state.inode + (state.position \div v.bytesPerSector) \div v.sectorsPerCluster

CopyPortion(s, size, data) ==
    LET offset == s.position % Len(data)
        portion == Min({Len(data) - offset, size - s.position, s.left})
    IN  IF s.fault \/ s.over THEN s
        ELSE IF data = <<>> THEN [s EXCEPT !.fault = TRUE]
        ELSE [position |-> s.position + portion, left |-> s.left - portion,
              out |-> SubSeq(data, offset + 1, offset + portion) \o SubSeq(s.out, portion + 1, Len(s.out)),
              over |-> s.left = portion, fault |-> FALSE]

ReadingStarts(state, length) ==
    [position |-> state.position, left |-> length, out |-> <<>>, over |-> FALSE, fault |-> FALSE]

(* How far it is after each of the clusters.                               *)
FatReading(v, state, length, clusters) ==
    LET copied[i \in 0 .. Len(clusters)] ==
            IF i = 0 THEN ReadingStarts(state, length)
            ELSE CopyPortion(copied[i - 1], state.size, BytesOf(LoadCluster(v, clusters[i])))
    IN copied

FatReadFile(v, state, length) ==
    LET clusters == Chain(v, FirstCluster(v, state))
    IN FatReading(v, state, length, clusters)[Len(clusters)]

=============================================================================
