------------------------------ MODULE Storage -------------------------------
(***************************************************************************)
(* Volumes, core/drivers/storage.cpp with both file system drivers: at     *)
(* boot every drive is mounted, whole or by its partitions; afterwards the *)
(* shell's dir and readf list directories, open files and read them a      *)
(* portion at a time.  One kernel thread does all of it, one command after *)
(* the other.                                                              *)
(***************************************************************************)
EXTENDS Fat, Iso9660

CONSTANTS
    MaxDevices,     \* MAX_DEVICES: 16
    Machines,       \* the drives found, in order
    Paths,          \* what dir and readf are asked for
    Junk,           \* what a name buffer on the stack can hold before its first use
    ReadLengths,    \* the lengths a file is read by; the shell's is one sector
    HeapRoom,       \* bytes that the heap has for the buffers of volumes
    PageRoom,       \* bytes that alloc_pages() has for allocation tables
    Holds,          \* of each disk: the volumes it was written to hold, each with its tree
    FullPieces      \* the pieces of names with all 13 characters

ASSUME StorageAssumption == MaxDevices \in Nat \ {0} /\ ReadLengths \subseteq Nat \ {0}
                            /\ HeapRoom \in Nat /\ PageRoom \in Nat

(* What a sector can hold, and so every disk.                              *)
SectorContents ==
    [k : {"blank", "fsinfo"}] \cup [k : {"data", "fat"}, bytes : [1 .. SectorSize -> 0 .. 255]]
    \cup [k : {"mbr"}, partitions : Seq(PartitionEntries)]
    \cup BootSectors \cup DirSectors \cup Descriptors \cup DirBlocks

ASSUME DisksAssumption ==
    /\ Machines \subseteq Seq(DOMAIN Disks) /\ Paths \subseteq Seq(Seq(STRING)) /\ Junk \subseteq NameBuffers
    /\ \A d \in DOMAIN Disks : \A n \in DOMAIN Disks[d] : Disks[d][n] \in SectorContents

VARIABLES
    drives,     \* the machine's drives
    next,       \* the drive kstorage::init() mounts next
    volumes,    \* volumes[], without the buffers
    buffers,    \* of each volume: sectors allocated and sectors last loaded
    file,       \* the file readf is reading
    answer,     \* the outcome of the last call
    phase       \* boot, ready, or how the machine stopped

storageVars == <<drives, next, volumes, buffers, file, answer, phase>>

NoFile == [path |-> "none"]
NoAnswer == [op |-> "none"]
NoBuffer == [size |-> 0, holds |-> 0]

StorageInit ==
    /\ drives \in Machines /\ next = 1
    /\ volumes = <<>> /\ buffers = <<>>
    /\ file = NoFile /\ answer = NoAnswer /\ phase = IF drives = <<>> THEN "ready" ELSE "boot"

-----------------------------------------------------------------------------
(* The buffer of a FAT volume: load_sectors() frees it when it is too      *)
(* small and allocates it when there is none.                              *)

MutLoadSectors(buffer, sectors) ==
    [size |-> IF buffer.size = 0 THEN sectors ELSE buffer.size, holds |-> sectors]

LoadSectors(buffer, sectors) ==
    [size |-> IF buffer.size = 0 \/ sectors > buffer.size THEN sectors ELSE buffer.size,
     holds |-> sectors]

(* The buffer after each of the clusters of a walk.                        *)
Loads(v, buffer, clusters) ==
    LET after[i \in 0 .. Len(clusters)] ==
            IF i = 0 THEN buffer ELSE LoadSectors(after[i - 1], Extent(v, clusters[i]).count)
    IN after

Loading(v, buffer, clusters) ==
    IF v.fs = "fat" THEN Loads(v, buffer, clusters)[Len(clusters)] ELSE buffer

(* The clusters of the directories that resolving a path searches.         *)
Searched(v, path, junk) ==
    LET last == FatWalk(v, path, junk)
    IN FlattenSeq([i \in DOMAIN path |-> IF path[i] # <<>> /\ IsDir(last[i - 1])
                                         THEN Chain(v, last[i - 1].inode) ELSE <<>>])

(* What the volumes have of the heap and of the pages.  A load that finds  *)
(* no room in the heap stops the kernel; a table that finds no pages is    *)
(* read to address 0, or stops the kernel in paging_map(), and the model   *)
(* ends.  A heap in pieces may refuse sooner.                              *)
BufferBytes(v, buffer) == IF v.fs = "fat" THEN buffer.size * v.bytesPerSector ELSE 0
TableBytes(v) == IF v.fs = "fat" THEN Len(v.loadedFAT) ELSE 0
Fit(vols, buffs) ==
    /\ SumFunction([n \in DOMAIN vols |-> BufferBytes(vols[n], buffs[n])]) <= HeapRoom
    /\ SumFunction([n \in DOMAIN vols |-> TableBytes(vols[n])]) <= PageRoom

-----------------------------------------------------------------------------
(* Mounting.                                                               *)

ProbeDevice(device) == IF IsoProbe(device) # NoVolume THEN IsoProbe(device) ELSE FatProbe(device)

OnInit(volume) == IF volume.fs = "fat" THEN FatInit(volume) ELSE IsoInit(volume)

AddVolume(s, volume) ==
    [s EXCEPT !.volumes = Append(@, volume),
              !.buffers = Append(@, Loading(volume, NoBuffer, Chain(volume, volume.root.inode)))]

AddIfFits(s, volume) ==
    LET added == AddVolume(s, volume)
    IN IF Fit(added.volumes, added.buffers) THEN added ELSE [s EXCEPT !.phase = "exhausted"]

(* mount(): at the limit it panics before it has looked at the device.     *)
MountProbed(s, volume) ==
    CASE s.phase # "boot" -> s
      [] s.phase = "boot" /\ Len(s.volumes) >= MaxDevices -> [s EXCEPT !.phase = "panic"]
      [] s.phase = "boot" /\ Len(s.volumes) < MaxDevices ->
             CASE volume = NoVolume -> s
               [] volume = Stuck -> [s EXCEPT !.phase = "stuck"]
               [] OTHER -> AddIfFits(s, OnInit(volume))

Mount(s, device) == MountProbed(s, ProbeDevice(device))

(* analyze_partitioning() takes every sector with the signature for a      *)
(* master boot record, also a boot sector that the probes refused.         *)
Signed(sector) == sector.k = "mbr" \/ (sector.k = "bpb" /\ sector.signed)
PartitionsOf(device) ==
    LET sector == ReadSectors(device, 0, 1)[1]
    IN IF Signed(sector) THEN sector.partitions ELSE <<>>

InUse(entry) == entry.system_id # 0 /\ entry.lba_size # 0

(* What is mounted after each of the entries.                              *)
Mounting(before, device, entries) ==
    LET mounted[i \in 0 .. Len(entries)] ==
            IF i = 0 THEN before
            ELSE IF ~InUse(entries[i]) THEN mounted[i - 1]
            ELSE Mount(mounted[i - 1], PartitionOf(device, entries[i].start_lba))
    IN mounted

(* mount_drive(): the partitions only when the drive itself has no volume. *)
OrPartitions(before, whole, device) ==
    LET entries == PartitionsOf(device)
    IN IF whole # before THEN whole ELSE Mounting(before, device, entries)[Len(entries)]

Becomes(s) ==
    /\ volumes' = s.volumes /\ buffers' = s.buffers
    /\ phase' = IF s.phase = "boot" /\ next = Len(drives) THEN "ready" ELSE s.phase

MountDrive ==
    /\ phase = "boot" /\ next <= Len(drives)
    /\ LET before == [volumes |-> volumes, buffers |-> buffers, phase |-> phase]
           device == WholeDrive(drives[next])
       IN Becomes(OrPartitions(before, Mount(before, device), device))
    /\ next' = next + 1
    /\ UNCHANGED <<drives, file, answer>>

-----------------------------------------------------------------------------
(* The calls of the shell's commands.                                      *)

Resolve(v, path, junk) == IF v.fs = "fat" THEN FatResolve(v, path, junk) ELSE IsoResolve(v, path)

(* read_dir(); what resolve_path() or the directory test refuses is empty. *)
ReadDir(v, state) ==
    CASE ~IsDir(state) -> <<>>
      [] IsDir(state) /\ v.fs = "fat" -> Listing(v, state.inode, AllEmpty)
      [] IsDir(state) /\ v.fs = "iso" -> IsoListing(v, state)

ReadTo(v, state, length) == IF v.fs = "fat" THEN FatReadFile(v, state, length) ELSE IsoReadFile(v, state, length)

AtPrompt == phase = "ready" /\ file = NoFile /\ answer = NoAnswer

(* The clusters a call walks over are loaded one by one; it does not       *)
(* return when the heap has no room for one of them.                       *)
Loaded(n, clusters) == [buffers EXCEPT ![n] = Loading(volumes[n], @, clusters)]
Load(n, clusters) == Fit(volumes, Loaded(n, clusters)) /\ buffers' = Loaded(n, clusters)
RunsOut(n, clusters) == /\ ~Fit(volumes, Loaded(n, clusters))
                        /\ phase' = "exhausted"
                        /\ UNCHANGED <<drives, next, volumes, buffers, file, answer>>

ListDir(n, path, junk) ==
    LET v == volumes[n]
        dir == Resolve(v, path, junk)
        walked == Searched(v, path, junk) \o (IF IsDir(dir) THEN Chain(v, dir.inode) ELSE <<>>)
    IN  /\ AtPrompt
        /\ \/ RunsOut(n, walked)
           \/ /\ Load(n, walked)
              /\ answer' = [op |-> "dir", v |-> n, path |-> path, out |-> ReadDir(v, dir)]
              /\ UNCHANGED <<drives, next, volumes, file, phase>>

OpenFile(n, path, junk) ==
    LET v == volumes[n]
        state == Resolve(v, path, junk)
        walked == Searched(v, path, junk)
    IN  /\ AtPrompt
        /\ \/ RunsOut(n, walked)
           \/ /\ Load(n, walked)
              /\ answer' = [op |-> "open", v |-> n, path |-> path, out |-> state]
              /\ file' = IF state = NotFound THEN NoFile ELSE [path |-> path, v |-> n, state |-> state]
              /\ UNCHANGED <<drives, next, volumes, phase>>

(* One read_file(); dividing by a cluster of no bytes is an exception that *)
(* stops the kernel.                                                       *)
ReadFile(length) ==
    LET v == volumes[file.v]
        got == ReadTo(v, file.state, length)
        walked == Chain(v, FirstCluster(v, file.state))
    IN  /\ phase = "ready" /\ file # NoFile /\ answer = NoAnswer
        /\ \/ RunsOut(file.v, walked)
           \/ /\ Load(file.v, walked)
              /\ answer' = [op |-> "read", v |-> file.v, path |-> file.path, at |-> file.state.position,
                            length |-> length, end |-> got.position, out |-> got.out]
              /\ phase' = IF got.fault THEN "fault" ELSE phase
              /\ file' = [file EXCEPT !.state.position = got.position]
              /\ UNCHANGED <<drives, next, volumes>>

(* The caller takes the result; readf stops at the end of the file, or by  *)
(* a key before it.                                                        *)
Return ==
    /\ phase = "ready" /\ answer # NoAnswer
    /\ answer' = NoAnswer
    /\ \/ file # NoFile /\ (answer.op = "read" => file.state.position # file.state.size) /\ UNCHANGED file
       \/ (answer.op = "open" => file = NoFile) /\ file' = NoFile
    /\ UNCHANGED <<drives, next, volumes, buffers, phase>>

StorageNext ==
    \/ MountDrive
    \/ \E n \in DOMAIN volumes, path \in Paths, junk \in Junk :
           ListDir(n, path, junk) \/ OpenFile(n, path, junk)
    \/ \E length \in ReadLengths : ReadFile(length)
    \/ Return

StorageSpec == StorageInit /\ [][StorageNext]_storageVars

-----------------------------------------------------------------------------

(* Types; every volume has its buffer, and no load is larger than the      *)
(* buffer it goes to, though the root and the clusters of a volume share   *)
(* one (load_sectors()); a file is never read past its end.                *)
StorageOK ==
    /\ drives \in Machines /\ next \in 1 .. Len(drives) + 1
    /\ Len(volumes) <= MaxDevices /\ \A n \in DOMAIN volumes : volumes[n].fs \in {"fat", "iso"}
    /\ DOMAIN buffers = DOMAIN volumes
    /\ \A n \in DOMAIN buffers : buffers[n] \in [size : Nat, holds : Nat] /\ buffers[n].holds <= buffers[n].size
    /\ file # NoFile => file.v \in DOMAIN volumes /\ file.state.position \in 0 .. file.state.size
    /\ answer.op \in {"none", "dir", "open", "read"}
    /\ phase \in {"boot", "ready", "panic", "stuck", "fault", "exhausted"}

(* What the disks hold.  A tree maps a path to a directory, or to a file   *)
(* with its data, and with whether that lies in several pieces; both with  *)
(* whether they begin at a cluster beyond 16 bits.                         *)

Device(v) == [disk |-> v.dev.disk, offset |-> v.dev.offset, fs |-> v.fs, label |-> v.label]
HeldAs(disk, held) == [disk |-> disk, offset |-> held.offset, fs |-> held.fs, label |-> held.label]

(* Every volume of every drive is mounted, in order, from its own place    *)
(* and under its own label, and nothing else is, until the kernel stops;   *)
(* if that is neither in a probe nor for want of memory, the table is full *)
(* (mount_drive(), both probes, both on_init()).                           *)
MountsAll ==
    LET expected == FlattenSeq([i \in 1 .. next - 1 |->
                        [j \in DOMAIN Holds[drives[i]] |-> HeldAs(drives[i], Holds[drives[i]][j])]])
        mounted == [n \in DOMAIN volumes |-> Device(volumes[n])]
    IN  /\ IsPrefix(mounted, expected)
        /\ phase = "panic" => Len(mounted) = MaxDevices
        /\ phase \notin {"panic", "exhausted"} => mounted = expected

Tree(n) == (CHOOSE held \in Range(Holds[volumes[n].dev.disk]) : held.offset = volumes[n].dev.offset).tree
Names(path) == SelectSeq(path, LAMBDA name : name # <<>>)
IsFull(name) == Last(name) \in FullPieces
Stored(n, path) == Names(path) \in DOMAIN Tree(n)
StoredDir(n, path) == Stored(n, path) /\ Tree(n)[Names(path)].kind = "dir"
StoredFile(n, path) == Stored(n, path) /\ Tree(n)[Names(path)].kind = "file"

(* Where directories are read right.  The driver reads a table of wide     *)
(* sectors from the wrong place, so it loses directories of several        *)
(* clusters there; and it takes 16 bits of a first cluster, so it looks    *)
(* for what begins beyond them elsewhere.                                  *)
Trusted(n, path) ==
    /\ volumes[n].fs = "fat" /\ volumes[n].bytesPerSector # SectorSize => Names(path) = <<>>
    /\ \A i \in 1 .. Len(Names(path)) :
           LET above == SubSeq(Names(path), 1, i) IN Stored(n, above) => ~Tree(n)[above].far

(* normalize_path() leaves no . and .. in a path.                          *)
Normal(path) == <<".">> \notin Range(path) /\ <<"..">> \notin Range(path)

Describes(entry, n, path) ==
    /\ entry.name = Last(path) \/ (IsFull(Last(path)) /\ IsPrefix(Last(path), entry.name))
    /\ IsDir(entry) <=> StoredDir(n, path)
    /\ StoredFile(n, path) => entry.size = Len(Tree(n)[path].data)

Listed(entries) == SelectSeq(entries, LAMBDA e : "label" \notin e.flags /\ e.name \notin {<<".">>, <<"..">>})

(* dir lists every file and directory of a directory, each once, with its  *)
(* kind and size, and nothing that was erased or left over (both           *)
(* read_dir(), handle_next(), traverse_susp_tags()).  A name that fills    *)
(* its last piece may have something after it, see NamesAreReady.          *)
ListingIsRight ==
    answer.op = "dir" /\ Normal(answer.path) /\ Trusted(answer.v, answer.path) =>
        LET here == Names(answer.path)
            children == {p \in DOMAIN Tree(answer.v) : p # <<>> /\ Front(p) = here}
            listed == Listed(answer.out)
        IN  IF ~StoredDir(answer.v, answer.path) THEN answer.out = <<>>
            ELSE /\ Len(listed) = Cardinality(children)
                 /\ \A p \in children : \E i \in DOMAIN listed : Describes(listed[i], answer.v, p)

(* A path finds what is stored under it, and nothing else but the label of *)
(* a volume, whatever the stack held before (both resolve_path()).         *)
OpenIsRight ==
    LET path == Names(answer.path)
        plain == /\ Normal(path) /\ \A i \in DOMAIN path : ~IsFull(path[i])
                 /\ path # <<>> => Trusted(answer.v, Front(path))
    IN  answer.op = "open" /\ plain =>
            /\ answer.out # NotFound /\ "label" \notin answer.out.flags <=> Stored(answer.v, path)
            /\ StoredDir(answer.v, path) => IsDir(answer.out)
            /\ StoredFile(answer.v, path) =>
                   ~IsDir(answer.out) /\ answer.out.size = Len(Tree(answer.v)[path].data)

ClusterBytes(v) == v.bytesPerSector * v.sectorsPerCluster

(* A portion delivered is that portion of the file (both read_file()): for *)
(* a FAT file in one piece that begins within 16 bits, and a portion       *)
(* within a cluster, as the shell's always are.  Reading divides by zero,  *)
(* and stops the kernel, only on a FAT32 volume, and there only in a file  *)
(* that is empty or in several pieces, or in what begins beyond 16 bits    *)
(* (read_next()).                                                          *)
PortionIsRight ==
    answer.op = "read" /\ Stored(answer.v, answer.path) /\ Trusted(answer.v, Front(Names(answer.path))) =>
        LET stored == Tree(answer.v)[Names(answer.path)]
            v == volumes[answer.v]
            end == Min({answer.at + answer.length, Len(stored.data)})
            oneCluster == answer.at \div ClusterBytes(v) = (end - 1) \div ClusterBytes(v)
            whole == ~stored.pieces /\ ~stored.far
        IN  IF phase = "fault"
            THEN v.type = "FAT32" /\ (stored.far \/ (stored.kind = "file" /\ (stored.data = <<>> \/ stored.pieces)))
            ELSE stored.kind = "file" /\ (v.fs = "fat" => whole /\ (end > answer.at => oneCluster)) =>
                     answer.end = end /\ answer.out = SubSeq(stored.data, answer.at + 1, end)

(* handle_next(): "True if the valid filename is ready for this entry": a  *)
(* name handed out is the name of something in the directory.              *)
NamesAreReady ==
    answer.op = "dir" /\ Trusted(answer.v, answer.path) =>
        \A i \in DOMAIN Listed(answer.out) : Stored(answer.v, Names(answer.path) \o <<Listed(answer.out)[i].name>>)

=============================================================================
