------------------------------ MODULE Iso9660 -------------------------------
(***************************************************************************)
(* The ISO 9660 driver, core/filesystems/iso_9660.cpp: the volume          *)
(* descriptors, directories with plain or Rock Ridge names, and files.     *)
(* As in Fat, an operation is a function of the volume and its arguments.  *)
(*                                                                         *)
(* A block is CdSectors sectors; the record that stands for it is its      *)
(* first.  The system use area of a directory record is a sequence of      *)
(* tags, and a CE tag goes on in an area of another block, which is read   *)
(* into a buffer of its own while the directory stays in the first.        *)
(***************************************************************************)
EXTENDS BlockDevice, FiniteSetsExt

CONSTANTS
    CdSectors,      \* sectors in a block: 4
    FirstDesc,      \* PRIMARY_VOLUME_DESC_SECTOR: 16
    MaxDescs,       \* descriptors looked at: 100
    MaxRecords,     \* directory records that fit a block
    MaxNameLength   \* MAX_FILENAME_SIZE without the terminator: 255

ASSUME IsoAssumption ==
    {CdSectors, FirstDesc, MaxDescs, MaxRecords, MaxNameLength} \subseteq Nat \ {0}

BlockSize == CdSectors * SectorSize
IsoBlock(dev, lba) == ReadSectors(dev, lba * CdSectors, CdSectors)

(* What the driver finds in a descriptor and in the records of a directory.*)
SuspTags == [t : STRING] \cup [t : {"NM"}, content : Seq(STRING), continues : BOOLEAN]
            \cup [t : {"CE"}, lba : Nat, offset : Nat] \cup [t : {"ER"}, rockRidge : BOOLEAN]
DirRecords == [id : Seq(STRING), lba : Nat, size : Nat, flags : SUBSET Attributes, sua : Seq(SuspTags)]
Descriptors ==
    [k : {"desc"}, type : {"boot", "supplementary", "terminator"}]
    \cup [k : {"desc"}, type : {"primary"}, lbaSize : Nat, label : Seq(STRING), root : FileStates]
DirBlocks == [k : {"recs"}, recs : Seq(DirRecords)] \cup [k : {"areas"}, areas : Seq(Seq(SuspTags))]

-----------------------------------------------------------------------------
(* kcd::probe(): no volume, a volume, or a loop that never ends, because a *)
(* second primary descriptor is skipped without going on to the next.      *)

Stuck == [fs |-> "stuck"]

Valid(desc) == desc.k = "desc"
IsPrimary(desc) == Valid(desc) /\ desc.type = "primary"
Earlier(descs, i) == {j \in 0 .. i - 1 : IsPrimary(descs[j])}

Stops(descs, i) ==
    \/ ~Valid(descs[i]) \/ descs[i].type = "terminator"
    \/ IsPrimary(descs[i]) /\ (Earlier(descs, i) # {} \/ descs[i].lbaSize # BlockSize)

(* What the descriptor that the scan stops at makes of the medium.         *)
Verdict(dev, descs, i) ==
    LET earlier == Earlier(descs, i)
        first == descs[Min(earlier)]
    IN  IF i = MaxDescs \/ ~Valid(descs[i]) THEN NoVolume
        ELSE IF IsPrimary(descs[i]) THEN (IF earlier = {} THEN NoVolume ELSE Stuck)
        ELSE IF earlier = {} THEN NoVolume
        ELSE [fs |-> "iso", dev |-> dev, label |-> first.label, root |-> first.root, rockRidge |-> FALSE]

IsoProbe(dev) ==
    LET descs == [i \in 0 .. MaxDescs - 1 |-> IsoBlock(dev, FirstDesc + i)[1]]
    IN Verdict(dev, descs, Min({MaxDescs} \cup {j \in 0 .. MaxDescs - 1 : Stops(descs, j)}))

-----------------------------------------------------------------------------
(* traverse_susp_tags()                                                    *)

(* The tags up to ST or CE; the CE ends the area that holds it.            *)
Cut(tags) == LET ends == {i \in DOMAIN tags : tags[i].t \in {"CE", "ST"}}
             IN IF ends = {} THEN tags ELSE SubSeq(tags, 1, Min(ends) - 1)

GoesOn(tags) == Len(Cut(tags)) < Len(tags) /\ tags[Len(Cut(tags)) + 1].t = "CE"
PlaceOf(tags) == LET ce == tags[Len(Cut(tags)) + 1] IN <<ce.lba, ce.offset>>
Area(dev, place) == IsoBlock(dev, place[1])[1].areas[place[2]]

(* The areas the CE tags lead to, one after the other.                     *)
Continuations(dev, sua) ==
    LET from[place \in Nat \X Nat] ==
            <<place>> \o (IF GoesOn(Area(dev, place)) THEN from[PlaceOf(Area(dev, place))] ELSE <<>>)
    IN IF GoesOn(sua) THEN from[PlaceOf(sua)] ELSE <<>>

(* The tags in the order in which a traverser sees them.                   *)
Tags(dev, sua) ==
    LET places == Continuations(dev, sua)
    IN Cut(sua) \o FlattenSeq([i \in DOMAIN places |-> Cut(Area(dev, places[i]))])

(* tempReadBuffer and tempSuspTraverserReadBuffer; each area that a CE tag *)
(* leads to takes the place of the one before.                             *)
LoadContinuation(bufs, block) == [bufs EXCEPT !.susp = block]

AfterTags(dev, sua, bufs) ==
    LET places == Continuations(dev, sua)
    IN IF places = <<>> THEN bufs ELSE LoadContinuation(bufs, IsoBlock(dev, Last(places)[1])[1])

-----------------------------------------------------------------------------
(* Names.  A record is named by the byte 0 or 1 in the entries of the      *)
(* directory itself and its parent.                                        *)

Special == [self |-> <<".">>, parent |-> <<".", ".">>]
SpecialRecord(rec) == rec.id \in {<<"self">>, <<"parent">>}

(* convert_iso9660_filename(): without trailing spaces and the version.    *)
PlainName(id) ==
    LET marks == {i \in DOMAIN id : id[i] = ";"} \cup
                 {i \in DOMAIN id : \A j \in i .. Len(id) : id[j] = " "}
    IN IF marks = {} THEN id ELSE SubSeq(id, 1, Min(marks) - 1)

(* retrieve_rockridge_filename(): NM fields as long as they say that they  *)
(* continue and the buffer has room.                                       *)
RockRidgeName(tags) ==
    LET nm == SelectSeq(tags, LAMBDA tag : tag.t = "NM")
        upTo(i) == FlattenSeq([j \in 1 .. i |-> nm[j].content])
        last == Min({Len(nm)} \cup {i \in DOMAIN nm : ~nm[i].continues})
        room == {i \in 0 .. last : Len(upTo(i)) <= MaxNameLength}
    IN upTo(Max(room))

ExtractFilename(v, rec) ==
    CASE v.rockRidge -> RockRidgeName(Tags(v.dev, rec.sua))
      [] ~v.rockRidge /\ SpecialRecord(rec) -> Special[rec.id[1]]
      [] ~v.rockRidge /\ ~SpecialRecord(rec) -> PlainName(rec.id)

-----------------------------------------------------------------------------
(* Directories, a block at a time; a name with continuations is fetched    *)
(* while the block's next records are still to be read.  special: with the *)
(* records of the directory itself and its parent.                         *)

RecordsOf(block) == IF "recs" \in DOMAIN block THEN block.recs ELSE <<>>

Visited(bufs, i, special) ==
    LET recs == RecordsOf(bufs.main)
    IN i <= Len(recs) /\ (SpecialRecord(recs[i]) => special)

Visit(v, rec) == [name |-> ExtractFilename(v, rec), inode |-> rec.lba,
                  size |-> rec.size, flags |-> rec.flags, sua |-> rec.sua]

AfterRecord(v, bufs, i, special) ==
    IF v.rockRidge /\ Visited(bufs, i, special) THEN AfterTags(v.dev, RecordsOf(bufs.main)[i].sua, bufs)
    ELSE bufs

(* The buffers after each of the records.                                  *)
Buffers(v, lba, special) ==
    LET bufs[i \in 0 .. MaxRecords] ==
            IF i = 0 THEN [main |-> IsoBlock(v.dev, lba)[1], susp |-> Blank]
            ELSE AfterRecord(v, bufs[i - 1], i, special)
    IN bufs

WalkBlock(v, lba, special) ==
    LET bufs == Buffers(v, lba, special)
    IN FlattenSeq([i \in 1 .. MaxRecords |->
           IF Visited(bufs[i - 1], i, special) THEN <<Visit(v, RecordsOf(bufs[i - 1].main)[i])>> ELSE <<>>])

WalkDir(v, state, special) ==
    FlattenSeq([i \in 1 .. (state.size + BlockSize - 1) \div BlockSize |->
                    WalkBlock(v, state.inode + i - 1, special)])

(* read_dir() leaves out the directory itself and its parent.              *)
IsoListing(v, state) == WalkDir(v, state, FALSE)

IsoPart(v, state, name) == FirstNamed(WalkDir(v, state, TRUE), name)

IsoWalk(v, path) ==
    LET last[i \in 0 .. Len(path)] ==
            IF i = 0 THEN v.root ELSE Enter(last[i - 1], path[i], IsoPart(v, last[i - 1], path[i]))
    IN last

IsoResolve(v, path) == IsoWalk(v, path)[Len(path)]

(* on_init(): the tags of the root's own record, with its plain name.      *)
SaysRockRidge(tags) ==
    LET decisive == SelectSeq(tags, LAMBDA tag : tag.t \in {"ER", "RR"})
    IN  /\ tags # <<>> /\ tags[1].t = "SP"
        /\ decisive # <<>> /\ (decisive[1].t = "ER" => decisive[1].rockRidge)

SelfRecord(v) == SelectSeq(WalkDir(v, v.root, TRUE), LAMBDA e : e.name = Special.self)[1]

IsoInit(v) == [v EXCEPT !.rockRidge = SaysRockRidge(Tags(v.dev, SelfRecord(v).sua))]

-----------------------------------------------------------------------------

(* read_file(), a portion within a block at a time.                        *)
IsoReadFile(v, state, length) ==
    LET end == Min({state.size, state.position + length})
        read[position \in Nat] ==
            IF position >= end THEN <<>>
            ELSE LET start == position % BlockSize
                     portion == Min({end - position, BlockSize - start})
                     data == BytesOf(IsoBlock(v.dev, state.inode + position \div BlockSize))
                 IN SubSeq(data, start + 1, start + portion) \o read[position + portion]
    IN [out |-> read[state.position], position |-> Max({state.position, end}), fault |-> FALSE]

=============================================================================
