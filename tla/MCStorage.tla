----------------------------- MODULE MCStorage ------------------------------
(***************************************************************************)
(* Storage on small disks: sectors of four bytes with two directory        *)
(* entries, blocks of two sectors.  Each disk is laid out by hand, and so  *)
(* is what it holds, in Written.                                           *)
(***************************************************************************)
EXTENDS Storage

Cat(s) == FlattenSeq(s)
Numbered(sectors) == [n \in 0 .. Len(sectors) - 1 |-> sectors[n + 1]]
Times(n, sector) == [i \in 1 .. n |-> sector]

(* The bytes of a file, and the sectors they fill.                         *)
Bytes(seed, n) == [i \in 1 .. n |-> seed + i]
Data(bytes) ==
    [i \in 1 .. RoundUp(Len(bytes), 4) |->
        [k |-> "data", bytes |-> [j \in 1 .. 4 |-> IF 4 * (i - 1) + j \in DOMAIN bytes
                                                   THEN bytes[4 * (i - 1) + j] ELSE 0]]]

-----------------------------------------------------------------------------
(* FAT images.                                                             *)

LongFile(ck, c, size) == [k |-> "short", base |-> <<"LONG~1">>, ext |-> <<>>, attr |-> {}, checksum |-> ck,
                          first_cluster |-> c, file_size |-> size]
File(base, ext, c, size) == [LongFile(99, c, size) EXCEPT !.base = <<base>>, !.ext = <<ext>>]
Dir(base, c) == [LongFile(98, c, 0) EXCEPT !.base = <<base>>, !.attr = {"subdir"}]
Label(base) == [LongFile(97, 0, 0) EXCEPT !.base = <<base>>, !.attr = {"label"}]
Lfn(seq, text, ends, ck) == [k |-> "lfn", seq |-> seq, checksum |-> ck,
                             piece |-> [text |-> <<text>>, ends |-> ends]]
Erased == [k |-> "erased"]
End == [k |-> "end"]
Entries(list) == [i \in 1 .. Len(list) \div 2 |->
                     [k |-> "dir", entries |-> <<list[2 * i - 1], list[2 * i]>>]]

Last32 == 268435455

(* The three encodings of an allocation table.                             *)
Table(bytes) == [i \in 1 .. RoundUp(Len(bytes), 4) |->
                    [k |-> "fat", bytes |-> [j \in 1 .. 4 |-> IF 4 * (i - 1) + j \in DOMAIN bytes
                                                              THEN bytes[4 * (i - 1) + j] ELSE 0]]]
Pack12(t) == Cat([i \in 1 .. Len(t) \div 2 |->
                     LET a == t[2 * i - 1] b == t[2 * i]
                     IN <<a % 256, a \div 256 + 16 * (b % 16), b \div 16>>])
Pack16(t) == Cat([i \in DOMAIN t |-> <<t[i] % 256, t[i] \div 256>>])
Pack32(t) == Cat([i \in DOMAIN t |-> <<t[i] % 256, (t[i] \div 256) % 256, (t[i] \div 65536) % 256,
                                       240 + t[i] \div 16777216>>])

Bpb == [k |-> "bpb", signed |-> TRUE, partitions |-> <<>>, oem |-> "MSDOS", bytes_per_sector |-> 4, sectors_per_cluster |-> 1,
        reserved_sectors |-> 1, fat_count |-> 1, fsinfo_sector |-> 0, root_dir_cluster |-> 0,
        volume_label |-> <<"BPB">>]

(* A floppy without partitions: a label, a long name in two pieces, one    *)
(* that fills its piece, an erased and an orphan entry, a file and a       *)
(* directory in pieces, a long name split between clusters.                *)
Floppy == Numbered(Cat(<<
    << [Bpb EXCEPT !.oem = "OEM"] @@ [sectors_per_fat |-> 4, root_dir_entries |-> 10, total_sectors |-> 18,
                                      signature |-> "FAT12"] >>,
    Table(Pack12(<<4080, 4095, 3, 4095, 4095, 8, 7, 9, 4095, 4095>>)),
    Entries(<<Label("VOL"), Lfn(2, "tail", TRUE, 7), Lfn(1, "thirteen", FALSE, 7), LongFile(7, 2, 6),
              Lfn(1, "exactly", FALSE, 9), LongFile(9, 4, 4),
              Erased, Lfn(1, "orphan", TRUE, 5), File("A", "TXT", 5, 7), Dir("SUB", 6)>>),
    Data(Bytes(10, 6)), Data(Bytes(20, 4)), Data(Bytes(30, 4)),
    Entries(<<Dir(".", 6), Dir("..", 0)>>), Entries(<<Erased, Lfn(1, "split", TRUE, 3)>>),
    Data(SubSeq(Bytes(30, 7), 5, 7)), Entries(<<LongFile(3, 0, 0), End>>)>>))

(* Sectors twice the size of the device's: the second cluster of D is out  *)
(* of the driver's reach.                                                  *)
Wide == Numbered(Cat(<<
    << Bpb @@ [sectors_per_fat |-> 4, root_dir_entries |-> 4, total_sectors |-> 16, signature |-> "FAT16"] >>,
    <<Blank>>,
    Table(Pack16(<<65528, 65535, 3, 65535, 5, 65535>>)), Times(5, Blank),
    Entries(<<Lfn(1, "w", TRUE, 4), LongFile(4, 2, 10), Dir("D", 4), End>>),
    Data(Bytes(40, 10)), <<Blank>>,
    Entries(<<Dir(".", 4), Dir("..", 0), Erased, Erased>>), Entries(<<File("X", "", 0, 0), End, End, End>>)>>))

WideDisk == [Wide EXCEPT ![0] = [@ EXCEPT !.bytes_per_sector = 8]]

(* A hard disk with two partitions: FAT32, its root in two clusters with   *)
(* leftovers behind the end, and FAT16.                                    *)
Part32 == Cat(<<
    << [Bpb EXCEPT !.reserved_sectors = 2, !.sectors_per_cluster = 2, !.fsinfo_sector = 1, !.root_dir_cluster = 3]
       @@ [sectors_per_fat |-> 16, root_dir_entries |-> 0, total_sectors |-> 46, signature |-> "FAT32"],
       [k |-> "fsinfo"] >>,
    Table(Pack32(<<0, 0, 0, 5, Last32, Last32, 7, Last32, 0, 12, 0, Last32, Last32, Last32, 0, 0>>)),
    Times(2, Blank),
    Entries(<<Lfn(1, "z", TRUE, 5), LongFile(5, 4, 7), File("F", "BIN", 6, 10), Dir("D", 13)>>),
    Data(Bytes(50, 7)),
    Entries(<<File("E", "BIN", 0, 0), File("G", "BIN", 9, 13), End, File("OLD", "BIN", 9, 3)>>),
    Data(Bytes(60, 10)), <<Blank>>, Times(2, Blank),
    Data(SubSeq(Bytes(70, 13), 1, 8)), Times(2, Blank), Data(Bytes(90, 3)), <<Blank>>,
    Data(SubSeq(Bytes(70, 13), 9, 13)),
    Entries(<<Dir(".", 13), Dir("..", 0), File("H", "BIN", 11, 3), End>>)>>)

Part16 == Cat(<<
    << [Bpb EXCEPT !.sectors_per_cluster = 2]
       @@ [sectors_per_fat |-> 6, root_dir_entries |-> 2, total_sectors |-> 28, signature |-> "FAT16"] >>,
    Table(Pack16(<<65528, 65535, 4, 65535, 65535, 65535>>)), Times(3, Blank),
    Entries(<<Dir("P", 2), File("R", "BIN", 5, 3)>>),
    Entries(<<Dir(".", 2), Dir("..", 0), Erased, Erased>>), Data(Bytes(100, 2)), <<Blank>>,
    Entries(<<File("Q", "BIN", 3, 2), End, End, End>>), Data(Bytes(110, 3)), <<Blank>> >>)

HardDisk == Numbered(Cat(<<
    << [k |-> "mbr", partitions |-> <<[system_id |-> 0, start_lba |-> 9, lba_size |-> 9],
                                      [system_id |-> 12, start_lba |-> 2, lba_size |-> 46],
                                      [system_id |-> 6, start_lba |-> 9, lba_size |-> 0],
                                      [system_id |-> 6, start_lba |-> 50, lba_size |-> 28]>>], Blank >>,
    Part32, Times(48 - Len(Part32), Blank), Part16>>))

(* FAT32 with clusters beyond the width of first_cluster: of the files N   *)
(* and V, V is read from the root, W divides by zero; K is taken for a     *)
(* sector of the table.                                                    *)
Large == Numbered(Cat(<<
    << [Bpb EXCEPT !.reserved_sectors = 2, !.fsinfo_sector = 1, !.root_dir_cluster = 2]
       @@ [sectors_per_fat |-> 20, root_dir_entries |-> 0, total_sectors |-> 40, signature |-> "FAT32"],
       [k |-> "fsinfo"] >>,
    Table(Pack32(<<0, Last32, 4, Last32, Last32>> \o Times(12, 0) \o <<19, Last32, Last32>>)),
    Entries(<<File("N", "BIN", 3, 3), File("V", "BIN", 18, 4)>>), Data(Bytes(190, 3)),
    Entries(<<File("W", "BIN", 16, 4), Dir("K", 17)>>), Times(11, Blank),
    Data(Bytes(200, 4)), Entries(<<Dir(".", 17), Dir("..", 0)>>), Data(Bytes(210, 4)),
    Entries(<<File("Y", "", 0, 0), End>>)>>))

(* Boot sectors that the driver refuses, read for partition tables: of     *)
(* another file system, with code where a table would be; with a table     *)
(* whose size is zero in 16 bits; with a total that is too small, which    *)
(* counts as very many clusters.                                           *)
Refused(bpb) == Numbered(<<bpb, Blank>>)
Other == Refused([Bpb EXCEPT !.oem = "NTFS", !.partitions = <<[system_id |-> 77, start_lba |-> 1, lba_size |-> 9]>>]
                 @@ [sectors_per_fat |-> 4, root_dir_entries |-> 4, total_sectors |-> 16, signature |-> "none"])
Huge == Refused(Bpb @@ [sectors_per_fat |-> 24, root_dir_entries |-> 0, total_sectors |-> 90, signature |-> "FAT32"])
Short == Refused(Bpb @@ [sectors_per_fat |-> 4, root_dir_entries |-> 4, total_sectors |-> 5, signature |-> "FAT16"])

-----------------------------------------------------------------------------
(* ISO images.                                                             *)

Block(record) == <<record, Blank>>
Desc(type) == Block([k |-> "desc", type |-> type])
Primary(root, size) == Block([k |-> "desc", type |-> "primary", lbaSize |-> 8, label |-> <<"CD">>,
                              root |-> [inode |-> root, size |-> size, flags |-> {"subdir"}, position |-> 0]])
Rec(id, lba, size, flags, sua) == [id |-> id, lba |-> lba, size |-> size, flags |-> flags, sua |-> sua]
Self(lba, sua) == Rec(<<"self">>, lba, 8, {"subdir"}, sua)
Parent(lba) == Rec(<<"parent">>, lba, 8, {"subdir"}, <<>>)
Recs(list) == Block([k |-> "recs", recs |-> list])
Areas(list) == Block([k |-> "areas", areas |-> list])
NM(text, continues) == [t |-> "NM", content |-> text, continues |-> continues]
CE(lba, offset) == [t |-> "CE", lba |-> lba, offset |-> offset]
SP == [t |-> "SP"]
ER == [t |-> "ER", rockRidge |-> TRUE]
ST == [t |-> "ST"]
Blocks(bytes) == LET d == Data(bytes) IN d \o Times(Len(d) % 2, Blank)

(* Plain names, a root of two blocks, and an extension that was erased.    *)
PlainDisc == Numbered(Cat(<<
    Times(2, Blank), Primary(4, 16), Desc("supplementary"), Desc("terminator"),
    Recs(<<Self(4, <<SP, CE(6, 1)>>), Parent(4), Rec(<<"A", ";", "1">>, 7, 11, {}, <<>>)>>),
    Recs(<<Rec(<<"B">>, 0, 0, {}, <<>>), Rec(<<"D", " ">>, 9, 8, {"subdir"}, <<>>)>>),
    Areas(<< <<[t |-> "PD"], ST, ER>> >>),
    Blocks(Bytes(120, 11)),
    Recs(<<Self(9, <<>>), Parent(4), Rec(<<"C", ";", "1">>, 10, 8, {}, <<>>)>>),
    Blocks(Bytes(140, 8))>>))

(* Rock Ridge: names in several fields, in areas of other blocks, and one  *)
(* that is too long.                                                       *)
RidgeDisc == Numbered(Cat(<<
    Times(2, Blank), Primary(3, 8), Desc("terminator"),
    Recs(<<Self(3, <<SP, CE(4, 1)>>), Parent(3),
           Rec(<<"L">>, 6, 9, {}, <<NM(<<"l", "o">>, TRUE), CE(4, 2)>>),
           Rec(<<"S">>, 8, 8, {"subdir"}, <<NM(<<"s">>, FALSE)>>)>>),
    Areas(<< <<ER>>, <<NM(<<"n">>, TRUE), CE(5, 1)>> >>),
    Areas(<< <<NM(<<"g">>, FALSE), NM(<<"not", "this">>, FALSE)>> >>),
    Blocks(Bytes(160, 9)),
    Recs(<<Self(8, <<>>), Parent(3), Rec(<<"T">>, 9, 5, {}, <<NM(<<"t">>, FALSE)>>)>>),
    Blocks(Bytes(180, 5))>>))

TwoPrimaries == Numbered(Cat(<<Times(2, Blank), Primary(4, 8), Primary(4, 8), Desc("terminator")>>))

-----------------------------------------------------------------------------

MCDisks == [floppy |-> Floppy, wide |-> WideDisk, hard |-> HardDisk, plain |-> PlainDisc, ridge |-> RidgeDisc,
            twopvd |-> TwoPrimaries, empty |-> Numbered(<<Blank>>), large |-> Large, other |-> Other,
            huge |-> Huge, short |-> Short]

Whole(bytes) == [kind |-> "file", data |-> bytes, pieces |-> FALSE, far |-> FALSE]
InPieces(bytes) == [Whole(bytes) EXCEPT !.pieces = TRUE]
Directory == [kind |-> "dir", far |-> FALSE]
Far(stored) == [stored EXCEPT !.far = TRUE]
Root == <<>> :> Directory

Written ==
    [floppy |-> << [fs |-> "fat", offset |-> 0, label |-> <<"VOL">>, tree |-> Root
           @@ << <<"thirteen", "tail">> >> :> Whole(Bytes(10, 6)) @@ << <<"exactly">> >> :> Whole(Bytes(20, 4))
           @@ << <<"A", ".", "TXT">> >> :> InPieces(Bytes(30, 7)) @@ << <<"SUB">> >> :> Directory
           @@ << <<"SUB">>, <<"split">> >> :> Whole(<<>>)] >>,
     wide |-> << [fs |-> "fat", offset |-> 0, label |-> <<"BPB">>, tree |-> Root
           @@ << <<"w">> >> :> Whole(Bytes(40, 10)) @@ << <<"D">> >> :> Directory
           @@ << <<"D">>, <<"X", ".">> >> :> Whole(<<>>)] >>,
     hard |-> << [fs |-> "fat", offset |-> 2, label |-> <<"BPB">>, tree |-> Root
           @@ << <<"z">> >> :> Whole(Bytes(50, 7)) @@ << <<"F", ".", "BIN">> >> :> Whole(Bytes(60, 10))
           @@ << <<"D">> >> :> Directory @@ << <<"E", ".", "BIN">> >> :> Whole(<<>>)
           @@ << <<"G", ".", "BIN">> >> :> InPieces(Bytes(70, 13))
           @@ << <<"D">>, <<"H", ".", "BIN">> >> :> Whole(Bytes(90, 3))],
        [fs |-> "fat", offset |-> 50, label |-> <<"BPB">>, tree |-> Root
           @@ << <<"P">> >> :> Directory @@ << <<"R", ".", "BIN">> >> :> Whole(Bytes(110, 3)) @@ << <<"P">>, <<"Q", ".", "BIN">> >> :> Whole(Bytes(100, 2))] >>,
     plain |-> << [fs |-> "iso", offset |-> 0, label |-> <<"CD">>, tree |-> Root
           @@ << <<"A">> >> :> Whole(Bytes(120, 11)) @@ << <<"B">> >> :> Whole(<<>>)
           @@ << <<"D">> >> :> Directory @@ << <<"D">>, <<"C">> >> :> Whole(Bytes(140, 8))] >>,
     ridge |-> << [fs |-> "iso", offset |-> 0, label |-> <<"CD">>, tree |-> Root
           @@ << <<"l", "o", "n", "g">> >> :> Whole(Bytes(160, 9)) @@ << <<"s">> >> :> Directory
           @@ << <<"s">>, <<"t">> >> :> Whole(Bytes(180, 5))] >>,
     large |-> << [fs |-> "fat", offset |-> 0, label |-> <<"BPB">>, tree |-> Root
           @@ << <<"N", ".", "BIN">> >> :> Whole(Bytes(190, 3)) @@ << <<"V", ".", "BIN">> >> :> Far(Whole(Bytes(210, 4)))
           @@ << <<"W", ".", "BIN">> >> :> Far(Whole(Bytes(200, 4))) @@ << <<"K">> >> :> Far(Directory)
           @@ << <<"K">>, <<"Y", ".">> >> :> Whole(<<>>)] >>,
     twopvd |-> <<>>, empty |-> <<>>, other |-> <<>>, huge |-> <<>>, short |-> <<>>]

(* With a full table, without room in the heap for a third volume or, with *)
(* floppy and hard, for the directory P, and without pages for two tables. *)
MCMachines == { <<"floppy", "plain">>, <<"hard">>, <<"empty", "wide", "ridge">>, <<"plain", "empty", "twopvd", "floppy">>,
                <<"other", "huge", "short", "large">>, <<"floppy", "hard">>, <<"hard", "plain", "empty">>,
                <<"floppy", "wide", "floppy">>, <<"large", "hard">>, <<"ridge", "twopvd">> }

MCPaths == UNION {UNION {DOMAIN Written[d][i].tree : i \in DOMAIN Written[d]} : d \in DOMAIN Written}
           \cup { << <<>> >>, << <<"VOL">> >>, << <<"SUB">>, <<"..">> >>, << <<"SUB">>, <<".">> >>, << <<"SUB">>, <<>> >>, << <<"nothing">> >>, << <<"F", ".", "BIN">>, <<"z">> >> }

MCJunk == {AllEmpty, [i \in 0 .. 2 |-> [text |-> <<"junk">>, ends |-> i = 2]]}

=============================================================================
