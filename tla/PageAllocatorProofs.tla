------------------------- MODULE PageAllocatorProofs -------------------------
(***************************************************************************)
(* The safety of the page allocator for every size of memory, of bytes and *)
(* page tables, every place of the kernel in it and every sequence of      *)
(* calls: no page has two owners, the bitmap is exact, the scan finds a    *)
(* run whenever there is one and the page tables agree with the bitmap.    *)
(*                                                                         *)
(* Three things make these inductive.  The hint: below it every page is    *)
(* taken, so that a scan that begins there misses nothing.  The scan: it   *)
(* never leaves a run behind it, and never starts one past the last page.  *)
(* The tables: an entry is in the table of its frame's own directory entry *)
(* and belongs to a block that begins behind a table and ends behind the   *)
(* same one.                                                               *)
(***************************************************************************)
EXTENDS PageAllocator, FiniteSetTheorems, TLAPS

(* Every page below the hint is taken.                                     *)
HintIsLow == 0 .. BitsPerByte * hint - 1 \subseteq used

(* A run of clear bits begins at a page, never in the bits past the last   *)
(* page, and no run as long as the one wanted begins before it.            *)
ScanMissesNothing ==
    pc = "scan" =>
        /\ found = 0 => pos < PagesCount \/ pos = Bits
        /\ found > 0 => start < PagesCount
        /\ ~ opened => found = 0 /\ AtByte /\ 0 .. pos - 1 \subseteq used
        /\ \A a \in 0 .. Bits : Span(a, wanted) \cap used = {} => a >= pos - found

(* A call maps a block it has, and looks for a table only to map it.       *)
CallKnowsBlock ==
    /\ pc = "idle" => len = 0
    /\ pc \in {"map", "fill"} => len > 0
    /\ pc \in {"scan", "fill"} /\ len > 0 =>
           wanted = 1 /\ BlockDir # 0 /\ BlockDir \notin DOMAIN tables

TablesOK == /\ DOMAIN tables \subseteq Nat \ {0}
            /\ \A d \in DOMAIN tables : tables[d] \in Nat

(* A block that begins behind a page table ends behind the same one.       *)
BlocksStayInTable ==
    \A a \in DOMAIN live :
        DirOf(Frame(a)) # 0 => /\ DirOf(Frame(a)) \in DOMAIN tables
                               /\ IndexOf(Frame(a)) + live[a] < PagesPerTable

(* Where the entry of a frame is, and whose it is.                         *)
Owns(a, frame) == DirOf(Frame(a)) # 0 /\ frame - Begin \in Span(a, live[a])

EntriesAreOwned ==
    \A e \in DOMAIN pte :
        /\ pte[e] \in Nat /\ DirOf(pte[e]) \in DOMAIN tables
        /\ e = <<tables[DirOf(pte[e])], IndexOf(pte[e])>>
        /\ \E a \in DOMAIN live : Owns(a, pte[e])

(* MappingIsExact, also within a call.                                     *)
Mapped(a, i) == \/ Reaches(Frame(i))
                \/ DirOf(Frame(a)) = 0 /\ DirOf(Frame(i)) # 0
                \/ DirOf(Frame(a)) # 0 /\ tables[DirOf(Frame(a))] = NullFrame

AllMapped == \A a \in DOMAIN live : \A i \in Span(a, live[a]) : Mapped(a, i)

ScanInv == TypeOK /\ HintIsLow /\ ScanMissesNothing

OwnerInv == ScanInv /\ CallKnowsBlock /\ OneOwner /\ BitmapIsExact

TablesInv == TablesOK /\ BlocksStayInTable /\ EntriesAreOwned /\ AllMapped

MapInv == OwnerInv /\ TablesInv

USE PagesAssumption

-----------------------------------------------------------------------------
(* Bytes of the bitmap.                                                    *)

LEMMA ByteOf ==
    ASSUME NEW i \in Nat
    PROVE  Byte(i) \in Nat /\ BitsPerByte * Byte(i) <= i /\ i < BitsPerByte * Byte(i) + BitsPerByte
BY DEF Byte

LEMMA BitmapSize ==
    /\ ByteCount \in Nat /\ Bits \in Nat \ {0}
    /\ PagesCount <= Bits /\ Bits < PagesCount + BitsPerByte
<1>1. PagesCount + BitsPerByte - 1 \in Nat
  OBVIOUS
<1>2. ByteCount = Byte(PagesCount + BitsPerByte - 1)
  BY DEF ByteCount, Byte
<1> QED
  BY <1>1, <1>2, ByteOf DEF Bits

LEMMA ByteStarts ==
    ASSUME NEW k \in Nat
    PROVE  BitsPerByte * k \in Nat /\ (BitsPerByte * k) % BitsPerByte = 0 /\ Byte(BitsPerByte * k) = k
BY DEF Byte

LEMMA ByteOrder ==
    ASSUME NEW j \in Nat, NEW k \in Nat
    PROVE  j < k <=> BitsPerByte * j + BitsPerByte <= BitsPerByte * k
OBVIOUS

LEMMA ByteMonotone ==
    ASSUME NEW j \in Nat, NEW k \in Nat, j <= k
    PROVE  BitsPerByte * j <= BitsPerByte * k /\ BitsPerByte * j \in Nat
OBVIOUS

(* The scan reads whole bytes, all within the bitmap.                      *)
LEMMA ByteFits ==
    ASSUME NEW i \in Nat, i < Bits
    PROVE  /\ Byte(i) < ByteCount
           /\ i % BitsPerByte = 0 => /\ BitsPerByte * Byte(i) = i
                                     /\ i + BitsPerByte <= Bits
                                     /\ (i + BitsPerByte) % BitsPerByte = 0
<1>1. Byte(i) \in Nat /\ ByteCount \in Nat /\ BitsPerByte * Byte(i) <= i
  BY ByteOf, BitmapSize
<1>2. Byte(i) < ByteCount
  <2>1. CASE ByteCount <= Byte(i)
    <3>1. BitsPerByte * ByteCount <= BitsPerByte * Byte(i)
      BY <1>1, <2>1
    <3> QED
      BY <1>1, <3>1 DEF Bits
  <2> QED
    BY <1>1, <2>1
<1>3. ASSUME i % BitsPerByte = 0
      PROVE  BitsPerByte * Byte(i) = i /\ (i + BitsPerByte) % BitsPerByte = 0
  <2>1. BitsPerByte * Byte(i) = i
    BY <1>3 DEF Byte
  <2>2. i + BitsPerByte = BitsPerByte * (Byte(i) + 1)
    BY <1>1, <2>1
  <2> QED
    BY <1>1, <2>1, <2>2, ByteStarts
<1>4. BitsPerByte * Byte(i) + BitsPerByte <= BitsPerByte * ByteCount
  BY <1>1, <1>2, ByteOrder
<1> QED
  BY <1>2, <1>3, <1>4 DEF Bits

(* A scan begins at a page or past the last byte.                          *)
LEMMA HintStart ==
    ASSUME NEW h \in 0 .. ByteCount
    PROVE  /\ BitsPerByte * h \in 0 .. Bits
           /\ BitsPerByte * h < PagesCount \/ BitsPerByte * h = Bits
<1>1. CASE h = ByteCount
  BY <1>1, BitmapSize DEF Bits
<1>2. CASE h < ByteCount
  <2>1. BitsPerByte * h + BitsPerByte <= Bits /\ BitsPerByte * h \in Nat
    BY <1>2, ByteOrder, BitmapSize DEF Bits
  <2> QED
    BY <2>1, BitmapSize
<1> QED
  BY <1>1, <1>2, BitmapSize

(* The room behind a run does not wrap when the run starts at a page.      *)
LEMMA RoomOfRun ==
    ASSUME start \in 0 .. PagesCount - 1 PROVE Room = PagesCount - start - 1
BY DEF Room

-----------------------------------------------------------------------------
(* The scan.                                                               *)

LEMMA StartScanInv ==
    ASSUME ScanInv, NEW n \in Nat \ {0}, StartScan(n), UNCHANGED <<bitmapVars, live, block, len>>
    PROVE  ScanInv'
<1>1. pc' = "scan" /\ pos' = BitsPerByte * hint /\ start' = 0 /\ found' = 0 /\ wanted' = n
      /\ UNCHANGED <<used, hint, usedPages, live, block, len>>
  BY DEF StartScan, bitmapVars
<1>2. opened' = FALSE
  BY DEF StartScan
<1>3. pos' \in 0 .. Bits /\ (pos' < PagesCount \/ pos' = Bits) /\ pos' % BitsPerByte = 0
  <2>1. hint \in 0 .. ByteCount /\ hint \in Nat
    BY BitmapSize DEF ScanInv, TypeOK
  <2>2. (BitsPerByte * hint) % BitsPerByte = 0
    BY <2>1, ByteStarts
  <2>3. BitsPerByte * hint \in 0 .. Bits /\ (BitsPerByte * hint < PagesCount \/ BitsPerByte * hint = Bits)
    BY <2>1, HintStart
  <2> QED
    BY <1>1, <2>2, <2>3
<1>4. TypeOK'
  <2>1. opened' \in BOOLEAN
    BY <1>2
  <2> QED
    BY <1>1, <1>3, <2>1, BitmapSize DEF ScanInv, TypeOK, Span
<1>5. \A a \in 0 .. Bits : Span(a, n) \cap used = {} => a >= pos'
  <2> SUFFICES ASSUME NEW a \in 0 .. Bits, Span(a, n) \cap used = {} PROVE a >= pos'
    OBVIOUS
  <2>1. a \notin used
    BY DEF Span
  <2> QED
    BY <1>1, <1>3, <2>1, BitmapSize DEF ScanInv, HintIsLow
<1>6. 0 .. pos' - 1 \subseteq used
  BY <1>1 DEF ScanInv, HintIsLow
<1>7. ScanMissesNothing'
  <2>1. pos' - found' = pos'
    BY <1>1, <1>3, BitmapSize
  <2>2. \A a \in 0 .. Bits : Span(a, wanted') \cap used' = {} => a >= pos' - found'
    BY <1>1, <1>5, <2>1
  <2>3. AtByte' /\ 0 .. pos' - 1 \subseteq used'
    BY <1>1, <1>3, <1>6 DEF AtByte
  <2>4. found' = 0 /\ ~ (found' > 0)
    BY <1>1
  <2> QED
    BY <1>3, <2>2, <2>3, <2>4 DEF ScanMissesNothing
<1> QED
  BY <1>1, <1>4, <1>7 DEF ScanInv, HintIsLow

(* While the scan goes on, a used bit where it stands cuts every run that  *)
(* begins before.                                                          *)
LEMMA UsedCuts ==
    ASSUME ScanInv, pc = "scan", ~ ScanEnds, pos \in used,
           NEW a \in 0 .. Bits, Span(a, wanted) \cap used = {}
    PROVE  a > pos
<1>1. a >= pos - found /\ found \in Nat /\ pos \in Nat /\ wanted \in Nat
  BY BitmapSize DEF ScanInv, ScanMissesNothing, TypeOK
<1>2. found < wanted
  BY <1>1 DEF ScanEnds
<1>3. pos \notin Span(a, wanted)
  OBVIOUS
<1> QED
  BY <1>1, <1>2, <1>3 DEF Span

LEMMA SkipFullByteInv == ASSUME ScanInv, SkipFullByte PROVE ScanInv'
<1>1. pc = "scan" /\ ~ ScanEnds /\ AtByte /\ Span(pos, BitsPerByte) \subseteq used
      /\ pos' = pos + BitsPerByte /\ found' = 0 /\ start' = 0
      /\ UNCHANGED <<used, hint, usedPages, live, pc, wanted, block, len>>
  BY DEF SkipFullByte, FullByte, bitmapVars
<1>2. opened' = opened
  BY DEF SkipFullByte
<1>3. pos \in Nat /\ pos < Bits
  BY <1>1, BitmapSize DEF ScanEnds, ScanInv, TypeOK
<1>4. pos' \in 0 .. Bits /\ pos' % BitsPerByte = 0
  <2>1. pos % BitsPerByte = 0
    BY <1>1 DEF AtByte
  <2>2. pos + BitsPerByte <= Bits /\ (pos + BitsPerByte) % BitsPerByte = 0
    BY <1>3, <2>1, ByteFits
  <2> QED
    BY <1>1, <1>3, <2>2, BitmapSize
<1>5. \A i \in Nat : pos <= i /\ i < pos' => i \in used
  BY <1>1, <1>3 DEF Span
<1>6. pos' < PagesCount
  <2>1. pos' - 1 \in used
    BY <1>1, <1>3, <1>5
  <2> QED
    BY <1>1, <1>3, <2>1 DEF ScanInv, TypeOK
<1>7. TypeOK'
  <2>1. opened' \in BOOLEAN
    BY <1>2 DEF ScanInv, TypeOK
  <2> QED
    BY <1>1, <1>4, <2>1, BitmapSize DEF ScanInv, TypeOK, Span
<1>8. \A a \in 0 .. Bits : Span(a, wanted) \cap used = {} => a >= pos'
  <2> SUFFICES ASSUME NEW a \in 0 .. Bits, Span(a, wanted) \cap used = {} PROVE a >= pos'
    OBVIOUS
  <2>1. pos \in used
    BY <1>1, <1>3 DEF Span
  <2>2. a > pos
    BY <1>1, <2>1, UsedCuts
  <2>3. a \notin used
    BY <1>1 DEF ScanInv, TypeOK, Span
  <2> QED
    BY <1>1, <1>3, <1>5, <2>2, <2>3
<1>9. ~ opened => 0 .. pos' - 1 \subseteq used
  BY <1>1, <1>3, <1>5 DEF ScanInv, ScanMissesNothing
<1>10. ScanMissesNothing'
  BY <1>1, <1>2, <1>4, <1>6, <1>8, <1>9 DEF ScanMissesNothing, AtByte
<1> QED
  BY <1>1, <1>7, <1>10 DEF ScanInv, HintIsLow

(* The hint moves up only over bytes that are full.                        *)
LEMMA LooksAtBitKeeps ==
    ASSUME ScanInv, LooksAtBit
    PROVE  /\ HintIsLow' /\ hint' \in 0 .. ByteCount
           /\ pc = "scan" /\ ~ ScanEnds /\ pos \in Nat /\ pos < Bits /\ pos' = pos + 1
           /\ UNCHANGED <<used, usedPages, live, pc, wanted, block, len>>
<1>1. pc = "scan" /\ ~ ScanEnds /\ pos' = pos + 1
      /\ UNCHANGED <<used, usedPages, live, pc, wanted, block, len>>
  BY DEF LooksAtBit
<1>2. pos \in Nat /\ pos < Bits
  BY <1>1, BitmapSize DEF ScanEnds, ScanInv, TypeOK
<1>3. CASE AtByte /\ ~ opened
  <2>1. hint' = Byte(pos)
    BY <1>3 DEF LooksAtBit
  <2>2. BitsPerByte * Byte(pos) = pos /\ Byte(pos) \in 0 .. ByteCount
    BY <1>2, <1>3, ByteFits, ByteOf, BitmapSize DEF AtByte
  <2>3. 0 .. pos - 1 \subseteq used
    BY <1>1, <1>3 DEF ScanInv, ScanMissesNothing
  <2> QED
    BY <1>1, <1>2, <2>1, <2>2, <2>3 DEF HintIsLow
<1>4. CASE ~ (AtByte /\ ~ opened)
  <2>1. hint' = hint
    BY <1>4 DEF LooksAtBit
  <2> QED
    BY <1>1, <1>2, <2>1 DEF ScanInv, HintIsLow, TypeOK
<1> QED
  BY <1>3, <1>4

LEMMA UsedBitInv == ASSUME ScanInv, UsedBit PROVE ScanInv'
<1>1. HintIsLow' /\ hint' \in 0 .. ByteCount /\ pc = "scan" /\ ~ ScanEnds
      /\ pos \in Nat /\ pos < Bits /\ pos' = pos + 1
      /\ UNCHANGED <<used, usedPages, live, pc, wanted, block, len>>
  BY LooksAtBitKeeps DEF UsedBit
<1>2. opened' = TRUE
  BY DEF UsedBit, LooksAtBit
<1>3. pos \in used /\ found' = 0 /\ start' = 0
  BY DEF UsedBit
<1>4. TypeOK'
  <2>1. opened' \in BOOLEAN
    BY <1>2
  <2> QED
    BY <1>1, <1>3, <2>1, BitmapSize DEF ScanInv, TypeOK, Span
<1>5. \A a \in 0 .. Bits : Span(a, wanted) \cap used = {} => a >= pos'
  BY <1>1, <1>3, UsedCuts
<1>6. pos' < PagesCount
  BY <1>1, <1>3 DEF ScanInv, TypeOK
<1>7. ScanMissesNothing'
  BY <1>1, <1>2, <1>3, <1>5, <1>6 DEF ScanMissesNothing
<1> QED
  BY <1>1, <1>4, <1>7 DEF ScanInv

LEMMA ClearBitInv == ASSUME ScanInv, ClearBit PROVE ScanInv'
<1>1. HintIsLow' /\ hint' \in 0 .. ByteCount /\ pc = "scan" /\ ~ ScanEnds
      /\ pos \in Nat /\ pos < Bits /\ pos' = pos + 1
      /\ UNCHANGED <<used, usedPages, live, pc, wanted, block, len>>
  BY LooksAtBitKeeps DEF ClearBit
<1>2. opened' = TRUE
  BY DEF ClearBit, LooksAtBit
<1>3. pos \notin used /\ found' = found + 1 /\ start' = IF found = 0 THEN pos ELSE start
  BY DEF ClearBit
<1>4. found \in Nat /\ start \in Nat /\ Bits \in Nat
  BY BitmapSize DEF ScanInv, TypeOK
<1>5. start' + found' = pos' /\ start' \in Nat /\ start' < PagesCount /\ pos' - found' = pos - found
  BY <1>1, <1>3, <1>4, BitmapSize DEF ScanInv, TypeOK, ScanMissesNothing
<1>6. Span(start', found') \cap used = {}
  <2> SUFFICES ASSUME NEW i \in Span(start', found') PROVE i \notin used
    OBVIOUS
  <2>1. i = pos \/ (found > 0 /\ i \in Span(start, found))
    BY <1>1, <1>3, <1>4, <1>5 DEF Span, ScanInv, TypeOK
  <2> QED
    BY <1>1, <1>3, <2>1 DEF ScanInv, TypeOK
<1>7. TypeOK'
  <2>1. opened' \in BOOLEAN
    BY <1>2
  <2> QED
    BY <1>1, <1>3, <1>4, <1>5, <1>6, <2>1, BitmapSize DEF ScanInv, TypeOK
<1>8. ScanMissesNothing'
  BY <1>1, <1>2, <1>3, <1>4, <1>5 DEF ScanMissesNothing, ScanInv
<1> QED
  BY <1>1, <1>7, <1>8 DEF ScanInv

-----------------------------------------------------------------------------
(* The pages a scan has found.                                             *)

LEMMA SpanSize ==
    ASSUME NEW a \in Nat, NEW n \in Nat
    PROVE  IsFiniteSet(Span(a, n)) /\ Cardinality(Span(a, n)) = n
<1>1. a + n - 1 \in Int
  OBVIOUS
<1> QED
  BY <1>1, FS_Interval DEF Span

LEMMA PagesAreFinite ==
    ASSUME NEW S, S \subseteq 0 .. PagesCount - 2
    PROVE  IsFiniteSet(S) /\ Cardinality(S) \in Nat
<1>1. IsFiniteSet(0 .. PagesCount - 2)
  BY FS_Interval
<1> QED
  BY <1>1, FS_Subset, FS_CardinalityType

LEMMA CountTaken ==
    ASSUME NEW S, S \subseteq 0 .. PagesCount - 2, NEW a \in Nat, NEW n \in Nat, Span(a, n) \cap S = {}
    PROVE  Cardinality(S \cup Span(a, n)) = Cardinality(S) + n
<1>1. IsFiniteSet(S) /\ IsFiniteSet(Span(a, n)) /\ Cardinality(S) \in Nat /\ Cardinality(Span(a, n)) = n
  BY PagesAreFinite, SpanSize
<1>2. Cardinality(S \cap Span(a, n)) = 0
  <2>1. S \cap Span(a, n) = {}
    OBVIOUS
  <2> QED
    BY <2>1, FS_EmptySet
<1>3. Cardinality(S \cup Span(a, n))
        = Cardinality(S) + Cardinality(Span(a, n)) - Cardinality(S \cap Span(a, n))
  BY <1>1, FS_Union
<1> QED
  BY <1>1, <1>2, <1>3

LEMMA CountFreed ==
    ASSUME NEW S, S \subseteq 0 .. PagesCount - 2, NEW a \in Nat, NEW n \in Nat, Span(a, n) \subseteq S
    PROVE  Cardinality(S \ Span(a, n)) = Cardinality(S) - n
<1>1. S \ Span(a, n) \subseteq 0 .. PagesCount - 2 /\ Span(a, n) \cap (S \ Span(a, n)) = {}
      /\ (S \ Span(a, n)) \cup Span(a, n) = S
  OBVIOUS
<1>2. Cardinality(S) = Cardinality(S \ Span(a, n)) + n
  BY <1>1, CountTaken
<1>3. Cardinality(S \ Span(a, n)) \in Nat
  BY <1>1, PagesAreFinite
<1> QED
  BY <1>2, <1>3

(* A run that fits is free and leaves out the last page.                   *)
LEMMA RunIsFree ==
    ASSUME ScanInv, pc = "scan", RunFits
    PROVE  /\ start \in Nat /\ wanted \in Nat \ {0} /\ start + wanted < PagesCount
           /\ Span(start, wanted) \subseteq 0 .. PagesCount - 2
           /\ Span(start, wanted) \cap used = {}
           /\ start \in Span(start, wanted)
<1>1. start \in Nat /\ found \in Nat /\ found > 0 /\ wanted \in Nat \ {0} /\ found >= wanted
      /\ start < PagesCount /\ Span(start, found) \cap used = {}
  BY BitmapSize DEF ScanInv, TypeOK, ScanMissesNothing, RunFits
<1>2. start + wanted < PagesCount
  BY <1>1, RoomOfRun DEF RunFits
<1>3. Span(start, wanted) \subseteq Span(start, found)
  BY <1>1 DEF Span
<1> QED
  BY <1>1, <1>2, <1>3 DEF Span

LEMMA TakeKeeps ==
    ASSUME ScanInv, BitmapIsExact, pc = "scan", RunFits, Take
    PROVE  /\ used' = used \cup Span(start, wanted) /\ used' \subseteq 0 .. PagesCount - 2
           /\ usedPages' \in Nat /\ usedPages' = Cardinality(used')
           /\ hint' = hint /\ HintIsLow'
<1>1. used' = used \cup Span(start, wanted) /\ usedPages' = usedPages + wanted /\ hint' = hint
  BY DEF Take
<1>2. used \subseteq 0 .. PagesCount - 2 /\ usedPages \in Nat /\ usedPages = Cardinality(used)
  BY DEF ScanInv, TypeOK, BitmapIsExact
<1>3. usedPages' \in Nat /\ usedPages' = Cardinality(used')
  <2>1. start \in Nat /\ wanted \in Nat /\ Span(start, wanted) \cap used = {}
    BY RunIsFree
  <2>2. Cardinality(used \cup Span(start, wanted)) = Cardinality(used) + wanted
    BY <1>2, <2>1, CountTaken
  <2> QED
    BY <1>1, <1>2, <2>1, <2>2
<1> QED
  BY <1>1, <1>2, <1>3, RunIsFree DEF ScanInv, HintIsLow

-----------------------------------------------------------------------------
(* Who owns the pages.                                                     *)

LEMMA LeaveScan ==
    ASSUME ScanInv, pc' \in {"idle", "map", "fill", "fault", "refused", "unmap"},
           UNCHANGED <<bitmapVars, live, scanVars, block, len>>
    PROVE  ScanInv'
<1>1. opened' \in BOOLEAN
  BY DEF ScanInv, TypeOK, scanVars
<1>2. TypeOK'
  BY <1>1 DEF ScanInv, TypeOK, bitmapVars, scanVars
<1> QED
  BY <1>2 DEF ScanInv, ScanMissesNothing, HintIsLow, bitmapVars, scanVars

LEMMA OwnersUnchanged ==
    ASSUME OneOwner, BitmapIsExact, UNCHANGED <<used, usedPages, live, tables, block, len, FreshTable>>
    PROVE  OneOwner' /\ BitmapIsExact'
BY DEF OneOwner, BitmapIsExact, TablePages, HeldPages, BlockPages

LEMMA AllocPagesOwners == ASSUME OwnerInv, NEW n \in Requests, AllocPages(n) PROVE OwnerInv'
<1>1. pc = "idle" /\ pc' = "scan" /\ StartScan(n) /\ UNCHANGED <<bitmapVars, live, tables, block, len>>
  BY DEF AllocPages, StartScan, mapVars
<1>2. ScanInv'
  <2>1. n \in Nat \ {0}
    OBVIOUS
  <2> QED
    BY <1>1, <2>1, StartScanInv DEF OwnerInv
<1>3. OneOwner' /\ BitmapIsExact'
  BY <1>1, OwnersUnchanged DEF OwnerInv, FreshTable, bitmapVars
<1>4. CallKnowsBlock'
  BY <1>1 DEF OwnerInv, CallKnowsBlock
<1> QED
  BY <1>2, <1>3, <1>4 DEF OwnerInv

LEMMA ScanOnOwners == ASSUME OwnerInv, SkipFullByte \/ UsedBit \/ ClearBit PROVE OwnerInv'
<1>1. pc = "scan" /\ UNCHANGED <<used, usedPages, live, tables, pc, wanted, block, len>>
  BY DEF SkipFullByte, UsedBit, ClearBit, LooksAtBit, bitmapVars, mapVars
<1>2. ScanInv'
  BY SkipFullByteInv, UsedBitInv, ClearBitInv DEF OwnerInv
<1>3. OneOwner' /\ BitmapIsExact'
  BY <1>1, OwnersUnchanged DEF OwnerInv, FreshTable
<1>4. CallKnowsBlock'
  BY <1>1 DEF OwnerInv, CallKnowsBlock, BlockDir
<1> QED
  BY <1>2, <1>3, <1>4 DEF OwnerInv

LEMMA TakeBlockOwners == ASSUME OwnerInv, TakeBlock PROVE OwnerInv'
<1>1. pc = "scan" /\ RunFits /\ Take /\ len = 0 /\ block' = start /\ len' = wanted /\ pc' = "map"
      /\ UNCHANGED <<live, tables, pos, start, found, wanted>>
  BY DEF TakeBlock, ScanForBlock, mapVars, scanVars
<1>2. /\ used' = used \cup Span(start, wanted) /\ used' \subseteq 0 .. PagesCount - 2
      /\ usedPages' \in Nat /\ usedPages' = Cardinality(used') /\ hint' = hint /\ HintIsLow'
  BY <1>1, TakeKeeps DEF OwnerInv
<1>3. /\ start \in Nat /\ wanted \in Nat \ {0} /\ start + wanted < PagesCount
      /\ Span(start, wanted) \cap used = {}
  BY <1>1, RunIsFree DEF OwnerInv
<1>4. ScanInv'
  <2>1. opened' \in BOOLEAN
    BY DEF TakeBlock, scanVars, OwnerInv, ScanInv, TypeOK
  <2>2. TypeOK'
    BY <1>1, <1>2, <1>3, <2>1, BitmapSize DEF OwnerInv, ScanInv, TypeOK
  <2> QED
    BY <1>1, <1>2, <2>2 DEF ScanInv, ScanMissesNothing
<1>5. HeldPages' = HeldPages /\ TablePages' = TablePages /\ BlockPages' = Span(start, wanted)
      /\ BlockPages = {} /\ FreshTable = {} /\ FreshTable' = {}
  BY <1>1, BitmapSize DEF HeldPages, TablePages, BlockPages, FreshTable, OwnerInv, ScanInv, TypeOK, Span
<1>6. OneOwner'
  BY <1>1, <1>3, <1>5 DEF OwnerInv, OneOwner, BitmapIsExact
<1>7. BitmapIsExact'
  BY <1>2, <1>5 DEF OwnerInv, BitmapIsExact
<1>8. CallKnowsBlock'
  BY <1>1, <1>3 DEF OwnerInv, CallKnowsBlock
<1> QED
  BY <1>4, <1>6, <1>7, <1>8 DEF OwnerInv

LEMMA NoBlockOwners == ASSUME OwnerInv, NoBlock PROVE OwnerInv'
<1>1. pc = "scan" /\ pc' = "idle" /\ len = 0 /\ UNCHANGED <<bitmapVars, live, tables, scanVars, block, len>>
  BY DEF NoBlock, ScanForBlock, mapVars
<1>2. ScanInv'
  BY <1>1, LeaveScan DEF OwnerInv
<1>3. OneOwner' /\ BitmapIsExact'
  BY <1>1, OwnersUnchanged DEF OwnerInv, FreshTable, bitmapVars
<1>4. CallKnowsBlock'
  BY <1>1 DEF OwnerInv, CallKnowsBlock
<1> QED
  BY <1>2, <1>3, <1>4 DEF OwnerInv

LEMMA NeedTableOwners == ASSUME OwnerInv, NeedTable PROVE OwnerInv'
<1>1. pc = "map" /\ pc' = "scan" /\ wanted' = 1 /\ StartScan(1)
      /\ BlockDir # 0 /\ BlockDir \notin DOMAIN tables /\ UNCHANGED <<bitmapVars, live, tables, block, len>>
  BY DEF NeedTable, StartScan, Present, mapVars
<1>2. ScanInv'
  BY <1>1, StartScanInv DEF OwnerInv
<1>3. OneOwner' /\ BitmapIsExact'
  BY <1>1, OwnersUnchanged DEF OwnerInv, FreshTable, bitmapVars
<1>4. CallKnowsBlock'
  BY <1>1 DEF OwnerInv, CallKnowsBlock, BlockDir
<1> QED
  BY <1>2, <1>3, <1>4 DEF OwnerInv

LEMMA TakeTableOwners == ASSUME OwnerInv, TakeTable PROVE OwnerInv'
<1>1. pc = "scan" /\ RunFits /\ Take /\ len > 0 /\ pc' = "fill" /\ wanted = 1
      /\ BlockDir # 0 /\ BlockDir \notin DOMAIN tables
      /\ UNCHANGED <<live, tables, pos, start, found, wanted, block, len>>
  BY DEF TakeTable, ScanForTable, mapVars, scanVars, OwnerInv, CallKnowsBlock
<1>2. /\ used' = used \cup Span(start, wanted) /\ used' \subseteq 0 .. PagesCount - 2
      /\ usedPages' \in Nat /\ usedPages' = Cardinality(used') /\ hint' = hint /\ HintIsLow'
  BY <1>1, TakeKeeps DEF OwnerInv
<1>3. start \in Nat /\ start \notin used /\ Span(start, wanted) = {start}
  <2>1. start \in Nat /\ start \in Span(start, wanted) /\ Span(start, wanted) \cap used = {}
    BY <1>1, RunIsFree DEF OwnerInv
  <2>2. Span(start, 1) = {start}
    BY <2>1 DEF Span
  <2> QED
    BY <1>1, <2>1, <2>2
<1>4. ScanInv'
  <2>1. opened' \in BOOLEAN
    BY DEF TakeTable, scanVars, OwnerInv, ScanInv, TypeOK
  <2>2. TypeOK'
    BY <1>1, <1>2, <2>1 DEF OwnerInv, ScanInv, TypeOK
  <2> QED
    BY <1>1, <1>2, <2>2 DEF ScanInv, ScanMissesNothing
<1>5. HeldPages' = HeldPages /\ TablePages' = TablePages /\ BlockPages' = BlockPages
      /\ FreshTable = {} /\ FreshTable' = {start}
  BY <1>1 DEF HeldPages, TablePages, BlockPages, FreshTable
<1>6. OneOwner'
  BY <1>1, <1>3, <1>5 DEF OwnerInv, OneOwner, BitmapIsExact
<1>7. BitmapIsExact'
  BY <1>2, <1>3, <1>5 DEF OwnerInv, BitmapIsExact
<1>8. CallKnowsBlock'
  BY <1>1 DEF CallKnowsBlock, BlockDir
<1> QED
  BY <1>4, <1>6, <1>7, <1>8 DEF OwnerInv

(* What SetTable() does to the table pages.                                *)
LEMMA SetTablePages ==
    ASSUME NEW frame, SetTable(frame), BlockDir \notin DOMAIN tables
    PROVE  /\ DOMAIN tables' = DOMAIN tables \cup {BlockDir} /\ tables'[BlockDir] = frame
           /\ \A d \in DOMAIN tables : tables'[d] = tables[d]
           /\ TablePages' = TablePages \cup (IF frame = NullFrame THEN {} ELSE {frame - Begin})
<1>1. /\ DOMAIN tables' = DOMAIN tables \cup {BlockDir} /\ tables'[BlockDir] = frame
      /\ \A d \in DOMAIN tables : tables'[d] = tables[d]
  BY DEF SetTable
<1> HIDE DEF BlockDir
<1>2. TablePages' = {tables'[d] - Begin : d \in {x \in DOMAIN tables' : tables'[x] # NullFrame}}
  BY DEF TablePages
<1>3. TablePages' = TablePages \cup (IF frame = NullFrame THEN {} ELSE {frame - Begin})
  BY <1>1, <1>2 DEF TablePages
<1> QED
  BY <1>1, <1>3

(* The part of OneOwner about the tables alone.                            *)
OneTable == \A c, d \in DOMAIN tables : c # d /\ tables[c] = tables[d] => tables[c] = NullFrame

LEMMA FreshTableIsNew ==
    ASSUME OwnerInv, pc = "fill"
    PROVE  /\ start \in Nat /\ Frame(start) \in Nat /\ Frame(start) # NullFrame
           /\ \A d \in DOMAIN tables : tables[d] # Frame(start)
<1>1. start \in Nat /\ Frame(start) \in Nat /\ Frame(start) - Begin = start /\ Frame(start) # NullFrame
  BY BitmapSize DEF OwnerInv, ScanInv, TypeOK, Frame, NullFrame
<1>2. start \notin TablePages
  BY DEF FreshTable, OwnerInv, OneOwner
<1> QED
  BY <1>1, <1>2 DEF TablePages

LEMMA FillTableOwners == ASSUME OwnerInv, FillTable PROVE OwnerInv'
<1>1. pc = "fill" /\ pc' = "map" /\ SetTable(Frame(start)) /\ BlockDir \notin DOMAIN tables /\ len > 0
      /\ UNCHANGED <<bitmapVars, live, scanVars, block, len>>
  BY DEF FillTable, SetTable, OwnerInv, CallKnowsBlock
<1>2. start \in Nat /\ Frame(start) # NullFrame /\ Frame(start) - Begin = start
  BY BitmapSize DEF OwnerInv, ScanInv, TypeOK, Frame, NullFrame
<1>3. ScanInv'
  BY <1>1, LeaveScan DEF OwnerInv
<1>4. HeldPages' = HeldPages /\ TablePages' = TablePages \cup {start} /\ BlockPages' = BlockPages
      /\ FreshTable = {start} /\ FreshTable' = {} /\ live' = live /\ used' = used /\ usedPages' = usedPages
  BY <1>1, <1>2, SetTablePages DEF HeldPages, BlockPages, FreshTable, bitmapVars
<1>5. OneTable'
  <2>1. \A d \in DOMAIN tables : tables[d] # Frame(start)
    BY <1>1, FreshTableIsNew
  <2> QED
    BY <1>1, <2>1, SetTablePages DEF OwnerInv, OneOwner, OneTable
<1>6. OneOwner'
  BY <1>4, <1>5 DEF OwnerInv, OneOwner, OneTable
<1>7. BitmapIsExact'
  BY <1>4 DEF OwnerInv, BitmapIsExact
<1>8. CallKnowsBlock'
  BY <1>1 DEF CallKnowsBlock
<1> QED
  BY <1>3, <1>6, <1>7, <1>8 DEF OwnerInv

LEMMA NoTableOwners == ASSUME OwnerInv, NoTable PROVE OwnerInv'
<1>1. pc = "scan" /\ pc' = "map" /\ SetTable(NullFrame) /\ BlockDir \notin DOMAIN tables /\ len > 0
      /\ UNCHANGED <<bitmapVars, live, scanVars, block, len>>
  BY DEF NoTable, ScanForTable, SetTable, OwnerInv, CallKnowsBlock
<1>2. ScanInv'
  BY <1>1, LeaveScan DEF OwnerInv
<1>3. HeldPages' = HeldPages /\ TablePages' = TablePages /\ BlockPages' = BlockPages
      /\ FreshTable = {} /\ FreshTable' = {} /\ live' = live /\ used' = used /\ usedPages' = usedPages
  BY <1>1, SetTablePages DEF HeldPages, BlockPages, FreshTable, bitmapVars
<1>4. OneOwner'
  <2>1. OneTable'
    BY <1>1, SetTablePages DEF OwnerInv, OneOwner, OneTable
  <2> QED
    BY <1>3, <2>1 DEF OwnerInv, OneOwner, OneTable
<1>5. BitmapIsExact'
  BY <1>3 DEF OwnerInv, BitmapIsExact
<1>6. CallKnowsBlock'
  BY <1>1 DEF CallKnowsBlock
<1> QED
  BY <1>2, <1>4, <1>5, <1>6 DEF OwnerInv

LEMMA StopOwners ==
    ASSUME OwnerInv, FillFaults \/ MapRefused \/ \E a \in DOMAIN live : UnmapRefused(a)
    PROVE  OwnerInv'
<1>1. UNCHANGED <<bitmapVars, live, tables, scanVars, block, len>>
      /\ \/ pc = "fill" /\ pc' = "fault"
         \/ pc = "map" /\ pc' = "refused"
         \/ pc = "idle" /\ pc' = "unmap"
  BY DEF FillFaults, MapRefused, UnmapRefused, Stop, mapVars
<1>2. ScanInv'
  BY <1>1, LeaveScan DEF OwnerInv
<1>3. OneOwner' /\ BitmapIsExact'
  BY <1>1, OwnersUnchanged DEF OwnerInv, FreshTable, bitmapVars, scanVars
<1>4. CallKnowsBlock'
  BY <1>1 DEF CallKnowsBlock
<1> QED
  BY <1>2, <1>3, <1>4 DEF OwnerInv

(* The block that is handed out begins at no block already held.           *)
LEMMA HoldOwners ==
    ASSUME OwnerInv, pc = "map", Hold, UNCHANGED <<bitmapVars, tables, scanVars>>
    PROVE  /\ OwnerInv'
           /\ block \notin DOMAIN live /\ block \in Nat /\ len \in Nat \ {0}
           /\ DOMAIN live' = DOMAIN live \cup {block} /\ live'[block] = len
           /\ \A a \in DOMAIN live : live'[a] = live[a]
<1>1. pc' = "idle" /\ block' = 0 /\ len' = 0
      /\ UNCHANGED <<used, hint, usedPages, tables, pos, start, found, wanted>>
  BY DEF Hold, bitmapVars, scanVars
<1>2. block \in 0 .. Bits - 1 /\ block \in Nat /\ len \in Nat \ {0}
  BY BitmapSize DEF OwnerInv, CallKnowsBlock, ScanInv, TypeOK
<1>3. block \notin DOMAIN live
  <2> SUFFICES ASSUME block \in DOMAIN live PROVE FALSE
    OBVIOUS
  <2>1. live[block] \in Nat \ {0}
    BY DEF OwnerInv, ScanInv, TypeOK
  <2>2. block \in Span(block, live[block]) /\ block \in BlockPages
    BY <1>2, <2>1 DEF Span, BlockPages
  <2> QED
    BY <2>2 DEF OwnerInv, OneOwner, HeldPages
<1>4. DOMAIN live' = DOMAIN live \cup {block} /\ live'[block] = len
      /\ \A a \in DOMAIN live : live'[a] = live[a]
  BY <1>3 DEF Hold
<1>5. HeldPages' = HeldPages \cup BlockPages /\ BlockPages' = {}
      /\ TablePages' = TablePages /\ FreshTable = {} /\ FreshTable' = {}
  <2>1. HeldPages' = HeldPages \cup BlockPages
    BY <1>4 DEF HeldPages, BlockPages
  <2>2. BlockPages' = {}
    BY <1>1 DEF BlockPages, Span
  <2> QED
    BY <1>1, <2>1, <2>2 DEF TablePages, FreshTable
<1>6. ScanInv'
  <2>1. opened' \in BOOLEAN
    BY DEF scanVars, OwnerInv, ScanInv, TypeOK
  <2>2. TypeOK'
    BY <1>1, <1>2, <1>4, <2>1, BitmapSize DEF OwnerInv, ScanInv, TypeOK
  <2> QED
    BY <1>1, <2>2 DEF ScanInv, ScanMissesNothing, HintIsLow, OwnerInv
<1>7. \A a, b \in DOMAIN live' : a # b => Span(a, live'[a]) \cap Span(b, live'[b]) = {}
  <2>1. \A a \in DOMAIN live : Span(a, live[a]) \cap Span(block, len) = {}
    BY DEF OwnerInv, OneOwner, HeldPages, BlockPages
  <2> QED
    BY <1>4, <2>1 DEF OwnerInv, OneOwner
<1>8. OneOwner'
  BY <1>5, <1>7 DEF OwnerInv, OneOwner
<1>9. BitmapIsExact'
  BY <1>1, <1>5 DEF OwnerInv, BitmapIsExact
<1>10. CallKnowsBlock'
  BY <1>1 DEF CallKnowsBlock
<1> QED
  BY <1>2, <1>3, <1>4, <1>6, <1>8, <1>9, <1>10 DEF OwnerInv

(* Giving a block back keeps every page below the new hint taken.          *)
LEMMA ReleaseHint ==
    ASSUME ScanInv, NEW a \in DOMAIN live, Release(a)
    PROVE  HintIsLow' /\ hint' \in 0 .. ByteCount
<1>1. used' = used \ Span(a, live[a]) /\ hint' = IF Byte(a) < hint THEN Byte(a) ELSE hint
  BY DEF Release
<1>2. a \in Nat /\ a < Bits /\ hint \in Nat /\ hint <= ByteCount
  BY BitmapSize DEF ScanInv, TypeOK
<1>3. Byte(a) \in Nat /\ Byte(a) < ByteCount /\ BitsPerByte * Byte(a) <= a
  BY <1>2, ByteOf, ByteFits
<1>4. hint' \in 0 .. ByteCount /\ hint' <= Byte(a) /\ hint' <= hint
  BY <1>1, <1>2, <1>3, BitmapSize
<1>5. BitsPerByte * hint' <= a /\ BitsPerByte * hint' <= BitsPerByte * hint
  <2>1. hint' \in Nat
    BY <1>4, BitmapSize
  <2>2. BitsPerByte * hint' <= BitsPerByte * hint
    BY <1>2, <1>4, <2>1, ByteMonotone
  <2>3. BitsPerByte * hint' <= BitsPerByte * Byte(a) /\ BitsPerByte * hint' \in Nat
    BY <1>3, <1>4, <2>1, ByteMonotone
  <2>4. BitsPerByte * Byte(a) \in Nat
    BY <1>3, ByteStarts
  <2> QED
    BY <1>2, <1>3, <2>2, <2>3, <2>4
<1>6. \A i \in 0 .. BitsPerByte * hint' - 1 : i \in used /\ i \notin Span(a, live[a])
  <2>1. BitsPerByte * hint' \in Nat /\ BitsPerByte * hint \in Nat
    <3>1. hint' \in Nat
      BY <1>4, BitmapSize
    <3> QED
      BY <1>2, <3>1, ByteStarts
  <2> HIDE <1>1
  <2> QED
    BY <1>2, <1>5, <2>1 DEF ScanInv, HintIsLow, Span
<1> QED
  BY <1>1, <1>4, <1>6 DEF HintIsLow

LEMMA FreePagesOwners == ASSUME OwnerInv, NEW a \in DOMAIN live, FreePages(a) PROVE OwnerInv'
<1>1. /\ pc = "idle" /\ pc' = pc /\ Release(a)
      /\ used' = used \ Span(a, live[a]) /\ usedPages' = usedPages - live[a]
      /\ live' = [b \in DOMAIN live \ {a} |-> live[b]]
      /\ UNCHANGED <<tables, pos, start, found, wanted, block, len>>
  BY DEF FreePages, Release, mapVars, scanVars
<1>2. HintIsLow' /\ hint' \in 0 .. ByteCount
  BY <1>1, ReleaseHint DEF OwnerInv
<1>3. a \in Nat /\ live[a] \in Nat /\ Span(a, live[a]) \subseteq used
  <2>1. Span(a, live[a]) \subseteq HeldPages
    BY DEF HeldPages
  <2> QED
    BY <2>1, BitmapSize DEF OwnerInv, ScanInv, TypeOK, BitmapIsExact
<1>4. usedPages' \in Nat /\ usedPages' = Cardinality(used') /\ used' \subseteq 0 .. PagesCount - 2
  <2>1. used \subseteq 0 .. PagesCount - 2 /\ usedPages = Cardinality(used)
    BY DEF OwnerInv, ScanInv, TypeOK, BitmapIsExact
  <2>2. Cardinality(used') = usedPages - live[a]
    BY <1>1, <1>3, <2>1, CountFreed
  <2>3. used' \subseteq 0 .. PagesCount - 2
    BY <1>1, <2>1
  <2> QED
    BY <1>1, <2>2, <2>3, PagesAreFinite
<1>5. DOMAIN live' = DOMAIN live \ {a} /\ \A b \in DOMAIN live' : live'[b] = live[b]
  BY <1>1
<1>6. ScanInv'
  <2>1. opened' \in BOOLEAN
    BY DEF FreePages, scanVars, OwnerInv, ScanInv, TypeOK
  <2>2. TypeOK'
    BY <1>1, <1>2, <1>4, <1>5, <2>1 DEF OwnerInv, ScanInv, TypeOK
  <2> QED
    BY <1>1, <1>2, <2>2 DEF ScanInv, ScanMissesNothing
<1>7. TablePages' = TablePages /\ BlockPages' = BlockPages /\ FreshTable = {} /\ FreshTable' = {}
  BY <1>1 DEF TablePages, BlockPages, FreshTable
<1>8. HeldPages' = HeldPages \ Span(a, live[a])
  <2>1. \A b \in DOMAIN live' : Span(b, live'[b]) \cap Span(a, live[a]) = {}
    BY <1>5 DEF OwnerInv, OneOwner
  <2> QED
    BY <1>5, <2>1 DEF HeldPages
<1>9. OneOwner'
  BY <1>1, <1>5, <1>7, <1>8 DEF OwnerInv, OneOwner
<1>10. BitmapIsExact'
  <2>1. Span(a, live[a]) \cap (TablePages \cup BlockPages \cup {0}) = {}
    BY DEF OwnerInv, OneOwner, HeldPages
  <2> QED
    BY <1>1, <1>4, <1>7, <1>8, <2>1 DEF OwnerInv, BitmapIsExact
<1>11. CallKnowsBlock'
  BY <1>1 DEF OwnerInv, CallKnowsBlock
<1> QED
  BY <1>6, <1>9, <1>10, <1>11 DEF OwnerInv

LEMMA InitOwners == Init => OwnerInv
<1> SUFFICES ASSUME Init PROVE OwnerInv
  OBVIOUS
<1>1. used = {0} /\ hint = 0 /\ usedPages = 1 /\ DOMAIN live = {} /\ DOMAIN tables = {}
      /\ pc = "idle" /\ pos = 0 /\ start = 0 /\ found = 0 /\ wanted = 0 /\ block = 0 /\ len = 0
  BY DEF Init
<1>2. TypeOK
  <2>1. opened \in BOOLEAN
    BY DEF Init
  <2> QED
    BY <1>1, <2>1, BitmapSize DEF TypeOK
<1>3. HeldPages = {} /\ TablePages = {} /\ BlockPages = {} /\ FreshTable = {}
  BY <1>1 DEF HeldPages, TablePages, BlockPages, FreshTable, Span
<1>4. BitmapIsExact
  <2>1. Cardinality({0}) = 1
    BY FS_Singleton
  <2> QED
    BY <1>1, <1>3, <2>1 DEF BitmapIsExact
<1>5. HintIsLow /\ ScanMissesNothing /\ CallKnowsBlock
  BY <1>1 DEF HintIsLow, ScanMissesNothing, CallKnowsBlock
<1>6. OneOwner
  BY <1>1, <1>3 DEF OneOwner
<1> QED
  BY <1>2, <1>4, <1>5, <1>6 DEF OwnerInv, ScanInv

LEMMA NextOwners == OwnerInv /\ [Next]_vars => OwnerInv'
<1> SUFFICES ASSUME OwnerInv, [Next]_vars PROVE OwnerInv'
  OBVIOUS
<1>1. CASE \E n \in Requests : AllocPages(n)
  BY <1>1, AllocPagesOwners
<1>2. CASE \E a \in DOMAIN live : FreePages(a) \/ UnmapRefused(a)
  BY <1>2, FreePagesOwners, StopOwners
<1>3. CASE ScanStep
  BY <1>3, ScanOnOwners, TakeBlockOwners, NoBlockOwners, TakeTableOwners, NoTableOwners DEF ScanStep
<1>4. CASE MapStep
  <2>1. CASE MapLarge \/ MapInTable
    <3>1. pc = "map" /\ Hold /\ UNCHANGED <<bitmapVars, tables, scanVars>>
      BY <2>1 DEF MapLarge, MapInTable, mapVars
    <3> QED
      BY <3>1, HoldOwners
  <2> QED
    BY <1>4, <2>1, NeedTableOwners, FillTableOwners, StopOwners DEF MapStep
<1>5. CASE UNCHANGED vars
  <2>1. opened' \in BOOLEAN
    BY <1>5 DEF vars, OwnerInv, ScanInv, TypeOK
  <2>2. TypeOK' /\ HintIsLow' /\ ScanMissesNothing'
    BY <1>5, <2>1 DEF vars, OwnerInv, ScanInv, TypeOK, HintIsLow, ScanMissesNothing, AtByte
  <2>3. OneOwner' /\ BitmapIsExact'
    BY <1>5, OwnersUnchanged DEF vars, OwnerInv, FreshTable
  <2>4. CallKnowsBlock'
    BY <1>5 DEF vars, OwnerInv, CallKnowsBlock, BlockDir
  <2> QED
    BY <2>2, <2>3, <2>4 DEF OwnerInv, ScanInv
<1> QED
  BY <1>1, <1>2, <1>3, <1>4, <1>5 DEF Next

(* The bitmap, its counter, the blocks and the page tables agree at every  *)
(* step of a scan, and the hint hides no free run.                         *)
THEOREM AlwaysOwnerInv == Spec => []OwnerInv
<1>1. Init => OwnerInv
  BY InitOwners
<1>2. OwnerInv /\ [Next]_vars => OwnerInv'
  BY NextOwners
<1> QED
  BY <1>1, <1>2, PTL DEF Spec

(* The scan stays in the bitmap, and what it has found is free; the last   *)
(* page is never handed out, so its unsigned subtraction never wraps.      *)
THEOREM AlwaysTypeOK == Spec => []TypeOK
<1>1. OwnerInv => TypeOK
  BY DEF OwnerInv, ScanInv
<1> QED
  BY <1>1, AlwaysOwnerInv, PTL

(* alloc_pages() never returns a page that is held or that serves as       *)
(* directory or page table.                                                *)
THEOREM AlwaysOneOwner == Spec => []OneOwner
<1>1. OwnerInv => OneOwner
  BY DEF OwnerInv
<1> QED
  BY <1>1, AlwaysOwnerInv, PTL

(* The set bits are the owned pages, and m_usedPages counts them.          *)
THEOREM AlwaysBitmapIsExact == Spec => []BitmapIsExact
<1>1. OwnerInv => BitmapIsExact
  BY DEF OwnerInv
<1> QED
  BY <1>1, AlwaysOwnerInv, PTL

(* alloc() returns nullptr only when no run of free pages, the last page   *)
(* aside, is long enough.                                                  *)
THEOREM AlwaysNullOnlyWhenNoRun == Spec => []NullOnlyWhenNoRun
<1>1. OwnerInv => NullOnlyWhenNoRun
  <2> SUFFICES ASSUME OwnerInv, pc = "scan", ScanEnds, ~ RunFits,
                      NEW a \in 0 .. PagesCount - 1 - wanted, Span(a, wanted) \cap used = {}
               PROVE  FALSE
    BY DEF NullOnlyWhenNoRun
  <2>1. pos \in Nat /\ found \in Nat /\ start \in Nat /\ wanted \in Nat \ {0} /\ pos <= Bits
        /\ (found > 0 => start + found = pos) /\ PagesCount <= Bits /\ Bits \in Nat
    BY BitmapSize DEF OwnerInv, ScanInv, TypeOK
  <2>2. a \in Nat /\ a + wanted < PagesCount /\ a \in 0 .. Bits
    BY <2>1
  <2>3. a >= pos - found
    BY <2>2 DEF OwnerInv, ScanInv, ScanMissesNothing
  <2>4. CASE found < wanted
    <3>1. pos = Bits
      BY <2>1, <2>4 DEF ScanEnds
    <3> QED
      BY <2>1, <2>2, <2>3, <2>4, <3>1
  <2>5. CASE found >= wanted
    <3>1. found > 0 /\ start < PagesCount /\ ~ (Room >= wanted)
      BY <2>1, <2>5 DEF RunFits, OwnerInv, ScanInv, ScanMissesNothing
    <3>2. Room = PagesCount - start - 1
      BY <2>1, <3>1, RoomOfRun
    <3> QED
      BY <2>1, <2>2, <2>3, <3>1, <3>2
  <2> QED
    BY <2>1, <2>4, <2>5
<1> QED
  BY <1>1, AlwaysOwnerInv, PTL

-----------------------------------------------------------------------------
(* The page tables.                                                        *)

LEMMA FrameOf ==
    ASSUME NEW i \in Nat
    PROVE  /\ Frame(i) \in Nat /\ Frame(i) - Begin = i
           /\ DirOf(Frame(i)) \in Nat /\ IndexOf(Frame(i)) \in 0 .. PagesPerTable - 1
BY DEF Frame, DirOf, IndexOf

LEMMA SameTable ==
    ASSUME NEW f \in Nat, NEW i \in Nat, IndexOf(f) + i < PagesPerTable
    PROVE  DirOf(f + i) = DirOf(f) /\ IndexOf(f + i) = IndexOf(f) + i
BY DEF DirOf, IndexOf

LEMMA LiveFacts ==
    ASSUME TypeOK, NEW a \in DOMAIN live
    PROVE  /\ a \in Nat /\ live[a] \in Nat \ {0}
           /\ \A i \in Span(a, live[a]) : i \in Nat /\ i - a \in Nat /\ i - a < live[a]
BY BitmapSize DEF TypeOK, Span

(* All pages of a block behind a table are in that table.                  *)
LEMMA BlockTable ==
    ASSUME TypeOK, BlocksStayInTable, NEW a \in DOMAIN live, NEW i \in Span(a, live[a]),
           DirOf(Frame(a)) # 0
    PROVE  /\ DirOf(Frame(a)) \in DOMAIN tables /\ DirOf(Frame(i)) = DirOf(Frame(a))
           /\ i - a \in 0 .. live[a] - 1 /\ IndexOf(Frame(i)) = IndexOf(Frame(a)) + (i - a)
<1>1. a \in Nat /\ i \in Nat /\ i - a \in Nat /\ i - a < live[a] /\ live[a] \in Nat
  BY LiveFacts
<1>2. Frame(a) \in Nat /\ IndexOf(Frame(a)) \in Nat /\ Frame(i) = Frame(a) + (i - a)
  BY <1>1, FrameOf DEF Frame
<1>3. DirOf(Frame(a)) \in DOMAIN tables /\ IndexOf(Frame(a)) + live[a] < PagesPerTable
  BY DEF BlocksStayInTable
<1>4. IndexOf(Frame(a)) + (i - a) < PagesPerTable
  BY <1>1, <1>2, <1>3
<1> QED
  BY <1>1, <1>2, <1>3, <1>4, SameTable

LEMMA TablesUnchanged ==
    ASSUME TablesInv, UNCHANGED <<live, tables, pte>> PROVE TablesInv'
BY DEF TablesInv, TablesOK, BlocksStayInTable, EntriesAreOwned, Owns, AllMapped, Mapped, Reaches

(* A new table is empty, and so is the one at address 0 each time it is    *)
(* put there: what is unmapped by that is behind such a table.             *)
LEMMA SetTableTables ==
    ASSUME MapInv, NEW frame \in Nat, SetTable(frame), BlockDir \in Nat \ {0}, BlockDir \notin DOMAIN tables,
           live' = live, \A d \in DOMAIN tables : tables[d] = frame => frame = NullFrame
    PROVE  TablesInv'
<1>1. /\ DOMAIN tables' = DOMAIN tables \cup {BlockDir} /\ tables'[BlockDir] = frame
      /\ \A d \in DOMAIN tables : tables'[d] = tables[d]
  BY SetTablePages
<1>2. DOMAIN pte' = {e \in DOMAIN pte : e[1] # frame} /\ \A e \in DOMAIN pte' : pte'[e] = pte[e]
  BY DEF SetTable
<1>3. TablesOK'
  BY <1>1 DEF MapInv, TablesInv, TablesOK
<1>4. BlocksStayInTable'
  BY <1>1 DEF MapInv, TablesInv, BlocksStayInTable
<1>5. EntriesAreOwned'
  <2> SUFFICES ASSUME NEW e \in DOMAIN pte'
               PROVE  /\ pte'[e] \in Nat /\ DirOf(pte'[e]) \in DOMAIN tables'
                      /\ e = <<tables'[DirOf(pte'[e])], IndexOf(pte'[e])>>
                      /\ \E a \in DOMAIN live' : DirOf(Frame(a)) # 0 /\ pte'[e] - Begin \in Span(a, live'[a])
    BY DEF EntriesAreOwned, Owns
  <2>1. e \in DOMAIN pte /\ pte'[e] = pte[e]
    BY <1>2
  <2>2. /\ pte[e] \in Nat /\ DirOf(pte[e]) \in DOMAIN tables
        /\ e = <<tables[DirOf(pte[e])], IndexOf(pte[e])>>
        /\ \E a \in DOMAIN live : DirOf(Frame(a)) # 0 /\ pte[e] - Begin \in Span(a, live[a])
    BY <2>1 DEF MapInv, TablesInv, EntriesAreOwned, Owns
  <2> QED
    BY <1>1, <2>1, <2>2
<1>6. AllMapped'
  <2> SUFFICES ASSUME NEW a \in DOMAIN live, NEW i \in Span(a, live[a]) PROVE Mapped(a, i)'
    BY DEF AllMapped
  <2> DEFINE d == DirOf(Frame(i))
             e == <<tables[d], IndexOf(Frame(i))>>
  <2>1. CASE DirOf(Frame(a)) # 0 /\ tables[DirOf(Frame(a))] = NullFrame
    BY <1>1, <2>1 DEF Mapped, MapInv, TablesInv, BlocksStayInTable
  <2>2. CASE Reaches(Frame(i)) /\ d # 0 /\ DirOf(Frame(a)) # 0
    <3>1. d \in DOMAIN tables /\ e \in DOMAIN pte /\ pte[e] = Frame(i)
      BY <2>2 DEF Reaches
    <3>2. CASE tables[d] = frame
      <4>1. d = DirOf(Frame(a))
        BY <2>2, BlockTable DEF MapInv, TablesInv, OwnerInv, ScanInv
      <4> QED
        BY <1>1, <2>2, <3>1, <3>2, <4>1 DEF Mapped
    <3>3. CASE tables[d] # frame
      <4>1. e[1] = tables[d]
        OBVIOUS
      <4>2. e \in DOMAIN pte' /\ pte'[e] = Frame(i) /\ tables'[d] = tables[d] /\ d \in DOMAIN tables'
        BY <1>1, <1>2, <3>1, <3>3, <4>1
      <4> QED
        BY <4>2 DEF Mapped, Reaches
    <3> QED
      BY <3>2, <3>3
  <2>3. CASE d = 0
    BY <2>3 DEF Mapped, Reaches
  <2>4. CASE DirOf(Frame(a)) = 0 /\ d # 0
    BY <2>4 DEF Mapped
  <2>5. Mapped(a, i)
    BY DEF MapInv, TablesInv, AllMapped
  <2> QED
    BY <2>1, <2>2, <2>3, <2>4, <2>5 DEF Mapped
<1> QED
  BY <1>3, <1>4, <1>5, <1>6 DEF TablesInv

LEMMA FillTableTables == ASSUME MapInv, FillTable \/ NoTable PROVE TablesInv'
<1>1. BlockDir \in Nat \ {0} /\ BlockDir \notin DOMAIN tables /\ live' = live
  <2>1. block \in Nat
    BY BitmapSize DEF MapInv, OwnerInv, ScanInv, TypeOK
  <2> QED
    BY <2>1, FrameOf DEF FillTable, NoTable, ScanForTable, MapInv, OwnerInv, CallKnowsBlock, BlockDir
<1>2. CASE FillTable
  <2>1. Frame(start) \in Nat /\ \A d \in DOMAIN tables : tables[d] # Frame(start)
    BY <1>2, FreshTableIsNew DEF FillTable, MapInv
  <2> QED
    BY <1>1, <1>2, <2>1, SetTableTables DEF FillTable
<1>3. CASE NoTable
  BY <1>1, <1>3, SetTableTables DEF NoTable, NullFrame
<1> QED
  BY <1>2, <1>3

LEMMA MapLargeTables == ASSUME MapInv, MapLarge PROVE TablesInv'
<1>1. /\ block \notin DOMAIN live /\ DOMAIN live' = DOMAIN live \cup {block} /\ live'[block] = len
      /\ \A a \in DOMAIN live : live'[a] = live[a]
      /\ DirOf(Frame(block)) = 0 /\ UNCHANGED <<tables, pte>>
  BY HoldOwners DEF MapLarge, MapInv, mapVars, BlockDir
<1>2. TablesOK'
  BY <1>1 DEF MapInv, TablesInv, TablesOK
<1>3. BlocksStayInTable'
  BY <1>1 DEF MapInv, TablesInv, BlocksStayInTable
<1>4. EntriesAreOwned'
  BY <1>1 DEF MapInv, TablesInv, EntriesAreOwned, Owns
<1>5. AllMapped'
  BY <1>1 DEF MapInv, TablesInv, AllMapped, Mapped, Reaches
<1> QED
  BY <1>2, <1>3, <1>4, <1>5 DEF TablesInv

(* The entries that MapInTable writes: those of the block's own frames.    *)
LEMMA NewEntries ==
    ASSUME MapInv, MapInTable
    PROVE  /\ BlockDir \in DOMAIN tables /\ BlockDir # 0 /\ IndexOf(Frame(block)) + len < PagesPerTable
           /\ DOMAIN pte' = DOMAIN pte \cup BlockEntries
           /\ \A e \in DOMAIN pte : pte'[e] = pte[e]
           /\ \A i \in 0 .. len - 1 :
                  LET e == <<tables[BlockDir], IndexOf(Frame(block)) + i>> IN
                  /\ e \in BlockEntries
                  /\ pte'[e] = Frame(block + i) /\ Frame(block + i) \in Nat
                  /\ DirOf(pte'[e]) = BlockDir /\ IndexOf(pte'[e]) = IndexOf(Frame(block)) + i
<1>1. /\ BlockDir \in DOMAIN tables /\ BlockDir # 0
      /\ len < PagesPerTable - IndexOf(Frame(block)) /\ BlockEntries \cap DOMAIN pte = {}
  BY DEF MapInTable, TableTakesBlock, MapInv, TablesInv, TablesOK
<1>2. block \in Nat /\ len \in Nat /\ Frame(block) \in Nat /\ IndexOf(Frame(block)) \in 0 .. PagesPerTable - 1
  BY FrameOf, BitmapSize DEF MapInv, OwnerInv, ScanInv, TypeOK
<1>3. IndexOf(Frame(block)) + len < PagesPerTable
  BY <1>1, <1>2
<1>4. DOMAIN pte' = DOMAIN pte \cup BlockEntries /\ \A e \in DOMAIN pte : pte'[e] = pte[e]
  BY <1>1 DEF MapInTable
<1>5. ASSUME NEW i \in 0 .. len - 1, NEW e, e = <<tables[BlockDir], IndexOf(Frame(block)) + i>>
      PROVE  /\ e \in BlockEntries
             /\ pte'[e] = Frame(block + i) /\ Frame(block + i) \in Nat
             /\ DirOf(pte'[e]) = BlockDir /\ IndexOf(pte'[e]) = IndexOf(Frame(block)) + i
  <2>1. e \in BlockEntries /\ e[2] = IndexOf(Frame(block)) + i
    BY <1>5 DEF BlockEntries
  <2>2. pte'[e] = Frame(block) + (e[2] - IndexOf(Frame(block)))
    BY <2>1 DEF MapInTable
  <2>3. pte'[e] = Frame(block) + i /\ Frame(block) + i = Frame(block + i) /\ Frame(block + i) \in Nat
    BY <1>2, <2>1, <2>2 DEF Frame
  <2>4. DirOf(Frame(block) + i) = BlockDir /\ IndexOf(Frame(block) + i) = IndexOf(Frame(block)) + i
    BY <1>2, <1>3, SameTable DEF BlockDir
  <2> QED
    BY <2>1, <2>3, <2>4
<1> QED
  BY <1>1, <1>3, <1>4, <1>5

LEMMA MapInTableTables == ASSUME MapInv, MapInTable PROVE TablesInv'
<1>1. /\ block \notin DOMAIN live /\ block \in Nat /\ len \in Nat \ {0}
      /\ DOMAIN live' = DOMAIN live \cup {block} /\ live'[block] = len
      /\ \A a \in DOMAIN live : live'[a] = live[a]
      /\ tables' = tables
  BY HoldOwners DEF MapInTable, MapInv
<1>2. /\ BlockDir \in DOMAIN tables /\ BlockDir # 0 /\ IndexOf(Frame(block)) + len < PagesPerTable
      /\ DOMAIN pte' = DOMAIN pte \cup BlockEntries
      /\ \A e \in DOMAIN pte : pte'[e] = pte[e]
  BY NewEntries
<1>3. TablesOK'
  BY <1>1 DEF MapInv, TablesInv, TablesOK
<1>4. BlocksStayInTable'
  BY <1>1, <1>2 DEF MapInv, TablesInv, BlocksStayInTable, BlockDir
<1>5. EntriesAreOwned'
  <2> SUFFICES ASSUME NEW e \in DOMAIN pte'
               PROVE  /\ pte'[e] \in Nat /\ DirOf(pte'[e]) \in DOMAIN tables
                      /\ e = <<tables[DirOf(pte'[e])], IndexOf(pte'[e])>>
                      /\ \E a \in DOMAIN live' : DirOf(Frame(a)) # 0 /\ pte'[e] - Begin \in Span(a, live'[a])
    BY <1>1 DEF EntriesAreOwned, Owns
  <2>1. CASE e \in DOMAIN pte
    BY <1>1, <1>2, <2>1 DEF MapInv, TablesInv, EntriesAreOwned, Owns
  <2>2. CASE e \in BlockEntries
    <3>1. PICK i \in 0 .. len - 1 : e = <<tables[BlockDir], IndexOf(Frame(block)) + i>>
      BY <2>2 DEF BlockEntries
    <3>2. /\ pte'[e] = Frame(block + i) /\ Frame(block + i) \in Nat
          /\ DirOf(pte'[e]) = BlockDir /\ IndexOf(pte'[e]) = IndexOf(Frame(block)) + i
      BY <3>1, NewEntries
    <3>3. Frame(block + i) - Begin \in Span(block, len)
      BY <1>1, FrameOf DEF Span, Frame
    <3> QED
      BY <1>1, <1>2, <3>1, <3>2, <3>3 DEF BlockDir
  <2> QED
    BY <1>2, <2>1, <2>2
<1>6. AllMapped'
  <2> SUFFICES ASSUME NEW a \in DOMAIN live', NEW i \in Span(a, live'[a]) PROVE Mapped(a, i)'
    BY DEF AllMapped
  <2>1. CASE a # block
    <3>1. a \in DOMAIN live /\ i \in Span(a, live[a])
      BY <1>1, <2>1
    <3>2. Mapped(a, i)
      BY <3>1 DEF MapInv, TablesInv, AllMapped
    <3> QED
      BY <1>1, <1>2, <3>2 DEF Mapped, Reaches
  <2>2. CASE a = block
    <3>1. i - block \in 0 .. len - 1 /\ i = block + (i - block)
      BY <1>1, <2>2 DEF Span
    <3> DEFINE e == <<tables[BlockDir], IndexOf(Frame(block)) + (i - block)>>
    <3>2. e \in BlockEntries /\ pte'[e] = Frame(i) /\ DirOf(Frame(i)) = BlockDir
          /\ IndexOf(Frame(i)) = IndexOf(Frame(block)) + (i - block)
      BY <3>1, NewEntries
    <3> QED
      BY <1>1, <1>2, <3>2 DEF Mapped, Reaches
  <2> QED
    BY <2>1, <2>2
<1> QED
  BY <1>3, <1>4, <1>5, <1>6 DEF TablesInv

(* A block is given back only when none of its pages has an entry.         *)
LEMMA FreePagesTables == ASSUME MapInv, NEW a \in DOMAIN live, FreePages(a) PROVE TablesInv'
<1>1. /\ DOMAIN live' = DOMAIN live \ {a} /\ \A b \in DOMAIN live' : live'[b] = live[b]
      /\ UNCHANGED <<tables, pte>> /\ ~ EntryPresent(a)
  BY DEF FreePages, Release, mapVars
<1>2. TablesOK'
  BY <1>1 DEF MapInv, TablesInv, TablesOK
<1>3. BlocksStayInTable'
  BY <1>1 DEF MapInv, TablesInv, BlocksStayInTable
<1>4. \A e \in DOMAIN pte : ~ Owns(a, pte[e])
  <2> SUFFICES ASSUME NEW e \in DOMAIN pte, Owns(a, pte[e]) PROVE FALSE
    OBVIOUS
  <2> DEFINE i == pte[e] - Begin
  <2>1. /\ pte[e] \in Nat /\ e = <<tables[DirOf(pte[e])], IndexOf(pte[e])>>
        /\ i \in Span(a, live[a]) /\ DirOf(Frame(a)) # 0 /\ Frame(i) = pte[e]
    BY DEF MapInv, TablesInv, EntriesAreOwned, Owns, Frame
  <2>2. DirOf(Frame(i)) = DirOf(Frame(a)) /\ i - a \in 0 .. live[a] - 1
        /\ IndexOf(Frame(i)) = IndexOf(Frame(a)) + (i - a)
    BY <2>1, BlockTable DEF MapInv, OwnerInv, ScanInv, TablesInv
  <2>3. e \in EntriesOf(a)
    BY <2>1, <2>2 DEF EntriesOf
  <2> QED
    BY <1>1, <2>1, <2>3 DEF EntryPresent
<1>5. EntriesAreOwned'
  BY <1>1, <1>4 DEF MapInv, TablesInv, EntriesAreOwned, Owns
<1>6. AllMapped'
  BY <1>1 DEF MapInv, TablesInv, AllMapped, Mapped, Reaches
<1> QED
  BY <1>2, <1>3, <1>5, <1>6 DEF TablesInv

LEMMA NextMap == MapInv /\ [Next]_vars => MapInv'
<1> SUFFICES ASSUME MapInv, [Next]_vars PROVE MapInv'
  OBVIOUS
<1>1. OwnerInv'
  BY NextOwners DEF MapInv
<1>2. TablesInv'
  <2>1. CASE FillTable \/ NoTable
    BY <2>1, FillTableTables
  <2>2. CASE MapLarge \/ MapInTable
    BY <2>2, MapLargeTables, MapInTableTables
  <2>3. CASE \E a \in DOMAIN live : FreePages(a)
    BY <2>3, FreePagesTables
  <2>4. CASE UNCHANGED <<live, tables, pte>>
    BY <2>4, TablesUnchanged DEF MapInv
  <2>5. (FillTable \/ NoTable) \/ (MapLarge \/ MapInTable) \/ (\E a \in DOMAIN live : FreePages(a))
        \/ UNCHANGED <<live, tables, pte>>
    BY DEF Next, ScanStep, MapStep, AllocPages, SkipFullByte, UsedBit, ClearBit, LooksAtBit, TakeBlock,
           NoBlock, TakeTable, NeedTable, FillFaults, MapRefused, UnmapRefused, mapVars, vars
  <2> QED
    BY <2>1, <2>2, <2>3, <2>4, <2>5
<1> QED
  BY <1>1, <1>2 DEF MapInv

(* So do the page directory and its tables with the blocks.                *)
THEOREM AlwaysMapInv == Spec => []MapInv
<1>1. Init => MapInv
  BY InitOwners DEF Init, MapInv, TablesInv, TablesOK, BlocksStayInTable, EntriesAreOwned, AllMapped
<1>2. MapInv /\ [Next]_vars => MapInv'
  BY NextMap
<1> QED
  BY <1>1, <1>2, PTL DEF Spec

(* A present entry maps a page that is held, at its own address; and a     *)
(* page that is held is mapped, unless its block crosses the end of the    *)
(* large page or has its table at address 0.                               *)
THEOREM AlwaysMappingIsExact == Spec => []MappingIsExact
<1>1. MapInv => MappingIsExact
  <2> SUFFICES ASSUME MapInv PROVE MappingIsExact
    OBVIOUS
  <2>1. \A e \in DOMAIN pte : pte[e] - Begin \in HeldPages /\ IndexOf(pte[e]) = e[2]
    BY DEF MapInv, TablesInv, EntriesAreOwned, Owns, HeldPages
  <2> QED
    BY <2>1 DEF MappingIsExact, MapInv, TablesInv, AllMapped, Mapped
<1> QED
  BY <1>1, AlwaysMapInv, PTL

=============================================================================
