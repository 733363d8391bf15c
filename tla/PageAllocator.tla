--------------------------- MODULE PageAllocator ---------------------------
(***************************************************************************)
(* kmmanager::alloc_pages and free_pages (core/mmanager.cpp) over the page *)
(* bitmap (core/bitmap_allocator.cpp) and the kernel's page directory.     *)
(*                                                                         *)
(* Page i of the bitmap is the frame Begin + i.  The kernel reaches a      *)
(* frame through the identity mapping: the frames of directory entry 0 are *)
(* covered by one large page from boot on; any other frame needs a page    *)
(* table, which is itself a page of the bitmap.  alloc() looks for a run   *)
(* of clear bits from the hint byte on; each bit it looks at, or full byte *)
(* it skips, is one step.  Nothing preempts a call; between calls pc is    *)
(* "idle".                                                                 *)
(***************************************************************************)
EXTENDS Integers, FiniteSets

CONSTANTS
    PagesCount,    \* m_pagesCount: the frames of the whole memory map entry
    Begin,         \* m_begin: first frame after the kernel image and the bitmap
    BitsPerByte,   \* 8
    PagesPerTable, \* 1024 entries of a page table, also the frames of a large page
    WordLimit,     \* 2^32, where size_t wraps
    Requests       \* the page counts callers ask for

(* The region starts at or above 1 MB and its kernel image, bitmap and     *)
(* page directory fit in the first large page.                             *)
ASSUME PagesAssumption ==
    /\ PagesCount \in Nat /\ Begin \in Nat
    /\ BitsPerByte \in Nat \ {0} /\ PagesPerTable \in Nat \ {0}
    /\ 0 < Begin /\ Begin < PagesPerTable
    /\ 1 < PagesCount
    /\ WordLimit \in Nat /\ 2 * (PagesCount + BitsPerByte) < WordLimit
    /\ Requests \subseteq 1 .. PagesCount + BitsPerByte

VARIABLES
    used,      \* the set bits of m_bitmapData
    hint,      \* m_firstFreeBitmapByte
    usedPages, \* m_usedPages
    live,      \* what callers of alloc_pages hold: first page -> length
    tables,    \* directory entry -> frame of its page table, where present
    pte,       \* <<table frame, index>> -> frame mapped there, where present
    pc,        \* "idle", the part of a call being run, or how the kernel stopped
    pos,       \* scan: the next bit to look at
    start,     \* scan: startPage (meaningful while found > 0)
    found,     \* scan: length of the run that ends at pos
    opened,    \* scan: hasFoundFirstFreeByte
    wanted,    \* scan: pageCount
    block,     \* first page of the block alloc_pages is mapping
    len        \* its length, 0 if there is none

bitmapVars == <<used, hint, usedPages>>
mapVars == <<tables, pte>>
scanVars == <<pos, start, found, opened, wanted>>
vars == <<used, hint, usedPages, live, tables, pte, pc, pos, start, found, opened, wanted,
          block, len>>

ByteCount == (PagesCount + BitsPerByte - 1) \div BitsPerByte
Bits == BitsPerByte * ByteCount          \* a few bits more than there are pages
Byte(i) == i \div BitsPerByte
Span(a, n) == a .. a + n - 1

Frame(i) == Begin + i
DirOf(frame) == frame \div PagesPerTable
IndexOf(frame) == frame % PagesPerTable
NullFrame == 0

(* The directory entry is present; entry 0 is a large page.                *)
Present(d) == d = 0 \/ d \in DOMAIN tables

Reaches(frame) ==
    LET d == DirOf(frame) IN
    \/ d = 0
    \/ /\ d \in DOMAIN tables
       /\ <<tables[d], IndexOf(frame)>> \in DOMAIN pte
       /\ pte[<<tables[d], IndexOf(frame)>>] = frame

(* kmmanager::init has taken page 0 for the directory and set entry 0.     *)
Init == /\ used = {0}
        /\ hint = 0
        /\ usedPages = 1
        /\ live = [a \in {} |-> 0]
        /\ tables = [d \in {} |-> 0]
        /\ pte = [e \in {} |-> 0]
        /\ pc = "idle"
        /\ pos = 0 /\ start = 0 /\ found = 0 /\ opened = FALSE /\ wanted = 0
        /\ block = 0 /\ len = 0

Stop(how) == pc' = how /\ UNCHANGED <<scanVars, block, len>>

-----------------------------------------------------------------------------
(* bitmap_allocator::alloc(n): the scan.                                   *)

StartScan(n) ==
    /\ pc' = "scan"
    /\ pos' = BitsPerByte * hint
    /\ start' = 0 /\ found' = 0 /\ opened' = FALSE
    /\ wanted' = n

AllocPages(n) ==
    /\ pc = "idle"
    /\ StartScan(n)
    /\ UNCHANGED <<bitmapVars, live, mapVars, block, len>>

AtByte == pos % BitsPerByte = 0
FullByte == Span(pos, BitsPerByte) \subseteq used

ScanEnds == \/ pos = Bits
            \/ found >= wanted /\ (AtByte \/ pos \in used)

SkipFullByte ==
    /\ pc = "scan" /\ ~ ScanEnds /\ AtByte /\ FullByte
    /\ pos' = pos + BitsPerByte
    /\ found' = 0 /\ start' = 0
    /\ UNCHANGED <<bitmapVars, live, mapVars, pc, opened, wanted, block, len>>

(* The first byte with a clear bit becomes the hint.                       *)
LooksAtBit == /\ pc = "scan" /\ ~ ScanEnds /\ ~ (AtByte /\ FullByte)
              /\ hint' = IF AtByte /\ ~ opened THEN Byte(pos) ELSE hint
              /\ opened' = TRUE
              /\ pos' = pos + 1
              /\ UNCHANGED <<used, usedPages, live, mapVars, pc, wanted, block, len>>

MutUsedBitStays ==
    /\ pc = "scan" /\ ~ ScanEnds /\ ~ (AtByte /\ FullByte)
    /\ pos \in used
    /\ found' = 0 /\ start' = 0 /\ opened' = TRUE
    /\ UNCHANGED <<bitmapVars, live, mapVars, pc, pos, wanted, block, len>>

UsedBit == /\ LooksAtBit
           /\ pos \in used
           /\ found' = 0 /\ start' = 0

ClearBit == /\ LooksAtBit
            /\ pos \notin used
            /\ found' = found + 1
            /\ start' = IF found = 0 THEN pos ELSE start

(* `found = min(found, (m_pagesCount - startPage) - 1)`, in unsigned       *)
(* arithmetic: the run must also fit before the last page.                 *)
MutRoom == (PagesCount - start) % WordLimit
Room == (PagesCount - start - 1) % WordLimit

RunFits == found > 0 /\ found >= wanted /\ Room >= wanted

Take == /\ used' = used \cup Span(start, wanted)
        /\ usedPages' = usedPages + wanted
        /\ UNCHANGED hint

ScanForBlock == pc = "scan" /\ ScanEnds /\ len = 0
ScanForTable == pc = "scan" /\ ScanEnds /\ len > 0

TakeBlock ==
    /\ ScanForBlock /\ RunFits
    /\ Take
    /\ block' = start /\ len' = wanted
    /\ pc' = "map"
    /\ UNCHANGED <<live, mapVars, scanVars>>

(* alloc() returns nullptr; paging_map(nullptr) finds the large page, and  *)
(* alloc_pages() returns nullptr.                                          *)
NoBlock ==
    /\ ScanForBlock /\ ~ RunFits
    /\ pc' = "idle"
    /\ UNCHANGED <<bitmapVars, live, mapVars, scanVars, block, len>>

-----------------------------------------------------------------------------
(* paging_map() of the block.  Only the directory entry of the block's     *)
(* first frame is looked at.                                               *)

BlockDir == DirOf(Frame(block))

Hold == /\ live' = [a \in DOMAIN live \cup {block} |->
                      IF a = block THEN len ELSE live[a]]
        /\ pc' = "idle"
        /\ block' = 0 /\ len' = 0

MapLarge ==
    /\ pc = "map" /\ BlockDir = 0
    /\ Hold
    /\ UNCHANGED <<bitmapVars, mapVars, scanVars>>

NeedTable ==
    /\ pc = "map" /\ ~ Present(BlockDir)
    /\ StartScan(1)
    /\ UNCHANGED <<bitmapVars, live, mapVars, block, len>>

MutTakeTable ==
    /\ ScanForTable /\ RunFits
    /\ pc' = "fill"
    /\ UNCHANGED <<bitmapVars, live, mapVars, scanVars, block, len>>

TakeTable ==
    /\ ScanForTable /\ RunFits
    /\ Take
    /\ pc' = "fill"
    /\ UNCHANGED <<live, mapVars, scanVars, block, len>>

SetTable(frame) ==
    /\ tables' = [d \in DOMAIN tables \cup {BlockDir} |->
                    IF d = BlockDir THEN frame ELSE tables[d]]
    /\ pte' = [e \in {x \in DOMAIN pte : x[1] # frame} |-> pte[e]]
    /\ pc' = "map"

(* The new table is cleared through the identity mapping.                  *)
FillTable ==
    /\ pc = "fill" /\ Reaches(Frame(start))
    /\ SetTable(Frame(start))
    /\ UNCHANGED <<bitmapVars, live, scanVars, block, len>>

FillFaults ==
    /\ pc = "fill" /\ ~ Reaches(Frame(start))
    /\ Stop("fault")
    /\ UNCHANGED <<bitmapVars, live, mapVars>>

(* The result of alloc() is not tested: the table is put at address 0.     *)
NoTable ==
    /\ ScanForTable /\ ~ RunFits
    /\ SetTable(NullFrame)
    /\ UNCHANGED <<bitmapVars, live, scanVars, block, len>>

BlockEntries == {<<tables[BlockDir], IndexOf(Frame(block)) + i>> : i \in 0 .. len - 1}

TableTakesBlock == /\ len < PagesPerTable - IndexOf(Frame(block))
                   /\ BlockEntries \cap DOMAIN pte = {}

MutMapInTable ==
    /\ pc = "map" /\ BlockDir \in DOMAIN tables
    /\ len < PagesPerTable - IndexOf(Frame(block))
    /\ pte' = [e \in DOMAIN pte \cup {<<tables[BlockDir], IndexOf(Frame(block))>>} |->
                 IF e[2] = IndexOf(Frame(block)) THEN Frame(block) ELSE pte[e]]
    /\ Hold
    /\ UNCHANGED <<bitmapVars, tables, scanVars>>

MapInTable ==
    /\ pc = "map" /\ BlockDir \in DOMAIN tables
    /\ TableTakesBlock
    /\ pte' = [e \in DOMAIN pte \cup BlockEntries |->
                 IF e \in BlockEntries
                 THEN Frame(block) + (e[2] - IndexOf(Frame(block)))
                 ELSE pte[e]]
    /\ Hold
    /\ UNCHANGED <<bitmapVars, tables, scanVars>>

(* "Can't map %d pages because there's no more space in the page table."   *)
MapRefused ==
    /\ pc = "map" /\ BlockDir \in DOMAIN tables
    /\ ~ TableTakesBlock
    /\ Stop("refused")
    /\ UNCHANGED <<bitmapVars, live, mapVars>>

-----------------------------------------------------------------------------
(* free_pages() of a block a caller holds.                                 *)

(* bitmap_allocator::free() marks the pages and lowers the hint.           *)
MutReleaseOnePage(a) ==
    /\ used' = used \ {a}
    /\ usedPages' = usedPages - 1
    /\ hint' = IF Byte(a) < hint THEN Byte(a) ELSE hint
    /\ live' = [b \in DOMAIN live \ {a} |-> live[b]]

MutReleaseKeepsHint(a) ==
    /\ used' = used \ Span(a, live[a])
    /\ usedPages' = usedPages - live[a]
    /\ hint' = hint
    /\ live' = [b \in DOMAIN live \ {a} |-> live[b]]

Release(a) ==
    /\ used' = used \ Span(a, live[a])
    /\ usedPages' = usedPages - live[a]
    /\ hint' = IF Byte(a) < hint THEN Byte(a) ELSE hint
    /\ live' = [b \in DOMAIN live \ {a} |-> live[b]]

(* Behind a page table paging_unmap() comes first.  Its loop asserts that  *)
(* the entries are NOT present, and clears them.                           *)
EntriesOf(a) == {<<tables[DirOf(Frame(a))], IndexOf(Frame(a)) + i>> : i \in 0 .. live[a] - 1}
EntryPresent(a) == DirOf(Frame(a)) # 0 /\ EntriesOf(a) \cap DOMAIN pte # {}

FreePages(a) ==
    /\ pc = "idle" /\ a \in DOMAIN live
    /\ ~ EntryPresent(a)
    /\ Release(a)
    /\ UNCHANGED <<mapVars, pc, scanVars, block, len>>

UnmapRefused(a) ==
    /\ pc = "idle" /\ a \in DOMAIN live
    /\ EntryPresent(a)
    /\ Stop("unmap")
    /\ UNCHANGED <<bitmapVars, live, mapVars>>

-----------------------------------------------------------------------------
ScanStep == SkipFullByte \/ UsedBit \/ ClearBit \/ TakeBlock \/ NoBlock \/ TakeTable \/ NoTable

MapStep == MapLarge \/ NeedTable \/ FillTable \/ FillFaults \/ MapInTable \/ MapRefused

Next == \/ \E n \in Requests : AllocPages(n)
        \/ \E a \in DOMAIN live : FreePages(a) \/ UnmapRefused(a)
        \/ ScanStep
        \/ MapStep

(* A call that has begun is run to its end.                                *)
Fairness == WF_vars(ScanStep \/ MapStep)

Spec == Init /\ [][Next]_vars /\ Fairness

-----------------------------------------------------------------------------
(* Properties                                                              *)

InCall == pc \in {"scan", "map", "fill"}

(* The scan stays in the bitmap and the run it has found is clear and ends *)
(* where it stands.  The bits past m_pagesCount in the last byte look like *)
(* free pages and (m_pagesCount - startPage) - 1 wraps when a run starts   *)
(* among them; it never does, because the last page is never handed out.   *)
TypeOK ==
    /\ used \subseteq 0 .. PagesCount - 2
    /\ hint \in 0 .. ByteCount /\ usedPages \in Nat
    /\ DOMAIN live \subseteq 0 .. Bits - 1
    /\ \A a \in DOMAIN live : live[a] \in Nat \ {0}
    /\ pc \in {"idle", "scan", "map", "fill", "fault", "refused", "unmap"}
    /\ pos \in 0 .. Bits /\ found \in 0 .. Bits /\ start \in 0 .. Bits
    /\ opened \in BOOLEAN
    /\ wanted \in Nat /\ block \in 0 .. Bits - 1 /\ len \in Nat
    /\ pc = "scan" => /\ wanted > 0
                      /\ found > 0 => start + found = pos
                      /\ Span(start, found) \cap used = {}

(* The pages that each owner believes to own: the directory, the page      *)
(* tables, the callers of alloc_pages, and the call under way.             *)
TablePages == {tables[d] - Begin : d \in {x \in DOMAIN tables : tables[x] # NullFrame}}
HeldPages == UNION {Span(a, live[a]) : a \in DOMAIN live}
BlockPages == Span(block, len)
FreshTable == IF pc \in {"fill", "fault"} THEN {start} ELSE {}

(* No page has two owners: alloc_pages() never returns a page that is held *)
(* or that serves as directory or page table, and no page is the table of  *)
(* two directory entries.                                                  *)
OneOwner ==
    /\ \A a, b \in DOMAIN live : a # b => Span(a, live[a]) \cap Span(b, live[b]) = {}
    /\ HeldPages \cap (TablePages \cup BlockPages \cup FreshTable \cup {0}) = {}
    /\ BlockPages \cap (TablePages \cup FreshTable \cup {0}) = {}
    /\ \A c, d \in DOMAIN tables : c # d /\ tables[c] = tables[d] => tables[c] = NullFrame
    /\ TablePages \cap FreshTable = {}
    /\ 0 \notin TablePages \cup FreshTable

(* The bitmap knows exactly the owned pages: none is forgotten (and handed *)
(* out again), none stays marked without an owner (and lost); and          *)
(* m_usedPages, kept by increments and decrements, is their number.        *)
BitmapIsExact ==
    /\ used = {0} \cup HeldPages \cup TablePages \cup BlockPages \cup FreshTable
    /\ usedPages = Cardinality(used)

(* alloc() returns nullptr only when no run of free pages, the last page   *)
(* aside, is long enough.                                                  *)
NullOnlyWhenNoRun ==
    (pc = "scan" /\ ScanEnds /\ ~ RunFits) =>
        \A a \in 0 .. PagesCount - 1 - wanted : Span(a, wanted) \cap used # {}

(* Every call comes back or stops the kernel.                              *)
EveryCallEnds == InCall ~> ~ InCall

(* The page tables agree with the bitmap.  A present entry maps a page     *)
(* that a caller of alloc_pages() holds, at its own address: none outlives *)
(* its page.  And a page given out is mapped, unless its block begins in   *)
(* the large page and crosses 4 MB (paging_map() looks only at the first   *)
(* directory entry) or its table could not be allocated: no later call     *)
(* unmaps a page in use or takes its table away.                           *)
MappingIsExact ==
    /\ \A e \in DOMAIN pte : pte[e] - Begin \in HeldPages /\ IndexOf(pte[e]) = e[2]
    /\ pc = "idle" =>
        \A a \in DOMAIN live : \A i \in Span(a, live[a]) :
            \/ Reaches(Frame(i))
            \/ DirOf(Frame(a)) = 0 /\ DirOf(Frame(i)) # 0
            \/ DirOf(Frame(a)) # 0 /\ tables[DirOf(Frame(a))] = NullFrame
=============================================================================
