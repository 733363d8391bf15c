------------------------- MODULE FreeListAllocator -------------------------
(***************************************************************************)
(* fll_allocator (core/free_llist_allocator.cpp): the allocator behind     *)
(* kheap::alloc and kheap::free.                                           *)
(*                                                                         *)
(* The free blocks form a doubly linked list kept in address order inside  *)
(* the blocks themselves.  alloc() walks the list to the first entry that  *)
(* is long enough and splits it; free() walks it to the place of the       *)
(* returned block and merges the block with its neighbours.  Each turn of  *)
(* those loops is one step here, so that a list which does not lead where  *)
(* it should shows.  The allocator is not reentrant and no interrupt       *)
(* handler calls it: between calls pc is "idle".                           *)
(*                                                                         *)
(* An address is a number.  prev, next and size are the three fields of    *)
(* the entries on the list and have the same domain, the addresses of      *)
(* those entries; header is the size field of the alloc_header of each     *)
(* live block, and its domain holds the addresses whose checksum word is   *)
(* valid.  A store through a pointer that is not an entry's address hits   *)
(* memory below the heap (address 0 or 4, or a small stray address), which *)
(* is mapped and which no entry lives in: no variable changes.  A LOAD     *)
(* through such a pointer has no outcome worth enumerating; pc becomes     *)
(* "wild" and the model stops there.                                       *)
(***************************************************************************)
EXTENDS Naturals, FiniteSets

CONSTANTS
    Base,        \* address of the heap, the start of what alloc_pages returned
    HeapSize,    \* its length
    HeaderSize,  \* sizeof(alloc_header)
    EntrySize,   \* sizeof(llist_free_entry)
    Requests     \* the sizes callers ask for

(* kernel_assert(heapSize >= sizeof(llist_free_entry)) in init(); the heap *)
(* lies above 1 MB, so a block length is never a heap address.             *)
ASSUME AllocatorAssumption ==
    /\ HeaderSize \in Nat /\ EntrySize \in Nat /\ HeapSize \in Nat /\ Base \in Nat
    /\ 0 < HeaderSize /\ HeaderSize < EntrySize
    /\ EntrySize <= HeapSize
    /\ HeapSize < Base
    /\ Requests \subseteq Nat

VARIABLES
    first,    \* m_first
    prev,     \* llist_free_entry::prev of each listed entry
    next,     \* llist_free_entry::next
    size,     \* llist_free_entry::size
    header,   \* alloc_header::size of each live block
    pc,       \* the loop being run, or how the kernel stopped
    cur,      \* `suitable` in alloc(), `entry` in free() and get_unused()
    addr,     \* the block being returned by free(), Null otherwise
    amount,   \* its length, or the (adjusted) length alloc() looks for
    total     \* `counter` in get_unused()

listVars == <<first, prev, next, size>>
callVars == <<pc, cur, addr, amount>>
vars == <<first, prev, next, size, header, pc, cur, addr, amount, total>>

Null == 0
HeapEnd == Base + HeapSize
Heap == Base .. HeapEnd - 1
Free == DOMAIN size
Live == DOMAIN header
NoFunction == [x \in {} |-> 0]

End(e) == e + size[e]

Init == /\ first = Base
        /\ prev = [e \in {Base} |-> Null]
        /\ next = [e \in {Base} |-> Null]
        /\ size = [e \in {Base} |-> HeapSize]
        /\ header = NoFunction
        /\ pc = "idle"
        /\ cur = Null
        /\ addr = Null
        /\ amount = 0
        /\ total = 0

(* What is left when a call returns to its caller. *)
Return == /\ pc' = "idle"
          /\ cur' = Null
          /\ addr' = Null
          /\ amount' = 0

(* The kernel stops with a message, or a stray pointer was followed. *)
Stop(how) == /\ pc' = how
             /\ UNCHANGED <<cur, addr, amount>>

-----------------------------------------------------------------------------
(* The list helpers.  Each assigns the four list variables.                *)

LlistRemove(e) ==
    /\ first' = IF first = e THEN next[e] ELSE first
    /\ prev' = [f \in Free \ {e} |-> IF f = next[e] THEN prev[e] ELSE prev[f]]
    /\ next' = [f \in Free \ {e} |-> IF f = prev[e] THEN next[e] ELSE next[f]]
    /\ size' = [f \in Free \ {e} |-> size[f]]

(* Entry e now starts at place and is n long: the copy of the entry to its *)
(* new place in llist_shrink() and llist_grow_up().                        *)
Move(e, place, n) ==
    LET Moved == (Free \ {e}) \cup {place} IN
    /\ first' = IF first = e THEN place ELSE first
    /\ prev' = [f \in Moved |-> IF f = place THEN prev[e]
                                ELSE IF f = next[e] THEN place ELSE prev[f]]
    /\ next' = [f \in Moved |-> IF f = place THEN next[e]
                                ELSE IF f = prev[e] THEN place ELSE next[f]]
    /\ size' = [f \in Moved |-> IF f = place THEN n ELSE size[f]]

LlistInsertBefore(e, a, n) ==
    LET Listed == Free \cup {a} IN
    /\ first' = IF first = e THEN a ELSE first
    /\ prev' = [f \in Listed |-> IF f = a THEN prev[e]
                                 ELSE IF f = e THEN a ELSE prev[f]]
    /\ next' = [f \in Listed |-> IF f = a THEN e
                                 ELSE IF f = prev[e] /\ first # e THEN a ELSE next[f]]
    /\ size' = [f \in Listed |-> IF f = a THEN n ELSE size[f]]

LlistInsertAfter(e, a, n) ==
    LET Listed == Free \cup {a} IN
    /\ first' = first
    /\ prev' = [f \in Listed |-> IF f = a THEN e
                                 ELSE IF f = next[e] THEN a ELSE prev[f]]
    /\ next' = [f \in Listed |-> IF f = a THEN next[e]
                                 ELSE IF f = e THEN a ELSE next[f]]
    /\ size' = [f \in Listed |-> IF f = a THEN n ELSE size[f]]

-----------------------------------------------------------------------------
(* alloc()                                                                 *)

Adjusted(n) == IF n + HeaderSize < EntrySize THEN EntrySize ELSE n + HeaderSize

AllocBegin(n) ==
    /\ pc = "idle"
    /\ n # 0                        \* alloc(0) returns nullptr at once
    /\ pc' = "search"
    /\ cur' = first
    /\ amount' = Adjusted(n)
    /\ UNCHANGED <<listVars, header, addr, total>>

SearchNext ==
    /\ pc = "search" /\ cur \in Free
    /\ size[cur] < amount
    /\ cur' = next[cur]
    /\ UNCHANGED <<listVars, header, pc, addr, amount, total>>

(* `while (suitable->size < size)` reads suitable->size before any test of *)
(* suitable: at the end of the list it compares the word at address 8.  If *)
(* that word is large enough the loop ends and the kernel_assert reports   *)
(* the exhausted heap; otherwise the loop goes on through address 4.       *)
SearchEnd ==
    /\ pc = "search" /\ cur = Null
    /\ \E how \in {"oom", "wild"} : Stop(how)
    /\ UNCHANGED <<listVars, header, total>>

SearchStray ==
    /\ pc = "search" /\ cur # Null /\ cur \notin Free
    /\ Stop("wild")
    /\ UNCHANGED <<listVars, header, total>>

(* llist_shrink(): the rest of the entry is kept only if an entry fits in  *)
(* it.                                                                     *)
MutSplits == size[cur] >= amount
Splits == size[cur] - amount >= EntrySize

MutNewHeaderTooLong(n) ==
    header' = [b \in Live \cup {cur} |-> IF b = cur THEN size[cur] ELSE header[b]]

NewHeader(n) ==
    header' = [b \in Live \cup {cur} |-> IF b = cur THEN n ELSE header[b]]

MutTakeWholeLosesRest ==
    /\ pc = "search" /\ cur \in Free
    /\ size[cur] >= amount /\ ~ Splits
    /\ LlistRemove(cur)
    /\ NewHeader(amount)
    /\ Return
    /\ UNCHANGED total

TakeWhole ==
    /\ pc = "search" /\ cur \in Free
    /\ size[cur] >= amount /\ ~ Splits
    /\ LlistRemove(cur)
    /\ NewHeader(size[cur])
    /\ Return
    /\ UNCHANGED total

Split ==
    /\ pc = "search" /\ cur \in Free
    /\ size[cur] >= amount /\ Splits
    /\ Move(cur, cur + amount, size[cur] - amount)
    /\ NewHeader(amount)
    /\ Return
    /\ UNCHANGED total

-----------------------------------------------------------------------------
(* free()                                                                  *)

(* Every path first clears the checksum, so the block is no longer live.   *)
MutUnseal(a) == header' = header
Unseal(a) == header' = [b \in Live \ {a} |-> header[b]]

(* With an empty list the block becomes the only entry.  Only its size is  *)
(* set: the prev field overlays the checksum (just cleared) and the next   *)
(* field overlays header->size, which still holds the length.              *)
FreeIntoEmpty(a) ==
    /\ pc = "idle" /\ a \in Live
    /\ first = Null
    /\ Unseal(a)
    /\ first' = a
    /\ prev' = [e \in {a} |-> Null]
    /\ next' = [e \in {a} |-> header[a]]
    /\ size' = [e \in {a} |-> header[a]]
    /\ UNCHANGED <<callVars, total>>

FreeBegin(a) ==
    /\ pc = "idle" /\ a \in Live
    /\ first # Null
    /\ Unseal(a)
    /\ pc' = "walk"
    /\ cur' = first
    /\ addr' = a
    /\ amount' = header[a]
    /\ UNCHANGED <<listVars, total>>

(* A second free() of a block that is an entry by now finds the entry's    *)
(* prev pointer where the checksum was.                                    *)
FreeRejected(a) ==
    /\ pc = "idle" /\ a \in Free
    /\ Stop("rejected")
    /\ UNCHANGED <<listVars, header, total>>

(* topDistance and bottomDistance of the loop, as comparisons.             *)
Above(e) == addr + amount <= e
Below(e) == End(e) <= addr
TouchesTop(e) == addr + amount = e

TouchesBottom(e) == End(e) = addr

(* What the two kernel_asserts of the loop exclude.  A step whose assert   *)
(* fails is not enabled (the kernel stops there): WalkAssertsHold below    *)
(* says that it never comes to that.                                       *)
Overlaps(e) == \/ addr <= e /\ e < addr + amount
               \/ addr < End(e) /\ End(e) <= addr + amount

AtEntry == pc = "walk" /\ cur \in Free /\ ~ Overlaps(cur)

Inserts == /\ ~ TouchesBottom(cur) /\ ~ TouchesTop(cur)
           /\ Above(cur) \/ (Below(cur) /\ next[cur] = Null)

(* The next entry starts where the grown entry ends.                       *)
MutClosesGap == FALSE
ClosesGap == next[cur] # Null /\ next[cur] = addr + amount

MergeBelow ==
    /\ AtEntry /\ TouchesBottom(cur)
    /\ ~ ClosesGap
    /\ size' = [size EXCEPT ![cur] = @ + amount]
    /\ Return
    /\ UNCHANGED <<first, prev, next, header, total>>

(* Here the following entry is removed from the list as well; its length   *)
(* has been added to the entry before.                                     *)
MergeBoth ==
    LET n == next[cur] IN
    /\ AtEntry /\ TouchesBottom(cur)
    /\ ClosesGap
    /\ first' = IF first = n THEN next[n] ELSE first
    /\ prev' = [f \in Free \ {n} |-> IF f = next[n] THEN prev[n] ELSE prev[f]]
    /\ next' = [f \in Free \ {n} |-> IF f = prev[n] THEN next[n] ELSE next[f]]
    /\ size' = [f \in Free \ {n} |-> IF f = cur THEN size[cur] + amount + size[n]
                                     ELSE size[f]]
    /\ Return
    /\ UNCHANGED <<header, total>>

GrowUp ==
    /\ AtEntry /\ ~ TouchesBottom(cur) /\ TouchesTop(cur)
    /\ Move(cur, addr, size[cur] + amount)
    /\ Return
    /\ UNCHANGED <<header, total>>

InsertBefore ==
    /\ AtEntry /\ Inserts /\ Above(cur) /\ amount >= EntrySize
    /\ LlistInsertBefore(cur, addr, amount)
    /\ Return
    /\ UNCHANGED <<header, total>>

InsertAfter ==
    /\ AtEntry /\ Inserts /\ ~ Above(cur) /\ amount >= EntrySize
    /\ LlistInsertAfter(cur, addr, amount)
    /\ Return
    /\ UNCHANGED <<header, total>>

MutWalkNextStays ==
    /\ AtEntry
    /\ ~ TouchesBottom(cur) /\ ~ Above(cur)
    /\ ~ (Below(cur) /\ next[cur] = Null)
    /\ cur' = cur
    /\ UNCHANGED <<listVars, header, pc, addr, amount, total>>

WalkNext ==
    /\ AtEntry
    /\ ~ TouchesBottom(cur) /\ ~ Above(cur)
    /\ ~ (Below(cur) /\ next[cur] = Null)
    /\ cur' = next[cur]
    /\ UNCHANGED <<listVars, header, pc, addr, amount, total>>

WalkStray ==
    /\ pc = "walk" /\ cur # Null /\ cur \notin Free
    /\ Stop("wild")
    /\ UNCHANGED <<listVars, header, total>>

-----------------------------------------------------------------------------
(* get_unused(), and dump(), which walks the list in the same way.         *)

CountBegin ==
    /\ pc = "idle"
    /\ pc' = "count"
    /\ cur' = first
    /\ total' = 0
    /\ UNCHANGED <<listVars, header, addr, amount>>

MutCountEntryDropsLast ==
    /\ pc = "count" /\ cur \in Free
    /\ total' = IF next[cur] = Null THEN total ELSE total + size[cur]
    /\ cur' = next[cur]
    /\ pc' = IF next[cur] = Null THEN "idle" ELSE "count"
    /\ UNCHANGED <<listVars, header, addr, amount>>

CountEntry ==
    /\ pc = "count" /\ cur \in Free
    /\ total' = total + size[cur]
    /\ cur' = next[cur]
    /\ pc' = IF next[cur] = Null THEN "idle" ELSE "count"
    /\ UNCHANGED <<listVars, header, addr, amount>>

(* The do loop reads the first entry before it tests for one, and a stray  *)
(* pointer like any other.                                                 *)
CountStray ==
    /\ pc = "count" /\ cur \notin Free
    /\ Stop("wild")
    /\ UNCHANGED <<listVars, header, total>>

-----------------------------------------------------------------------------
AllocStep == SearchNext \/ SearchEnd \/ SearchStray \/ TakeWhole \/ Split

FreeStep == \/ MergeBelow \/ MergeBoth \/ GrowUp
            \/ InsertBefore \/ InsertAfter \/ WalkNext \/ WalkStray

CountStep == CountEntry \/ CountStray

Next == \/ \E n \in Requests : AllocBegin(n)
        \/ \E a \in Live : FreeIntoEmpty(a) \/ FreeBegin(a)
        \/ \E a \in Free : FreeRejected(a)
        \/ CountBegin
        \/ AllocStep
        \/ FreeStep
        \/ CountStep

(* A call that has begun is run to its end: nothing preempts the kernel.   *)
Fairness == WF_vars(AllocStep \/ FreeStep \/ CountStep)

Spec == Init /\ [][Next]_vars /\ Fairness

-----------------------------------------------------------------------------
(* Properties                                                              *)

(* The block free() holds between clearing its checksum and listing it.    *)
Returning == addr # Null

(* A block of n bytes at a is long enough to be an entry and ends within   *)
(* the heap.                                                               *)
Fits(a, n) == EntrySize <= n /\ a + n <= HeapEnd

(* Every block, listed, live or being returned, can become an entry when   *)
(* it is freed and lies inside the heap; the locals of a call are set in   *)
(* the calls that use them.                                                *)
TypeOK ==
    /\ first \in Nat
    /\ Free \subseteq Heap
    /\ prev \in [Free -> Nat] /\ next \in [Free -> Nat] /\ size \in [Free -> Nat]
    /\ \A e \in Free : Fits(e, size[e])
    /\ Live \subseteq Heap
    /\ header \in [Live -> Nat]
    /\ \A b \in Live : Fits(b, header[b])
    /\ pc \in {"idle", "search", "walk", "count", "oom", "rejected", "wild"}
    /\ cur \in Nat /\ amount \in Nat /\ total \in Nat
    /\ addr \in Heap \cup {Null}
    /\ Returning => pc \in {"walk", "wild"} /\ Fits(addr, amount)
    /\ pc \in {"search", "oom"} => amount >= EntrySize
    /\ pc \in {"idle", "count", "rejected"} => amount = 0

Covers(a, n, x) == a <= x /\ x < a + n

InFree(x) == \E e \in Free : Covers(e, size[e], x)
InLive(x) == \E b \in Live : Covers(b, header[b], x)
InReturning(x) == Returning /\ Covers(addr, amount, x)

(* No two blocks share a byte, whether a caller holds them, the list holds *)
(* them, or free() is returning one: alloc() never hands out memory twice. *)
Apart(a, m, b, n) == a + m <= b \/ b + n <= a

NoOverlap ==
    /\ \A e, f \in Free : e # f => Apart(e, size[e], f, size[f])
    /\ \A b, c \in Live : b # c => Apart(b, header[b], c, header[c])
    /\ \A e \in Free, b \in Live : Apart(e, size[e], b, header[b])
    /\ Returning =>
         /\ \A e \in Free : Apart(e, size[e], addr, amount)
         /\ \A b \in Live : Apart(b, header[b], addr, amount)

(* Splitting, merging and moving entries never loses a byte: every byte of *)
(* the heap is in a live block, in a listed entry or in the block being    *)
(* returned.                                                               *)
NoLeak == \A x \in Heap : InFree(x) \/ InLive(x) \/ InReturning(x)

(* free() merges a block with both neighbours: two entries never touch, so *)
(* free memory is never split into entries that are each too short.        *)
Coalesced == \A e, f \in Free : e < f => End(e) < f

(* prev and next order the entries by address, both ways; the last entry   *)
(* points below the heap (to Null, or to the stray value left by           *)
(* FreeIntoEmpty).                                                         *)
PrevOk(f) == \/ prev[f] = Null /\ \A g \in Free : f <= g
             \/ /\ prev[f] \in Free /\ prev[f] < f
                /\ \A g \in Free : g < f => g <= prev[f]

NextOk(f) == \/ next[f] < Base /\ \A g \in Free : g <= f
             \/ /\ next[f] \in Free /\ f < next[f]
                /\ \A g \in Free : f < g => next[f] <= g

FirstOk == \/ Free = {} /\ first < Base
           \/ first \in Free /\ \A g \in Free : first <= g

ListOrdered == FirstOk /\ \A f \in Free : PrevOk(f) /\ NextOk(f)

(* Freeing a block that alloc() returned never trips one of the asserts of *)
(* the walk: not the overlap asserts, not the length asserts of the insert *)
(* helpers, not "impossible branch reached".                               *)
WalkAssertsHold ==
    pc = "walk" => /\ cur # Null
                   /\ cur \in Free => /\ ~ Overlaps(cur)
                                      /\ Inserts => amount >= EntrySize

(* The free() walk has left behind only entries that end before the block, *)
(* with a gap, so the block is listed at its place.                        *)
WalkPosition ==
    pc = "walk" =>
        /\ Returning
        /\ cur \in Free \/ (cur # Null /\ cur < Base)
        /\ \A f \in Free : (cur \in Free => f < cur) => End(f) < addr

(* The alloc() walk has left behind only entries that are too short: the   *)
(* heap is reported exhausted only when no entry fits.                     *)
SearchPosition ==
    pc \in {"search", "oom"} =>
        /\ cur \in Free \/ cur < Base
        /\ \A f \in Free : (cur \in Free => f < cur) => size[f] < amount

(* Every call returns, or stops the kernel with a message, or is lost to a *)
(* stray pointer: the loops over the list end.                             *)
EveryCallEnds ==
    pc \in {"search", "walk", "count"} ~> pc \notin {"search", "walk", "count"}

(* "Reclaim memory allocated by `alloc()`" (heap.h:14): free() of a live   *)
(* block follows only pointers to entries.                                 *)
FreeNeverStrays == pc = "wild" => ~ Returning

(* The allocator does what HeapSpec promises.  A stop other than the       *)
(* report of an exhausted heap changes nothing that HeapSpec sees.         *)
Promise == INSTANCE HeapSpec WITH
    live <- header,
    want <- IF Returning THEN 0 ELSE amount,
    exhausted <- (pc = "oom")

KeepsPromise == Promise!HeapSpecification
=============================================================================
