---------------------- MODULE FreeListAllocatorProofs ----------------------
(***************************************************************************)
(* The safety of the free-list allocator for every heap size, every header *)
(* and entry size the assumption allows and every sequence of requests.    *)
(*                                                                         *)
(* NoOverlap is not inductive: that free() lists a block at its place      *)
(* depends on the order of the list, on the gaps between its entries, and  *)
(* on what the walk has passed.  Inv collects these.                       *)
(***************************************************************************)
EXTENDS FreeListAllocator, TLAPS

Inv == /\ TypeOK
       /\ NoOverlap
       /\ NoLeak
       /\ Coalesced
       /\ ListOrdered
       /\ SearchPosition
       /\ WalkPosition

USE AllocatorAssumption

(* The heap of init() is one entry, covering everything.                   *)
LEMMA InitInv == Init => Inv
<1> SUFFICES ASSUME Init PROVE Inv
  OBVIOUS
<1>1. Free = {Base} /\ Live = {} /\ size[Base] = HeapSize
      /\ prev[Base] = Null /\ next[Base] = Null
  BY DEF Init, Free, Live, NoFunction
<1>2. TypeOK
  BY <1>1 DEF Init, TypeOK, Heap, HeapEnd, Fits, Returning, Null, NoFunction, Free, Live
<1>3. NoOverlap /\ Coalesced
  BY <1>1 DEF Init, NoOverlap, Coalesced, Returning
<1>4. NoLeak
  BY <1>1 DEF NoLeak, InFree, Covers, Heap, HeapEnd
<1>5. ListOrdered
  BY <1>1 DEF Init, ListOrdered, FirstOk, PrevOk, NextOk, Null
<1>6. SearchPosition /\ WalkPosition
  BY DEF Init, SearchPosition, WalkPosition
<1> QED
  BY <1>2, <1>3, <1>4, <1>5, <1>6 DEF Inv

-----------------------------------------------------------------------------
(* The steps that leave the blocks where they are.                         *)

Unmoved == UNCHANGED <<first, prev, next, size, header, addr>>

LEMMA UnmovedBlocks ==
    ASSUME Inv, Unmoved, Returning => amount' = amount
    PROVE  NoOverlap' /\ NoLeak' /\ Coalesced' /\ ListOrdered'
<1>1. Free' = Free /\ Live' = Live /\ Returning' = Returning
  BY DEF Unmoved, Free, Live, Returning
<1>2. NoOverlap'
  BY <1>1 DEF Inv, Unmoved, NoOverlap, Apart, Returning
<1>3. NoLeak'
  BY <1>1 DEF Inv, Unmoved, NoLeak, InFree, InLive, InReturning, Covers, Returning
<1>4. Coalesced' /\ ListOrdered'
  BY <1>1 DEF Inv, Unmoved, Coalesced, End, ListOrdered, FirstOk, PrevOk, NextOk
<1> QED
  BY <1>2, <1>3, <1>4

LEMMA AllocBeginInv == ASSUME Inv, NEW n \in Requests, AllocBegin(n) PROVE Inv'
<1>1. n \in Nat /\ Adjusted(n) \in Nat /\ EntrySize <= Adjusted(n) /\ ~ Returning
  BY DEF Adjusted, Inv, TypeOK, AllocBegin
<1>2. Unmoved /\ Free' = Free /\ Live' = Live /\ pc' = "search" /\ cur' = first
      /\ amount' = Adjusted(n)
  BY DEF AllocBegin, listVars, Unmoved, Free, Live
<1>3. TypeOK'
  BY <1>1, <1>2 DEF AllocBegin, listVars, Inv, TypeOK, Fits, Returning, Unmoved
<1>4. NoOverlap' /\ NoLeak' /\ Coalesced' /\ ListOrdered'
  BY <1>1, <1>2, UnmovedBlocks
<1>5. SearchPosition' /\ WalkPosition'
  BY <1>1, <1>2 DEF SearchPosition, WalkPosition, Inv, TypeOK, ListOrdered, FirstOk, Heap
<1> QED
  BY <1>3, <1>4, <1>5 DEF Inv

LEMMA SearchNextInv == ASSUME Inv, SearchNext PROVE Inv'
<1>1. Unmoved /\ Free' = Free /\ Live' = Live /\ pc' = "search" /\ amount' = amount
      /\ cur \in Free /\ cur' = next[cur] /\ size[cur] < amount
  BY DEF SearchNext, listVars, Unmoved, Free, Live
<1>2. TypeOK'
  BY <1>1 DEF SearchNext, listVars, Inv, TypeOK, Fits, Returning, Unmoved
<1>3. NoOverlap' /\ NoLeak' /\ Coalesced' /\ ListOrdered'
  BY <1>1, UnmovedBlocks
<1>4. NextOk(cur)
  BY <1>1 DEF Inv, ListOrdered
<1>5. SearchPosition' /\ WalkPosition'
  BY <1>1, <1>4 DEF SearchNext, SearchPosition, WalkPosition, Inv, TypeOK, NextOk, Heap, Unmoved
<1> QED
  BY <1>2, <1>3, <1>5 DEF Inv

(* The steps that only stop, and the counting of get_unused().             *)
Idles == SearchEnd \/ SearchStray \/ WalkStray \/ CountStray
         \/ CountBegin \/ CountEntry \/ \E a \in Free : FreeRejected(a)

LEMMA IdlesInv == ASSUME Inv, Idles PROVE Inv'
<1>1. Unmoved /\ Free' = Free /\ Live' = Live /\ amount' = amount
  BY DEF Idles, SearchEnd, SearchStray, WalkStray, CountStray, CountBegin, CountEntry,
         FreeRejected, Stop, listVars, Unmoved, Free, Live
<1>2. NoOverlap' /\ NoLeak' /\ Coalesced' /\ ListOrdered'
  BY <1>1, UnmovedBlocks
<1>3. TypeOK'
  <2>1. CASE SearchEnd \/ SearchStray \/ WalkStray \/ CountStray
             \/ \E a \in Free : FreeRejected(a)
    <3>1. cur' = cur /\ total' = total
          /\ \/ pc' = "wild"
             \/ pc' = "oom" /\ pc = "search"
             \/ pc' = "rejected" /\ pc = "idle"
      BY <2>1 DEF SearchEnd, SearchStray, WalkStray, CountStray, FreeRejected, Stop
    <3> QED
      BY <1>1, <3>1 DEF Unmoved, Inv, TypeOK, Fits, Returning
  <2>2. CASE CountBegin
    BY <1>1, <2>2 DEF CountBegin, Unmoved, Inv, TypeOK, Fits, Returning
  <2>3. CASE CountEntry
    BY <1>1, <2>3 DEF CountEntry, Unmoved, Inv, TypeOK, Fits, Returning
  <2> QED
    BY <2>1, <2>2, <2>3 DEF Idles
<1>4. SearchPosition'
  <2>1. CASE SearchEnd
    BY <1>1, <2>1 DEF SearchEnd, Stop, SearchPosition, Inv, TypeOK, Unmoved, Heap, Null
  <2>2. CASE ~ SearchEnd
    <3>1. pc' \notin {"search", "oom"}
      BY <2>2 DEF Idles, SearchStray, WalkStray, CountStray, CountBegin, CountEntry,
                  FreeRejected, Stop
    <3> QED
      BY <3>1 DEF SearchPosition
  <2> QED
    BY <2>1, <2>2
<1>5. WalkPosition'
  <2>1. pc' # "walk"
    BY DEF Idles, SearchEnd, SearchStray, WalkStray, CountStray, CountBegin, CountEntry,
           FreeRejected, Stop
  <2> QED
    BY <2>1 DEF WalkPosition
<1> QED
  BY <1>2, <1>3, <1>4, <1>5 DEF Inv

LEMMA WalkNextInv == ASSUME Inv, WalkNext PROVE Inv'
<1>1. Unmoved /\ Free' = Free /\ Live' = Live /\ pc' = "walk" /\ amount' = amount
      /\ cur \in Free /\ cur' = next[cur] /\ total' = total
  BY DEF WalkNext, AtEntry, listVars, Unmoved, Free, Live
<1>2. TypeOK'
  BY <1>1 DEF WalkNext, Inv, TypeOK, Fits, Returning, Unmoved, AtEntry
<1>3. NoOverlap' /\ NoLeak' /\ Coalesced' /\ ListOrdered'
  BY <1>1, UnmovedBlocks
<1>4. NextOk(cur) /\ Returning
  BY <1>1 DEF Inv, ListOrdered, WalkNext, AtEntry, WalkPosition
<1>5. End(cur) < addr
  BY <1>1, <1>4 DEF WalkNext, AtEntry, TouchesBottom, Above, Below, Inv, TypeOK, NoOverlap,
         Apart, End, Heap
<1>6. \A f \in Free : f <= cur => End(f) < addr
  BY <1>1, <1>5 DEF Inv, WalkPosition, WalkNext, AtEntry, TypeOK, Heap
<1>7. cur' # Null
  BY <1>1, <1>5 DEF WalkNext, Below, Inv, TypeOK, End, Heap
<1>8. WalkPosition'
  BY <1>1, <1>4, <1>6, <1>7 DEF WalkPosition, Inv, TypeOK, NextOk, Heap, Unmoved, End, Returning
<1>9. SearchPosition'
  BY <1>1 DEF SearchPosition
<1> QED
  BY <1>2, <1>3, <1>8, <1>9 DEF Inv

LEMMA FreeBeginInv == ASSUME Inv, NEW a \in Live, FreeBegin(a) PROVE Inv'
<1>1. /\ Free' = Free /\ Live' = Live \ {a} /\ UNCHANGED <<first, prev, next, size, total>>
      /\ \A b \in Live' : header'[b] = header[b]
      /\ header' \in [Live' -> Nat]
      /\ pc' = "walk" /\ cur' = first /\ addr' = a /\ amount' = header[a] /\ ~ Returning
      /\ first # Null
  BY DEF FreeBegin, Unseal, listVars, Free, Live, Inv, TypeOK, Returning
<1>2. a \in Heap /\ a # Null /\ Returning'
  BY <1>1 DEF Inv, TypeOK, Heap, Null, Returning
<1>3. TypeOK'
  BY <1>1, <1>2 DEF Inv, TypeOK, Fits
<1>4. NoOverlap'
  BY <1>1, <1>2 DEF Inv, NoOverlap, Apart, TypeOK
<1>5. NoLeak'
  BY <1>1, <1>2 DEF Inv, NoLeak, InFree, InLive, InReturning, Covers
<1>6. Coalesced' /\ ListOrdered'
  BY <1>1 DEF Inv, Coalesced, End, ListOrdered, FirstOk, PrevOk, NextOk
<1>7. SearchPosition' /\ WalkPosition'
  BY <1>1, <1>2 DEF SearchPosition, WalkPosition, Inv, TypeOK, ListOrdered, FirstOk, Heap
<1> QED
  BY <1>3, <1>4, <1>5, <1>6, <1>7 DEF Inv

LEMMA FreeIntoEmptyInv == ASSUME Inv, NEW a \in Live, FreeIntoEmpty(a) PROVE Inv'
<1>1. /\ Free' = {a} /\ Live' = Live \ {a} /\ UNCHANGED <<pc, cur, addr, amount, total>>
      /\ \A b \in Live' : header'[b] = header[b]
      /\ header' \in [Live' -> Nat]
      /\ first' = a /\ prev'[a] = Null /\ next'[a] = header[a] /\ size'[a] = header[a]
      /\ prev' \in [{a} -> Nat] /\ next' \in [{a} -> Nat] /\ size' \in [{a} -> Nat]
      /\ pc = "idle" /\ ~ Returning
  BY DEF FreeIntoEmpty, Unseal, callVars, Free, Live, Inv, TypeOK, Returning, Null
<1>2. Free = {}
  BY DEF FreeIntoEmpty, Inv, ListOrdered, FirstOk, TypeOK, Heap, Null
<1>3. TypeOK'
  BY <1>1 DEF Inv, TypeOK, Fits, Returning, Heap
<1>4. NoOverlap'
  BY <1>1 DEF Inv, NoOverlap, Apart, TypeOK, Returning
<1>5. NoLeak'
  BY <1>1, <1>2 DEF Inv, NoLeak, InFree, InLive, InReturning, Covers, Returning
<1>6. Coalesced'
  BY <1>1 DEF Coalesced, Inv, TypeOK, Heap
<1>7. header[a] < Base
  BY DEF Inv, TypeOK, Fits, Heap, HeapEnd
<1>8. ListOrdered'
  BY <1>1, <1>7 DEF Inv, TypeOK, Heap, ListOrdered, FirstOk, PrevOk, NextOk, Null
<1>9. SearchPosition' /\ WalkPosition'
  BY <1>1 DEF SearchPosition, WalkPosition
<1> QED
  BY <1>3, <1>4, <1>5, <1>6, <1>8, <1>9 DEF Inv

-----------------------------------------------------------------------------
(* alloc() takes an entry or splits one.                                   *)

LEMMA TakeWholeInv == ASSUME Inv, TakeWhole PROVE Inv'
<1>1. /\ cur \in Free /\ cur \in Heap /\ cur \notin Live /\ ~ Returning
      /\ pc = "search" /\ pc' = "idle" /\ cur' = Null /\ addr' = Null /\ amount' = 0
      /\ total' = total /\ ~ Returning'
  BY DEF TakeWhole, Return, Inv, TypeOK, NoOverlap, Apart, Fits, Heap, Returning
<1>2. /\ Free' = Free \ {cur}
      /\ \A f \in Free' : /\ size'[f] = size[f]
                          /\ prev'[f] = IF f = next[cur] THEN prev[cur] ELSE prev[f]
                          /\ next'[f] = IF f = prev[cur] THEN next[cur] ELSE next[f]
      /\ first' = IF first = cur THEN next[cur] ELSE first
      /\ prev' \in [Free' -> Nat] /\ next' \in [Free' -> Nat] /\ size' \in [Free' -> Nat]
  BY <1>1 DEF TakeWhole, LlistRemove, Free, Inv, TypeOK
<1>3. /\ Live' = Live \cup {cur}
      /\ \A b \in Live : header'[b] = header[b]
      /\ header'[cur] = size[cur]
      /\ header' \in [Live' -> Nat]
  BY <1>1 DEF TakeWhole, NewHeader, Live, Free, Inv, TypeOK
<1>4. TypeOK'
  BY <1>1, <1>2, <1>3 DEF Inv, TypeOK, Fits, Null
<1>5. NoOverlap'
  BY <1>1, <1>2, <1>3 DEF Inv, NoOverlap, Apart, TypeOK, Heap
<1>6. NoLeak'
  BY <1>1, <1>2, <1>3 DEF Inv, NoLeak, InFree, InLive, InReturning, Covers
<1>7. Coalesced'
  BY <1>2 DEF Inv, Coalesced, End
<1>8. ListOrdered'
  <2>1. PrevOk(cur) /\ NextOk(cur) /\ FirstOk
    BY <1>1 DEF Inv, ListOrdered
  <2>2. FirstOk'
    BY <1>1, <1>2, <2>1 DEF FirstOk, NextOk, Inv, TypeOK, Heap
  <2>3. ASSUME NEW f \in Free' PROVE PrevOk(f)'
    <3>1. PrevOk(f) /\ f \in Free /\ f # cur
      BY <1>2, <2>3 DEF Inv, ListOrdered
    <3> QED
      BY <1>1, <1>2, <2>1, <3>1 DEF PrevOk, NextOk, Inv, TypeOK, Heap, Null
  <2>4. ASSUME NEW f \in Free' PROVE NextOk(f)'
    <3>1. NextOk(f) /\ f \in Free /\ f # cur
      BY <1>2, <2>4 DEF Inv, ListOrdered
    <3> QED
      BY <1>1, <1>2, <2>1, <3>1 DEF PrevOk, NextOk, Inv, TypeOK, Heap, Null
  <2> QED
    BY <2>2, <2>3, <2>4 DEF ListOrdered
<1>9. SearchPosition' /\ WalkPosition'
  BY <1>1 DEF SearchPosition, WalkPosition
<1> QED
  BY <1>4, <1>5, <1>6, <1>7, <1>8, <1>9 DEF Inv

(* Moving an entry, without passing another one, keeps the list in order.  *)
LEMMA MoveList ==
    ASSUME Inv, NEW e \in Free, NEW place \in Heap, NEW n \in Nat, Move(e, place, n),
           \A f \in Free : f < e => f < place,
           \A f \in Free : e < f => place < f
    PROVE  /\ Free' = (Free \ {e}) \cup {place}
           /\ size'[place] = n
           /\ \A f \in Free \ {e} : size'[f] = size[f] /\ f # place
           /\ first' \in Nat
           /\ prev' \in [Free' -> Nat] /\ next' \in [Free' -> Nat] /\ size' \in [Free' -> Nat]
           /\ ListOrdered'
<1>1. \A f \in Free : f \in Nat /\ f \in Heap
  BY DEF Inv, TypeOK, Heap
<1>2. \A f \in Free \ {e} : f # place
  BY <1>1 DEF Heap
<1>3. /\ Free' = (Free \ {e}) \cup {place}
      /\ size'[place] = n /\ prev'[place] = prev[e] /\ next'[place] = next[e]
      /\ \A f \in Free \ {e} :
            /\ size'[f] = size[f]
            /\ prev'[f] = IF f = next[e] THEN place ELSE prev[f]
            /\ next'[f] = IF f = prev[e] THEN place ELSE next[f]
      /\ first' = IF first = e THEN place ELSE first
  BY <1>2 DEF Move, Free
<1>4. first' \in Nat /\ prev' \in [Free' -> Nat] /\ next' \in [Free' -> Nat]
      /\ size' \in [Free' -> Nat]
  BY <1>1, <1>3 DEF Move, Free, Inv, TypeOK, Heap
<1>5. PrevOk(e) /\ NextOk(e) /\ FirstOk
  BY DEF Inv, ListOrdered
<1>6. FirstOk'
  BY <1>1, <1>3, <1>5 DEF FirstOk, Heap
<1>7. PrevOk(place)' /\ NextOk(place)'
  BY <1>1, <1>2, <1>3, <1>5 DEF PrevOk, NextOk, Heap
<1>8. ASSUME NEW f \in Free \ {e} PROVE PrevOk(f)'
  <2>1. PrevOk(f)
    BY DEF Inv, ListOrdered
  <2> QED
    BY <1>1, <1>2, <1>3, <1>5, <2>1 DEF PrevOk, NextOk, Heap
<1>9. ASSUME NEW f \in Free \ {e} PROVE NextOk(f)'
  <2>1. NextOk(f)
    BY DEF Inv, ListOrdered
  <2> QED
    BY <1>1, <1>2, <1>3, <1>5, <2>1 DEF PrevOk, NextOk, Heap, Null
<1> QED
  BY <1>2, <1>3, <1>4, <1>6, <1>7, <1>8, <1>9 DEF ListOrdered

LEMMA SplitInv == ASSUME Inv, Split PROVE Inv'
<1> DEFINE place == cur + amount
           n == size[cur] - amount
<1>1. /\ cur \in Free /\ cur \in Heap /\ cur \notin Live /\ ~ Returning
      /\ pc = "search" /\ pc' = "idle" /\ cur' = Null /\ addr' = Null /\ amount' = 0
      /\ total' = total /\ ~ Returning'
      /\ amount \in Nat /\ amount >= EntrySize /\ size[cur] \in Nat
      /\ n \in Nat /\ n >= EntrySize /\ cur + size[cur] <= HeapEnd
  BY DEF Split, Splits, Return, Inv, TypeOK, NoOverlap, Apart, Fits, Heap, Returning
<1>2. place \in Heap /\ place + n = End(cur)
  BY <1>1 DEF Heap, HeapEnd, End
<1>3. /\ \A f \in Free : f < cur => End(f) < cur
      /\ \A f \in Free : cur < f => End(cur) < f
  BY <1>1 DEF Inv, Coalesced
<1>4. /\ Free' = (Free \ {cur}) \cup {place}
      /\ size'[place] = n
      /\ \A f \in Free \ {cur} : size'[f] = size[f] /\ f # place
      /\ first' \in Nat
      /\ prev' \in [Free' -> Nat] /\ next' \in [Free' -> Nat] /\ size' \in [Free' -> Nat]
      /\ ListOrdered'
  <2>1. \A f \in Free : f < cur => f < place
    BY <1>1 DEF Heap, Inv, TypeOK
  <2>2. \A f \in Free : cur < f => place < f
    BY <1>1, <1>3 DEF Heap, Inv, TypeOK, End
  <2>3. Move(cur, place, n)
    BY DEF Split
  <2> QED
    BY <1>1, <1>2, <2>1, <2>2, <2>3, MoveList
<1>5. /\ Live' = Live \cup {cur}
      /\ \A b \in Live : header'[b] = header[b]
      /\ header'[cur] = amount
      /\ header' \in [Live' -> Nat]
  BY <1>1 DEF Split, NewHeader, Live, Inv, TypeOK
<1> HIDE DEF place, n
<1>6. TypeOK'
  <2>1. \A e \in Free' : Fits(e, size'[e])
    BY <1>1, <1>2, <1>4 DEF Inv, TypeOK, Fits, End, Heap
  <2>2. \A b \in Live' : Fits(b, header'[b])
    BY <1>1, <1>2, <1>5 DEF Inv, TypeOK, Fits, Heap, HeapEnd, n
  <2> QED
    BY <1>1, <1>2, <1>4, <1>5, <2>1, <2>2 DEF Inv, TypeOK, Null
<1>7. NoOverlap'
  <2>1. \A e, f \in Free' : e # f => Apart(e, size'[e], f, size'[f])
    BY <1>1, <1>2, <1>4 DEF Inv, NoOverlap, Apart, TypeOK, Heap, End, place, n
  <2>2. \A b, c \in Live' : b # c => Apart(b, header'[b], c, header'[c])
    BY <1>1, <1>5 DEF Inv, NoOverlap, Apart, TypeOK, Heap, n
  <2>3. \A e \in Free', b \in Live' : Apart(e, size'[e], b, header'[b])
    <3>1. SUFFICES ASSUME NEW e \in Free', NEW b \in Live'
                   PROVE  Apart(e, size'[e], b, header'[b])
      OBVIOUS
    <3>2. CASE e # place /\ b # cur
      BY <1>4, <1>5, <3>1, <3>2 DEF Inv, NoOverlap
    <3>3. CASE e # place /\ b = cur
      BY <1>1, <1>3, <1>4, <1>5, <3>1, <3>3 DEF Apart, Inv, TypeOK, Heap, End, n
    <3>4. CASE e = place /\ b # cur
      <4>1. Apart(cur, size[cur], b, header[b])
        BY <1>1, <1>5, <3>1, <3>4 DEF Inv, NoOverlap
      <4> QED
        BY <1>1, <1>4, <1>5, <3>1, <3>4, <4>1 DEF Apart, Inv, TypeOK, Heap, place, n
    <3>5. CASE e = place /\ b = cur
      BY <1>1, <1>4, <1>5, <3>5 DEF Apart, place, Heap
    <3> QED
      BY <3>2, <3>3, <3>4, <3>5
  <2> QED
    BY <1>1, <2>1, <2>2, <2>3 DEF NoOverlap
<1>8. NoLeak'
  <2>1. SUFFICES ASSUME NEW x \in Heap PROVE (InFree(x) \/ InLive(x))'
    BY DEF NoLeak, Heap, HeapEnd
  <2>2. CASE Covers(cur, size[cur], x)
    BY <1>1, <1>4, <1>5, <2>2 DEF InFree, InLive, Covers, Heap, place, n
  <2>3. CASE ~ Covers(cur, size[cur], x)
    BY <1>1, <1>4, <1>5, <2>3 DEF Inv, NoLeak, InFree, InLive, InReturning, Covers
  <2> QED
    BY <2>2, <2>3
<1>9. Coalesced'
  BY <1>1, <1>2, <1>3, <1>4 DEF Inv, Coalesced, End, TypeOK, Heap, place, n
<1>10. SearchPosition' /\ WalkPosition'
  BY <1>1 DEF SearchPosition, WalkPosition
<1> QED
  BY <1>4, <1>6, <1>7, <1>8, <1>9, <1>10 DEF Inv

-----------------------------------------------------------------------------
(* free() lists the block.                                                 *)

(* Where the walk stands when it reaches an entry: everything it has       *)
(* passed ends before the block, with a gap.                               *)
LEMMA AtEntryFacts ==
    ASSUME Inv, AtEntry
    PROVE  /\ HeapEnd \in Nat /\ cur \in Nat /\ addr \in Nat
           /\ cur \in Free /\ cur \in Heap /\ size[cur] \in Nat /\ size[cur] >= EntrySize
           /\ Returning /\ addr \in Heap /\ amount \in Nat /\ amount >= EntrySize
           /\ addr + amount <= HeapEnd /\ End(cur) <= HeapEnd
           /\ addr \notin Free /\ addr \notin Live
           /\ \A f \in Free : /\ f \in Heap /\ f \in Nat /\ f >= Base
                              /\ size[f] \in Nat /\ size[f] >= EntrySize
                              /\ f < cur => End(f) < addr
           /\ \A f \in Free : f < cur => End(f) < cur
           /\ \A f \in Free : cur < f => End(cur) < f
<1>1. cur \in Free /\ pc = "walk"
  BY DEF AtEntry
<1>2. Returning /\ \A f \in Free : f < cur => End(f) < addr
  BY <1>1 DEF Inv, WalkPosition
<1>3. addr \notin Free /\ addr \notin Live
  BY <1>2 DEF Inv, NoOverlap, Apart, TypeOK, Fits, Heap
<1>4. /\ addr \in Heap /\ amount \in Nat /\ amount >= EntrySize /\ addr + amount <= HeapEnd
      /\ \A f \in Free : f \in Heap /\ size[f] \in Nat /\ size[f] >= EntrySize
                        /\ End(f) <= HeapEnd
  BY <1>2 DEF Inv, TypeOK, Fits, Returning, End
<1>6. HeapEnd \in Nat /\ \A x \in Heap : x \in Nat /\ x >= Base
  BY DEF Heap, HeapEnd
<1>5. /\ \A f \in Free : f < cur => End(f) < cur
      /\ \A f \in Free : cur < f => End(cur) < f
  BY <1>1 DEF Inv, Coalesced
<1> QED
  BY <1>1, <1>2, <1>3, <1>4, <1>5, <1>6

(* The part of a last step of free() that concerns the callers' blocks and *)
(* the locals.                                                             *)
Listed == /\ header' = header /\ Return /\ total' = total

LEMMA ListedFacts ==
    ASSUME Inv, Listed
    PROVE  /\ Live' = Live /\ header' = header /\ ~ Returning'
           /\ pc' = "idle" /\ cur' = Null /\ addr' = Null /\ amount' = 0 /\ total' = total
           /\ SearchPosition' /\ WalkPosition'
BY DEF Listed, Return, Live, Returning, SearchPosition, WalkPosition

LEMMA MergeBelowInv == ASSUME Inv, MergeBelow PROVE Inv'
<1>1. /\ AtEntry /\ Listed /\ UNCHANGED <<first, prev, next>>
      /\ End(cur) = addr
  BY DEF MergeBelow, TouchesBottom, Listed
<1>2. /\ Free' = Free
      /\ size'[cur] = size[cur] + amount
      /\ \A f \in Free : f # cur => size'[f] = size[f]
      /\ size' \in [Free -> Nat]
  BY <1>1, AtEntryFacts DEF MergeBelow, Free, Inv, TypeOK
<1>3. \A f \in Free : cur < f => addr + amount < f
  <2>1. NextOk(cur)
    BY <1>1, AtEntryFacts DEF Inv, ListOrdered
  <2>2. SUFFICES ASSUME NEW f \in Free, cur < f PROVE addr + amount < f
    OBVIOUS
  <2>3. next[cur] \in Free /\ cur < next[cur] /\ next[cur] <= f
    BY <1>1, <2>1, <2>2, AtEntryFacts DEF NextOk, Heap
  <2>4. addr + amount # next[cur]
    BY <1>1, <2>3, AtEntryFacts DEF MergeBelow, ClosesGap, Heap, Null
  <2>5. Apart(next[cur], size[next[cur]], addr, amount) /\ End(cur) < next[cur]
    BY <1>1, <2>3, AtEntryFacts DEF Inv, NoOverlap
  <2> QED
    BY <1>1, <2>2, <2>3, <2>4, <2>5, AtEntryFacts DEF Apart, Heap, End
<1>4. TypeOK'
  <2>1. \A e \in Free' : Fits(e, size'[e])
    BY <1>1, <1>2, AtEntryFacts DEF Inv, TypeOK, Fits, End
  <2> QED
    BY <1>1, <1>2, <2>1, ListedFacts DEF Inv, TypeOK, Null
<1>5. NoOverlap'
  <2>1. ASSUME NEW f \in Free, f # cur PROVE Apart(f, size[f], cur, size'[cur])
    BY <1>1, <1>2, <1>3, <2>1, AtEntryFacts DEF Apart, Heap, End
  <2>2. ASSUME NEW b \in Live PROVE Apart(cur, size'[cur], b, header[b])
    <3>1. Apart(cur, size[cur], b, header[b]) /\ Apart(b, header[b], addr, amount)
      BY <1>1, AtEntryFacts DEF Inv, NoOverlap
    <3>2. header[b] \in Nat /\ header[b] >= EntrySize /\ b \in Nat
      BY DEF Inv, TypeOK, Heap, Fits
    <3> QED
      BY <1>1, <1>2, <3>1, <3>2, AtEntryFacts DEF Apart, Heap, End
  <2>3. \A e, f \in Free : e # f => Apart(e, size'[e], f, size'[f])
    BY <1>2, <2>1 DEF Inv, NoOverlap, Apart
  <2>4. \A e \in Free, b \in Live : Apart(e, size'[e], b, header[b])
    BY <1>2, <2>2 DEF Inv, NoOverlap
  <2> QED
    BY <1>1, <1>2, <2>3, <2>4, ListedFacts DEF Inv, NoOverlap
<1>6. NoLeak'
  <2>1. SUFFICES ASSUME NEW x \in Heap PROVE (InFree(x) \/ InLive(x))'
    BY DEF NoLeak, Heap, HeapEnd
  <2>2. CASE Covers(cur, size[cur] + amount, x)
    BY <1>1, <1>2, <2>2, AtEntryFacts DEF InFree
  <2>3. CASE ~ Covers(cur, size[cur] + amount, x)
    <3>1. ~ Covers(cur, size[cur], x) /\ ~ Covers(addr, amount, x)
      BY <1>1, <2>3, AtEntryFacts DEF Covers, Heap, End
    <3> QED
      BY <1>1, <1>2, <3>1, ListedFacts DEF Inv, NoLeak, InFree, InLive, InReturning
  <2> QED
    BY <2>2, <2>3
<1>7. Coalesced'
  BY <1>1, <1>2, <1>3, AtEntryFacts DEF Inv, Coalesced, End, Heap
<1>8. ListOrdered'
  BY <1>1, <1>2 DEF Inv, ListOrdered, FirstOk, PrevOk, NextOk
<1> QED
  BY <1>1, <1>4, <1>5, <1>6, <1>7, <1>8, ListedFacts DEF Inv

LEMMA MergeBothInv == ASSUME Inv, MergeBoth PROVE Inv'
<1> DEFINE n == next[cur]
<1>1. /\ AtEntry /\ Listed /\ End(cur) = addr /\ n = addr + amount
  BY DEF MergeBoth, TouchesBottom, Listed, ClosesGap
<1>2. /\ n \in Free /\ cur < n /\ \A g \in Free : cur < g => n <= g
      /\ n # cur
  <2>1. NextOk(cur)
    BY <1>1, AtEntryFacts DEF Inv, ListOrdered
  <2> QED
    BY <1>1, <2>1, AtEntryFacts DEF NextOk, Heap
<1>3. /\ Free' = Free \ {n}
      /\ size'[cur] = size[cur] + amount + size[n]
      /\ \A f \in Free \ {n} :
            /\ f # cur => size'[f] = size[f]
            /\ prev'[f] = IF f = next[n] THEN prev[n] ELSE prev[f]
            /\ next'[f] = IF f = prev[n] THEN next[n] ELSE next[f]
      /\ first' = IF first = n THEN next[n] ELSE first
      /\ size' \in [Free' -> Nat] /\ prev' \in [Free' -> Nat] /\ next' \in [Free' -> Nat]
  BY <1>1, <1>2, AtEntryFacts DEF MergeBoth, Free, Inv, TypeOK
<1>4. /\ cur + size'[cur] = End(n)
      /\ End(n) <= HeapEnd /\ n \in Heap /\ n \in Nat /\ size[n] \in Nat
  BY <1>1, <1>2, <1>3, AtEntryFacts DEF End, Heap, Inv, TypeOK, Fits
<1> HIDE DEF n
<1>5. TypeOK'
  <2>1. \A e \in Free' : Fits(e, size'[e])
    BY <1>1, <1>3, <1>4, AtEntryFacts DEF Inv, TypeOK, Fits, End, Heap, HeapEnd
  <2>2. first' \in Nat
    BY <1>2, <1>3 DEF Inv, TypeOK
  <2> QED
    BY <1>1, <1>3, <2>1, <2>2, ListedFacts DEF Inv, TypeOK, Null
<1>6. \A f \in Free : /\ f < cur => End(f) < cur
                      /\ n < f => End(n) < f
                      /\ f < cur \/ f = cur \/ f = n \/ n < f
  BY <1>1, <1>2, <1>4, AtEntryFacts DEF Inv, Coalesced, Heap
<1>7. NoOverlap'
  <2>1. ASSUME NEW f \in Free', f # cur PROVE Apart(f, size[f], cur, size'[cur])
    BY <1>1, <1>3, <1>4, <1>6, <2>1, AtEntryFacts DEF Apart, Heap, End
  <2>2. ASSUME NEW b \in Live PROVE Apart(cur, size'[cur], b, header[b])
    <3>1. /\ Apart(cur, size[cur], b, header[b]) /\ Apart(b, header[b], addr, amount)
          /\ Apart(n, size[n], b, header[b])
      BY <1>1, <1>2, AtEntryFacts DEF Inv, NoOverlap
    <3>2. header[b] \in Nat /\ header[b] >= EntrySize /\ b \in Nat
      BY DEF Inv, TypeOK, Heap, Fits
    <3> QED
      BY <1>1, <1>2, <1>3, <1>4, <3>1, <3>2, AtEntryFacts DEF Apart, Heap, End
  <2>3. \A e, f \in Free' : e # f => Apart(e, size'[e], f, size'[f])
    BY <1>3, <2>1 DEF Inv, NoOverlap, Apart
  <2>4. \A e \in Free', b \in Live : Apart(e, size'[e], b, header[b])
    BY <1>3, <2>2 DEF Inv, NoOverlap
  <2> QED
    BY <1>1, <2>3, <2>4, ListedFacts DEF Inv, NoOverlap
<1>8. NoLeak'
  <2>1. SUFFICES ASSUME NEW x \in Heap PROVE (InFree(x) \/ InLive(x))'
    BY DEF NoLeak, Heap, HeapEnd
  <2>2. CASE Covers(cur, size'[cur], x)
    BY <1>1, <1>2, <1>3, <2>2, AtEntryFacts DEF InFree
  <2>3. CASE ~ Covers(cur, size'[cur], x)
    <3>1. ~ Covers(cur, size[cur], x) /\ ~ Covers(addr, amount, x) /\ ~ Covers(n, size[n], x)
      BY <1>1, <1>3, <1>4, <2>3, AtEntryFacts DEF Covers, Heap, End
    <3> QED
      BY <1>1, <1>3, <3>1, ListedFacts DEF Inv, NoLeak, InFree, InLive, InReturning
  <2> QED
    BY <2>2, <2>3
<1>9. Coalesced'
  BY <1>1, <1>3, <1>4, <1>6, AtEntryFacts DEF Inv, Coalesced, End, Heap
<1>10. ListOrdered'
  <2>1. PrevOk(n) /\ NextOk(n) /\ FirstOk
    BY <1>2 DEF Inv, ListOrdered
  <2>2. \A g \in Free : g \in Nat /\ g >= Base
    BY <1>1, AtEntryFacts DEF Heap
  <2>3. FirstOk'
    BY <1>1, <1>2, <1>3, <2>1, <2>2, AtEntryFacts DEF FirstOk
  <2>4. ASSUME NEW f \in Free' PROVE PrevOk(f)'
    <3>1. PrevOk(f) /\ f \in Free /\ f # n
      BY <1>3, <2>4 DEF Inv, ListOrdered
    <3> QED
      BY <1>2, <1>3, <2>1, <2>2, <3>1 DEF PrevOk, NextOk, Null
  <2>5. ASSUME NEW f \in Free' PROVE NextOk(f)'
    <3>1. NextOk(f) /\ f \in Free /\ f # n
      BY <1>3, <2>5 DEF Inv, ListOrdered
    <3> QED
      BY <1>2, <1>3, <2>1, <2>2, <3>1 DEF PrevOk, NextOk, Null
  <2> QED
    BY <2>3, <2>4, <2>5 DEF ListOrdered
<1> QED
  BY <1>1, <1>5, <1>7, <1>8, <1>9, <1>10, ListedFacts DEF Inv

LEMMA GrowUpInv == ASSUME Inv, GrowUp PROVE Inv'
<1> DEFINE n == size[cur] + amount
<1>1. /\ AtEntry /\ Listed /\ addr + amount = cur /\ Move(cur, addr, n)
  BY DEF GrowUp, TouchesTop, Listed
<1>2. /\ Free' = (Free \ {cur}) \cup {addr}
      /\ size'[addr] = n
      /\ \A f \in Free \ {cur} : size'[f] = size[f] /\ f # addr
      /\ first' \in Nat
      /\ prev' \in [Free' -> Nat] /\ next' \in [Free' -> Nat] /\ size' \in [Free' -> Nat]
      /\ ListOrdered'
  <2>1. \A f \in Free : f < cur => f < addr
    BY <1>1, AtEntryFacts DEF End
  <2>2. \A f \in Free : cur < f => addr < f
    BY <1>1, AtEntryFacts
  <2>3. n \in Nat
    BY <1>1, AtEntryFacts
  <2> QED
    BY <1>1, <2>1, <2>2, <2>3, AtEntryFacts, MoveList
<1>3. addr + n = End(cur) /\ n >= EntrySize /\ n \in Nat
  BY <1>1, AtEntryFacts DEF End
<1> HIDE DEF n
<1>4. TypeOK'
  <2>1. \A e \in Free' : Fits(e, size'[e])
    BY <1>1, <1>2, <1>3, AtEntryFacts DEF Inv, TypeOK, Fits, End
  <2>2. Free' \subseteq Heap
    BY <1>1, <1>2, AtEntryFacts
  <2> QED
    BY <1>1, <1>2, <2>1, <2>2, ListedFacts DEF Inv, TypeOK, Null
<1>5. NoOverlap'
  <2>1. ASSUME NEW f \in Free', f # addr PROVE Apart(f, size[f], addr, n)
    BY <1>1, <1>2, <1>3, <2>1, AtEntryFacts DEF Apart, End
  <2>2. ASSUME NEW b \in Live PROVE Apart(addr, n, b, header[b])
    <3>1. Apart(cur, size[cur], b, header[b]) /\ Apart(b, header[b], addr, amount)
      BY <1>1, AtEntryFacts DEF Inv, NoOverlap
    <3>2. header[b] \in Nat /\ header[b] >= EntrySize /\ b \in Nat
      BY DEF Inv, TypeOK, Heap, Fits
    <3> QED
      BY <1>1, <1>3, <3>1, <3>2, AtEntryFacts DEF Apart, End
  <2>3. \A e, f \in Free' : e # f => Apart(e, size'[e], f, size'[f])
    BY <1>2, <2>1 DEF Inv, NoOverlap, Apart
  <2>4. \A e \in Free', b \in Live : Apart(e, size'[e], b, header[b])
    BY <1>2, <2>2 DEF Inv, NoOverlap
  <2> QED
    BY <1>1, <2>3, <2>4, ListedFacts DEF Inv, NoOverlap
<1>6. NoLeak'
  <2>1. SUFFICES ASSUME NEW x \in Heap PROVE (InFree(x) \/ InLive(x))'
    BY DEF NoLeak, Heap, HeapEnd
  <2>2. CASE Covers(addr, n, x)
    BY <1>2, <2>2 DEF InFree
  <2>3. CASE ~ Covers(addr, n, x)
    <3>1. ~ Covers(cur, size[cur], x) /\ ~ Covers(addr, amount, x)
      BY <1>1, <1>3, <2>3, AtEntryFacts DEF Covers, Heap, End
    <3> QED
      BY <1>1, <1>2, <3>1, ListedFacts DEF Inv, NoLeak, InFree, InLive, InReturning
  <2> QED
    BY <2>2, <2>3
<1>7. Coalesced'
  BY <1>1, <1>2, <1>3, AtEntryFacts DEF Inv, Coalesced, End
<1> QED
  BY <1>1, <1>2, <1>4, <1>5, <1>6, <1>7, ListedFacts DEF Inv

(* A block that touches no entry becomes an entry of its own.              *)
LEMMA InsertBlocks ==
    ASSUME Inv, AtEntry, Listed,
           Free' = Free \cup {addr}, size'[addr] = amount,
           \A f \in Free : size'[f] = size[f],
           \A f \in Free : End(f) < addr \/ addr + amount < f
    PROVE  NoOverlap' /\ NoLeak' /\ Coalesced' /\ \A e \in Free' : e \in Heap /\ Fits(e, size'[e])
<1>1. \A e \in Free' : e \in Heap /\ Fits(e, size'[e])
  BY AtEntryFacts DEF Inv, TypeOK, Fits
<1>2. NoOverlap'
  <2>1. \A f \in Free : Apart(f, size[f], addr, amount)
    BY AtEntryFacts DEF Inv, NoOverlap
  <2>2. \A b \in Live : Apart(b, header[b], addr, amount)
    BY AtEntryFacts DEF Inv, NoOverlap
  <2>3. \A e, f \in Free' : e # f => Apart(e, size'[e], f, size'[f])
    BY <2>1 DEF Inv, NoOverlap, Apart
  <2>4. \A e \in Free', b \in Live : Apart(e, size'[e], b, header[b])
    BY <2>2 DEF Inv, NoOverlap, Apart
  <2> QED
    BY <2>3, <2>4, ListedFacts DEF Inv, NoOverlap
<1>3. NoLeak'
  BY AtEntryFacts, ListedFacts
  DEF Inv, NoLeak, InFree, InLive, InReturning, Covers, Heap, HeapEnd
<1>4. Coalesced'
  BY AtEntryFacts DEF Inv, Coalesced, End
<1> QED
  BY <1>1, <1>2, <1>3, <1>4

LEMMA InsertBeforeInv == ASSUME Inv, InsertBefore PROVE Inv'
<1>1. /\ AtEntry /\ Listed /\ addr + amount < cur /\ LlistInsertBefore(cur, addr, amount)
  BY AtEntryFacts DEF InsertBefore, Inserts, TouchesTop, Above, Listed
<1>2. \A f \in Free : End(f) < addr \/ addr + amount < f
  BY <1>1, AtEntryFacts DEF End
<1>3. /\ Free' = Free \cup {addr}
      /\ size'[addr] = amount /\ prev'[addr] = prev[cur] /\ next'[addr] = cur
      /\ \A f \in Free :
            /\ size'[f] = size[f]
            /\ prev'[f] = IF f = cur THEN addr ELSE prev[f]
            /\ next'[f] = IF f = prev[cur] /\ first # cur THEN addr ELSE next[f]
      /\ first' = IF first = cur THEN addr ELSE first
      /\ size' \in [Free' -> Nat] /\ prev' \in [Free' -> Nat] /\ next' \in [Free' -> Nat]
  BY <1>1, AtEntryFacts DEF LlistInsertBefore, Free, Inv, TypeOK
<1>4. NoOverlap' /\ NoLeak' /\ Coalesced' /\ \A e \in Free' : e \in Heap /\ Fits(e, size'[e])
  BY <1>1, <1>2, <1>3, InsertBlocks
<1>5. TypeOK'
  BY <1>1, <1>3, <1>4, AtEntryFacts, ListedFacts DEF Inv, TypeOK, Null
<1>6. ListOrdered'
  <2>1. PrevOk(cur) /\ NextOk(cur) /\ FirstOk
    BY <1>1, AtEntryFacts DEF Inv, ListOrdered
  <2>2. \A f \in Free : f < cur => f < addr
    BY <1>1, AtEntryFacts DEF End
  <2>3. FirstOk'
    BY <1>1, <1>3, <2>1, <2>2, AtEntryFacts DEF FirstOk
  <2>4. ASSUME NEW f \in Free', f = addr PROVE PrevOk(f)' /\ NextOk(f)'
    BY <1>1, <1>3, <2>1, <2>2, <2>4, AtEntryFacts DEF PrevOk, NextOk
  <2>5. ASSUME NEW f \in Free PROVE PrevOk(f)'
    <3>1. PrevOk(f)
      BY DEF Inv, ListOrdered
    <3> QED
      BY <1>1, <1>3, <2>1, <2>2, <3>1, AtEntryFacts DEF PrevOk
  <2>6. ASSUME NEW f \in Free PROVE NextOk(f)'
    <3>1. NextOk(f)
      BY DEF Inv, ListOrdered
    <3>2. CASE f = prev[cur]
      <4>1. f < cur /\ \A g \in Free : g < cur => g <= f
        BY <1>1, <2>1, <3>2, AtEntryFacts DEF PrevOk, Null
      <4>2. first # cur
        BY <1>1, <2>1, <4>1, AtEntryFacts DEF FirstOk
      <4>3. next'[f] = addr /\ f < addr
        BY <1>3, <2>2, <3>2, <4>1, <4>2
      <4> QED
        BY <1>1, <1>3, <4>1, <4>3, AtEntryFacts DEF NextOk
    <3>3. CASE f # prev[cur]
      <4>1. f < cur => next[f] < cur /\ next[f] \in Free
        BY <1>1, <2>1, <3>1, <3>3, AtEntryFacts DEF NextOk, PrevOk
      <4> QED
        BY <1>1, <1>3, <2>2, <3>1, <3>3, <4>1, AtEntryFacts DEF NextOk
    <3> QED
      BY <3>2, <3>3
  <2> QED
    BY <1>3, <2>3, <2>4, <2>5, <2>6 DEF ListOrdered
<1> QED
  BY <1>1, <1>4, <1>5, <1>6, ListedFacts DEF Inv

LEMMA InsertAfterInv == ASSUME Inv, InsertAfter PROVE Inv'
<1>1. /\ AtEntry /\ Listed /\ End(cur) < addr /\ next[cur] = Null
      /\ LlistInsertAfter(cur, addr, amount)
  BY AtEntryFacts DEF InsertAfter, Inserts, TouchesBottom, Below, Listed, End
<1>2. \A f \in Free : f <= cur
  <2>1. NextOk(cur)
    BY <1>1, AtEntryFacts DEF Inv, ListOrdered
  <2> QED
    BY <1>1, <2>1, AtEntryFacts DEF NextOk, Null
<1>3. \A f \in Free : End(f) < addr
  BY <1>1, <1>2, AtEntryFacts DEF End
<1>4. /\ Free' = Free \cup {addr}
      /\ size'[addr] = amount /\ prev'[addr] = cur /\ next'[addr] = Null
      /\ \A f \in Free :
            /\ size'[f] = size[f]
            /\ prev'[f] = prev[f]
            /\ next'[f] = IF f = cur THEN addr ELSE next[f]
      /\ first' = first
      /\ size' \in [Free' -> Nat] /\ prev' \in [Free' -> Nat] /\ next' \in [Free' -> Nat]
  BY <1>1, AtEntryFacts DEF LlistInsertAfter, Free, Inv, TypeOK, Null
<1>5. NoOverlap' /\ NoLeak' /\ Coalesced' /\ \A e \in Free' : e \in Heap /\ Fits(e, size'[e])
  BY <1>1, <1>3, <1>4, InsertBlocks
<1>6. TypeOK'
  BY <1>1, <1>4, <1>5, AtEntryFacts, ListedFacts DEF Inv, TypeOK, Null
<1>7. ListOrdered'
  <2>1. FirstOk /\ \A f \in Free : PrevOk(f) /\ NextOk(f)
    BY DEF Inv, ListOrdered
  <2>2. \A f \in Free : f < addr
    BY <1>3, <1>1, AtEntryFacts DEF End
  <2>3. FirstOk'
    BY <1>1, <1>4, <2>1, <2>2, AtEntryFacts DEF FirstOk
  <2>4. ASSUME NEW f \in Free', f = addr PROVE PrevOk(f)' /\ NextOk(f)'
    BY <1>1, <1>2, <1>4, <2>2, <2>4, AtEntryFacts DEF PrevOk, NextOk, Null
  <2>5. ASSUME NEW f \in Free PROVE PrevOk(f)'
    BY <1>1, <1>4, <2>1, <2>2, AtEntryFacts DEF PrevOk
  <2>6. ASSUME NEW f \in Free PROVE NextOk(f)'
    BY <1>1, <1>2, <1>4, <2>1, <2>2, AtEntryFacts DEF NextOk
  <2> QED
    BY <1>4, <2>3, <2>4, <2>5, <2>6 DEF ListOrdered
<1> QED
  BY <1>1, <1>5, <1>6, <1>7, ListedFacts DEF Inv

-----------------------------------------------------------------------------
LEMMA NextInv == Inv /\ [Next]_vars => Inv'
<1> SUFFICES ASSUME Inv, [Next]_vars PROVE Inv'
  OBVIOUS
<1>1. CASE \E n \in Requests : AllocBegin(n)
  BY <1>1, AllocBeginInv
<1>2. CASE \E a \in Live : FreeIntoEmpty(a) \/ FreeBegin(a)
  BY <1>2, FreeIntoEmptyInv, FreeBeginInv
<1>3. CASE (\E a \in Free : FreeRejected(a)) \/ CountBegin \/ CountStep
  BY <1>3, IdlesInv DEF Idles, CountStep
<1>4. CASE AllocStep
  BY <1>4, IdlesInv, SearchNextInv, TakeWholeInv, SplitInv DEF AllocStep, Idles
<1>5. CASE FreeStep
  BY <1>5, IdlesInv, MergeBelowInv, MergeBothInv, GrowUpInv, InsertBeforeInv, InsertAfterInv,
     WalkNextInv DEF FreeStep, Idles
<1>6. CASE UNCHANGED vars
  <2>1. Unmoved /\ Free' = Free /\ Live' = Live /\ amount' = amount /\ Returning' = Returning
    BY <1>6 DEF vars, Unmoved, Free, Live, Returning
  <2>2. TypeOK'
    BY <1>6, <2>1 DEF Inv, TypeOK, vars
  <2>3. SearchPosition' /\ WalkPosition'
    BY <1>6, <2>1 DEF Inv, SearchPosition, WalkPosition, End, vars
  <2> QED
    BY <2>1, <2>2, <2>3, UnmovedBlocks DEF Inv
<1> QED
  BY <1>1, <1>2, <1>3, <1>4, <1>5, <1>6 DEF Next

(* Whatever the sizes and the order of the calls, the list stays sorted,   *)
(* coalesced and complete, and the blocks stay apart.                      *)
THEOREM AlwaysInv == Spec => []Inv
<1>1. Init => Inv
  BY InitInv
<1>2. Inv /\ [Next]_vars => Inv'
  BY NextInv
<1> QED
  BY <1>1, <1>2, PTL DEF Spec

(* Every block alloc() and free() handle lies in the heap and can hold an  *)
(* entry.                                                                  *)
THEOREM AlwaysTypeOK == Spec => []TypeOK
<1>1. Inv => TypeOK
  BY DEF Inv
<1> QED
  BY <1>1, AlwaysInv, PTL

(* alloc() never hands out a byte that a caller already holds, and the     *)
(* list never contains a byte that a caller holds.                         *)
THEOREM AlwaysNoOverlap == Spec => []NoOverlap
<1>1. Inv => NoOverlap
  BY DEF Inv
<1> QED
  BY <1>1, AlwaysInv, PTL

(* No sequence of alloc() and free() loses a byte of the heap.             *)
THEOREM AlwaysNoLeak == Spec => []NoLeak
<1>1. Inv => NoLeak
  BY DEF Inv
<1> QED
  BY <1>1, AlwaysInv, PTL

(* Two entries of the free list never touch.                               *)
THEOREM AlwaysCoalesced == Spec => []Coalesced
<1>1. Inv => Coalesced
  BY DEF Inv
<1> QED
  BY <1>1, AlwaysInv, PTL

(* Returning a live block never trips an assert of the walk in free().     *)
THEOREM AlwaysWalkAssertsHold == Spec => []WalkAssertsHold
<1>1. Inv => WalkAssertsHold
  <2> SUFFICES ASSUME Inv, pc = "walk"
               PROVE  /\ cur # Null
                      /\ cur \in Free => ~ Overlaps(cur) /\ amount >= EntrySize
    BY DEF WalkAssertsHold
  <2>1. Returning /\ cur # Null
    BY DEF Inv, WalkPosition, TypeOK, Heap, Null
  <2>2. ASSUME cur \in Free PROVE ~ Overlaps(cur)
    <3>1. Apart(cur, size[cur], addr, amount)
      BY <2>1, <2>2 DEF Inv, NoOverlap
    <3> QED
      BY <2>1, <2>2, <3>1
      DEF Overlaps, End, Apart, Inv, TypeOK, Fits, Heap, HeapEnd, Returning
  <2> QED
    BY <2>1, <2>2 DEF Inv, TypeOK, Fits
<1> QED
  BY <1>1, AlwaysInv, PTL

-----------------------------------------------------------------------------
(* The allocator implements HeapSpec.                                      *)

(* When no entry is long enough, no gap between the live blocks is: a gap  *)
(* that reached over the end of an entry would run into the next one,      *)
(* which does not touch it.                                                *)
LEMMA NoGapFits ==
    ASSUME Inv, ~ Returning, amount > 0, NEW a \in Heap, Promise!Gap(a, amount)
    PROVE  \E f \in Free : size[f] >= amount
<1>1. /\ a + amount <= HeapEnd /\ a \in Nat /\ amount \in Nat
      /\ \A x \in Heap : Covers(a, amount, x) => ~ InLive(x)
  BY DEF Promise!Gap, Promise!Heap, Promise!Owned, Promise!InBlock, Heap, HeapEnd, InLive,
         Live, Covers, Inv, TypeOK
<1>2. \A x \in Heap : Covers(a, amount, x) => InFree(x)
  BY <1>1 DEF Inv, NoLeak, InReturning
<1>3. PICK f \in Free : Covers(f, size[f], a)
  BY <1>1, <1>2 DEF Covers, InFree
<1>4. f \in Nat /\ size[f] \in Nat /\ End(f) <= HeapEnd /\ f <= a /\ a < End(f)
  BY <1>3 DEF Inv, TypeOK, Fits, Heap, End, Covers
<1>5. CASE End(f) < a + amount
  <2>1. End(f) \in Heap /\ Covers(a, amount, End(f))
    BY <1>1, <1>4, <1>5 DEF Heap, HeapEnd, Covers, End
  <2>2. PICK g \in Free : Covers(g, size[g], End(f))
    BY <1>2, <2>1 DEF InFree
  <2>3. g \in Nat /\ size[g] \in Nat
    BY DEF Inv, TypeOK, Heap
  <2>4. (f < g => End(f) < g) /\ (g < f => End(g) < f)
    BY DEF Inv, Coalesced
  <2> QED
    BY <1>4, <2>2, <2>3, <2>4 DEF Covers, End
<1>6. CASE a + amount <= End(f)
  BY <1>1, <1>4, <1>6 DEF End
<1> QED
  BY <1>1, <1>4, <1>5, <1>6 DEF End

(* The block alloc() takes off the list was nobody's.                      *)
LEMMA Granted ==
    ASSUME Inv, pc = "search", cur \in Free, NEW n \in Nat,
           amount <= n, n <= size[cur], NewHeader(n), Return
    PROVE  Promise!HeapNext
<1>1. /\ ~ Returning /\ ~ Returning' /\ amount # 0 /\ amount' = 0 /\ pc' # "oom" /\ amount \in Nat
      /\ cur \in Heap /\ size[cur] \in Nat /\ cur + size[cur] <= HeapEnd /\ cur \in Nat
      /\ Heap = Promise!Heap
  BY DEF Inv, TypeOK, Fits, Return, Returning, Heap, Promise!Heap, HeapEnd
<1>2. Promise!Gap(cur, n)
  <2>1. cur + n <= Base + HeapSize
    BY <1>1 DEF HeapEnd
  <2>2. ASSUME NEW x \in Heap, Covers(cur, n, x) PROVE ~ InLive(x)
    BY <1>1, <2>2 DEF InLive, Covers, Inv, NoOverlap, Apart, TypeOK, Fits, Heap, HeapEnd
  <2> QED
    BY <1>1, <2>1, <2>2 DEF Promise!Gap, Promise!Owned, Promise!InBlock, InLive, Live, Covers
<1>3. n \in 1 .. HeapSize
  BY <1>1 DEF Heap, HeapEnd
<1>4. Promise!Grant(cur, n)
  BY <1>1, <1>2 DEF Promise!Grant, NewHeader, Live
<1> QED
  BY <1>1, <1>3, <1>4 DEF Promise!HeapNext

LEMMA StepKeepsPromise == Inv /\ Inv' /\ [Next]_vars => [Promise!HeapNext]_(Promise!heapVars)
<1> SUFFICES ASSUME Inv, Inv', [Next]_vars
             PROVE  Promise!HeapNext \/ UNCHANGED Promise!heapVars
  OBVIOUS
<1>1. CASE \E n \in Requests : AllocBegin(n)
  <2>1. amount = 0 /\ ~ Returning /\ ~ Returning' /\ amount' \in Nat \ {0} /\ pc' # "oom"
    BY <1>1 DEF AllocBegin, Inv, TypeOK, Returning
  <2> QED
    BY <1>1, <2>1 DEF AllocBegin, Promise!HeapNext, Promise!Ask
<1>2. CASE \E a \in Live : FreeIntoEmpty(a) \/ FreeBegin(a)
  <2>1. PICK a \in Live : FreeIntoEmpty(a) \/ FreeBegin(a)
    BY <1>2
  <2>2. /\ amount = 0 /\ ~ Returning /\ Unseal(a) /\ pc # "oom" /\ pc' # "oom"
        /\ Returning' \/ amount' = 0
    BY <2>1 DEF FreeIntoEmpty, FreeBegin, callVars, Inv, TypeOK, Returning, Heap, Null
  <2>3. Promise!GiveBack(a)
    BY <2>2 DEF Promise!GiveBack, Unseal, Live
  <2> QED
    BY <2>3 DEF Promise!HeapNext, Live
<1>3. CASE SearchEnd /\ pc' = "oom"
  <2>1. ~ Returning /\ ~ Returning' /\ amount > 0 /\ amount \in Nat /\ UNCHANGED <<header, amount>>
        /\ pc = "search" /\ cur \notin Free
    BY <1>3 DEF SearchEnd, Stop, Inv, TypeOK, Returning, Heap, Null
  <2>2. \A f \in Free : size[f] < amount
    BY <2>1 DEF Inv, SearchPosition
  <2>3. \A a \in Promise!Heap : ~ Promise!Gap(a, amount)
    <3>1. Promise!Heap = Heap /\ \A f \in Free : size[f] \in Nat
      BY DEF Promise!Heap, Heap, HeapEnd, Inv, TypeOK
    <3> QED
      BY <2>1, <2>2, <3>1, NoGapFits
  <2> QED
    BY <1>3, <2>1, <2>3 DEF Promise!HeapNext, Promise!Refuse
<1>4. CASE TakeWhole
  BY <1>4, Granted DEF TakeWhole, Inv, TypeOK
<1>5. CASE Split
  <2>1. amount \in Nat /\ size[cur] \in Nat
    BY <1>5 DEF Split, Inv, TypeOK
  <2> QED
    BY <1>5, <2>1, Granted DEF Split
<1>6. CASE \/ \E a \in Free : FreeRejected(a)
           \/ CountBegin \/ CountStep \/ WalkNext \/ WalkStray \/ SearchNext \/ SearchStray
           \/ SearchEnd /\ pc' # "oom"
           \/ UNCHANGED vars
  <2>1. \/ UNCHANGED <<header, addr, amount>> /\ pc' # "oom" /\ pc # "oom"
        \/ UNCHANGED vars
    BY <1>6 DEF FreeRejected, CountBegin, CountStep, CountEntry, CountStray, WalkNext, AtEntry,
                WalkStray, SearchNext, SearchStray, SearchEnd, Stop
  <2> QED
    BY <2>1 DEF Promise!heapVars, Returning, vars
<1>7. CASE MergeBelow \/ MergeBoth \/ GrowUp \/ InsertBefore \/ InsertAfter
  <2>1. AtEntry /\ Listed
    BY <1>7 DEF MergeBelow, MergeBoth, GrowUp, InsertBefore, InsertAfter, Listed
  <2>2. UNCHANGED header /\ Returning /\ ~ Returning' /\ amount' = 0 /\ pc # "oom" /\ pc' # "oom"
    BY <2>1, AtEntryFacts, ListedFacts DEF AtEntry
  <2> QED
    BY <2>2 DEF Promise!heapVars
<1> QED
  BY <1>1, <1>2, <1>3, <1>4, <1>5, <1>6, <1>7 DEF Next, AllocStep, FreeStep

(* alloc() and free() keep the promise of heap.h: a granted block is       *)
(* nobody else's and long enough, a live block can be returned, and a      *)
(* request is refused only when no gap of the heap fits it.                *)
THEOREM AlwaysKeepsPromise == Spec => KeepsPromise
<1>1. Init => Promise!HeapInit
  BY DEF Init, Promise!HeapInit, NoFunction, Returning
<1>2. Inv /\ Inv' /\ [Next]_vars => [Promise!HeapNext]_(Promise!heapVars)
  BY StepKeepsPromise
<1> QED
  BY <1>1, <1>2, AlwaysInv, PTL DEF Spec, KeepsPromise, Promise!HeapSpecification
=============================================================================
