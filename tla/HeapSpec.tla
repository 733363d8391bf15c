------------------------------ MODULE HeapSpec ------------------------------
(***************************************************************************)
(* What the kernel heap promises to its callers (heap.h, "Allocate a       *)
(* memory block of given size from the heap. Must be freed with `free()`"  *)
(* and "Reclaim memory allocated by `alloc()`"), with no free list in      *)
(* sight: a request is granted a block of the heap that no other live      *)
(* block shares, a live block may be given back, and a request is refused  *)
(* only when no gap between the live blocks is long enough for it.         *)
(***************************************************************************)
EXTENDS Naturals

CONSTANTS
    Base,       \* the address of the first byte of the heap
    HeapSize    \* its length in bytes

VARIABLES
    live,       \* the blocks in the callers' hands: start address -> length
    want,       \* the bytes the request being served needs, 0 if there is none
    exhausted   \* TRUE once a request has been refused (the kernel stops)

heapVars == <<live, want, exhausted>>

Heap == Base .. Base + HeapSize - 1

InBlock(x, a, n) == a <= x /\ x < a + n

Owned(x) == \E b \in DOMAIN live : InBlock(x, b, live[b])

(* The n bytes from a on lie inside the heap and belong to nobody. *)
Gap(a, n) == /\ a \in Heap
             /\ a + n <= Base + HeapSize
             /\ \A x \in Heap : InBlock(x, a, n) => ~ Owned(x)

HeapInit == /\ live = [b \in {} |-> 0]
            /\ want = 0
            /\ exhausted = FALSE

Ask == /\ want = 0
       /\ ~ exhausted
       /\ want' \in Nat \ {0}
       /\ UNCHANGED <<live, exhausted>>

(* A grant may be longer than the request: a remainder too short to be     *)
(* kept on the free list goes with the block.                              *)
Grant(a, n) == /\ want # 0
               /\ ~ exhausted
               /\ n >= want
               /\ Gap(a, n)
               /\ live' = [b \in DOMAIN live \cup {a} |->
                             IF b = a THEN n ELSE live[b]]
               /\ want' = 0
               /\ UNCHANGED exhausted

Refuse == /\ want # 0
          /\ ~ exhausted
          /\ \A a \in Heap : ~ Gap(a, want)
          /\ exhausted' = TRUE
          /\ UNCHANGED <<live, want>>

GiveBack(a) == /\ want = 0
               /\ ~ exhausted
               /\ a \in DOMAIN live
               /\ live' = [b \in DOMAIN live \ {a} |-> live[b]]
               /\ UNCHANGED <<want, exhausted>>

HeapNext == \/ Ask
            \/ \E a \in Heap, n \in 1 .. HeapSize : Grant(a, n)
            \/ Refuse
            \/ \E a \in DOMAIN live : GiveBack(a)

HeapSpecification == HeapInit /\ [][HeapNext]_heapVars
=============================================================================
