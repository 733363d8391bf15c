----------------------- MODULE MCFreeListAllocator -----------------------
(***************************************************************************)
(* Model checking of FreeListAllocator on a small heap.  The sizes keep    *)
(* the order of the real ones (8-byte headers, 12-byte entries): a split   *)
(* may or may not leave room for an entry, and neighbours merge on either  *)
(* side, on both, or on none.                                              *)
(***************************************************************************)
EXTENDS FreeListAllocator, FiniteSetsExt

MCRequests == {0, 1, 2, 4}

(* get_unused() returns exactly the bytes that are not in a live block.    *)
LiveBytes == MapThenSumSet(LAMBDA b : header[b], Live)

UnusedIsExact ==
    [][pc = "count" /\ pc' = "idle" => total' = HeapSize - LiveBytes]_vars

=============================================================================
