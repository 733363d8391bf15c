------------------------- MODULE MCPageAllocator -------------------------
(***************************************************************************)
(* Model checking of PageAllocator.  Begin lies two frames above the start *)
(* of the region (kernel image and bitmap), three pages are left below the *)
(* end of the large page, and the last byte of the bitmap has a bit that   *)
(* stands for no page.                                                     *)
(***************************************************************************)
EXTENDS PageAllocator

MCRequests == {1, 2, 3, 4}
=============================================================================
