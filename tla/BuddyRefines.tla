---------------------------- MODULE BuddyRefines ----------------------------
(***************************************************************************)
(* The buddy system implements PageAlloc.  The block in hand under         *)
(* pfn_lock still counts as free while it is split, and does again as soon *)
(* as a caller has given it back, so that a split or a merge changes       *)
(* nothing.                                                                *)
(***************************************************************************)
EXTENDS Buddy

\* nr_free_pages without the block in hand would be short of it.
AvailablePages == nr_free_pages + (IF op = "none" THEN 0 ELSE Pow2[high])

Abstract ==
  INSTANCE PageAlloc WITH
    pending <- {p \in Usable : p >= boot},
    available <- AvailablePages,
    held <- {[frame |-> p, order |-> granted[p]] : p \in {q \in Pages : granted[q] # NotHeld}},
    stopped <- halted

\* pmm.c does what its callers rely on: a block granted is free, aligned, of the
\* smallest order that is enough, and no other; what comes back is the block that
\* was granted; and nr_free_pages, which pmm_alloc_pages compares with a request
\* before it takes pfn_lock, counts exactly the free pages, through every split
\* and every merge.
ImplementsPageAlloc == Abstract!Spec
=============================================================================
