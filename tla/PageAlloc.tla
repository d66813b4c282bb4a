----------------------------- MODULE PageAlloc ------------------------------
(***************************************************************************)
(* What the page allocator promises its callers (pmm_alloc_pages and       *)
(* pmm_free_pages of kernel/src/mm/pmm.c), without free lists, splitting   *)
(* and merging: usable frames are free or in a block that somebody holds.  *)
(***************************************************************************)
EXTENDS Integers

CONSTANTS
  Usable,    \* the frames there are
  Requests,  \* the page counts asked for
  Orders,    \* the orders of blocks
  Pow2       \* Pow2[k]: the frames of a block of order k

VARIABLES
  pending,    \* frames that the boot scan has not reached yet
  available,  \* the number of free frames
  held,       \* the blocks that callers hold: frame and order
  stopped     \* a request was not served, which stops the kernel

vars == <<pending, available, held, stopped>>

Block(p, k) == p .. p + Pow2[k] - 1
HeldFrames == UNION {Block(b.frame, b.order) : b \in held}
Free == Usable \ (pending \union HeldFrames)

Init == pending = Usable /\ available = 0 /\ held = {} /\ stopped = FALSE

\* The boot scan frees a block.
Found(p, k) ==
  /\ Block(p, k) \subseteq pending
  /\ pending' = pending \ Block(p, k)
  /\ available' = available + Pow2[k]
  /\ UNCHANGED <<held, stopped>>

\* The block granted for n pages is free, aligned to its size, and the smallest
\* that is large enough.
Alloc(n, p, k) ==
  /\ n <= Pow2[k] /\ \A i \in Orders : i < k => Pow2[i] < n
  /\ p % Pow2[k] = 0 /\ Block(p, k) \subseteq Free
  /\ held' = held \union {[frame |-> p, order |-> k]}
  /\ available' = available - Pow2[k]
  /\ UNCHANGED <<pending, stopped>>

\* A caller gives back the whole block it was granted.
Release(block) ==
  /\ held' = held \ {block}
  /\ available' = available + Pow2[block.order]
  /\ UNCHANGED <<pending, stopped>>

Stop == stopped' = TRUE /\ UNCHANGED <<pending, available, held>>

Next ==
  \/ \E p \in Usable, k \in Orders :
       Found(p, k) \/ \E n \in Requests : Alloc(n, p, k)
  \/ \E block \in held : Release(block)
  \/ Stop

Spec == Init /\ [][Next]_vars
=============================================================================
