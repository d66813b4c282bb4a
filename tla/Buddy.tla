------------------------------- MODULE Buddy -------------------------------
(***************************************************************************)
(* The physical page allocator, kernel/src/mm/pmm.c: a binary buddy system *)
(* over the page frames 0 .. NrPages-1 with one free list per order.       *)
(*                                                                         *)
(* The kernel schedules on one processor and pfn_lock is taken with        *)
(* interrupts off (spin_lock_irq), so the loops of _buddy_free_pages and   *)
(* _buddy_split run without interleaving; each loop turn is one step here, *)
(* and while op # "none" no caller moves.  What does interleave is the     *)
(* check of nr_free_pages, which pmm_alloc_pages makes before it locks.    *)
(***************************************************************************)
EXTENDS Integers, Sequences, Functions

CONSTANTS
  NrPages,       \* SIZE_TO_PAGE(kmem.phys_limit): frames in the pfn database
  MM_MAX_ORDER,  \* number of free lists, 11 in mm.h
  WordOrder,     \* ffs(BITS_PER_U64): order of one all-free bitmap word, 6
  Pow2,          \* Pow2[k] is the C expression 1ull << k
  Usable,        \* frames whose bitmap bit is clear when _buddy_init runs
  Callers,       \* tasks that call the allocator
  Requests       \* the page counts they ask for

Pages == 0 .. NrPages - 1
Orders == 0 .. MM_MAX_ORDER - 1

ASSUME BuddyAssumption ==
  /\ NrPages \in Nat
  /\ MM_MAX_ORDER \in Nat \ {0}
  /\ WordOrder \in Orders
  /\ Pow2 \in [0 .. MM_MAX_ORDER -> Nat \ {0}]
  /\ Pow2[0] = 1
  /\ \A k \in Orders : Pow2[k + 1] = 2 * Pow2[k]
  /\ Usable \subseteq Pages
  /\ Requests \subseteq Nat \ {0}

VARIABLES
  free_area,      \* free_area[k]: the list of order k, head first
  nr_free,        \* kmem.buddy_free_area[k].nr_free
  in_buddy,       \* page->in_buddy
  order,          \* page->order
  nr_free_pages,  \* kmem.nr_free_pages
  boot,           \* _buddy_init's cursor: the frames below it have been visited
  op,             \* what runs under pfn_lock: "none", "split" or "merge"
  page, high, low,\* its locals: the block at hand, its order, the order wanted
  pc, request,    \* per task: where in pmm_alloc_pages, and for how many pages
  granted,        \* ghost: the order of the block handed out at a frame, or NotHeld
  halted          \* panic, or the fault on a null page_t

vars == <<free_area, nr_free, in_buddy, order, nr_free_pages, boot, op, page,
          high, low, pc, request, granted, halted>>
lists == <<free_area, nr_free, in_buddy, order, nr_free_pages>>
locals == <<op, page, high, low>>

NotHeld == -1

-----------------------------------------------------------------------------
(* The free lists as sequences (kernel/src/base/linkedlist.c).             *)

InList(s, p) == \E i \in 1 .. Len(s) : s[i] = p
IsDistinct(s) == \A i, j \in 1 .. Len(s) : s[i] = s[j] => i = j

\* dlist_remove_entry: unlink p from the list it is on.
dlist_remove_entry(s, p) ==
  IF InList(s, p)
  THEN LET at == CHOOSE i \in 1 .. Len(s) : s[i] = p
       IN [i \in 1 .. Len(s) - 1 |-> IF i < at THEN s[i] ELSE s[i + 1]]
  ELSE s

dlist_add_next(s, p) == <<p>> \o s
dlist_add_prev(s, p) == Append(s, p)

-----------------------------------------------------------------------------
(* Frame arithmetic.                                                       *)

\* page_idx ^ (1 << k): the frame with bit k flipped.
buddy_idx(p, k) ==
  IF (p \div Pow2[k]) % 2 = 0 THEN p + Pow2[k] ELSE p - Pow2[k]

\* page_idx & buddy_idx: the lower of a frame and its buddy.
combined_idx(p, b) == IF p < b THEN p ELSE b

\* _buddy_page_is_buddy: b is below phys_limit and heads a free block of order k.
buddy_page_is_buddy(b, k) == b \in Pages /\ in_buddy[b] /\ order[b] = k

\* k is the smallest order whose blocks hold n pages.
SmallestOrder(n, k) == n <= Pow2[k] /\ \A i \in Orders : i < k => Pow2[i] < n

\* The bitmap word that starts at frame p has no bit set.
WordIsFree(p) ==
  /\ p % Pow2[WordOrder] = 0
  /\ p .. p + Pow2[WordOrder] - 1 \subseteq Usable

-----------------------------------------------------------------------------
Init ==
  /\ free_area = [k \in Orders |-> <<>>]
  /\ nr_free = [k \in Orders |-> 0]
  /\ in_buddy = [p \in Pages |-> FALSE]
  /\ order = [p \in Pages |-> 0]
  /\ nr_free_pages = 0
  /\ boot = 0
  /\ op = "none" /\ page = 0 /\ high = 0 /\ low = 0
  /\ pc = [c \in Callers |-> "idle"]
  /\ request = [c \in Callers |-> 0]
  /\ granted = [p \in Pages |-> NotHeld]
  /\ halted = FALSE

Booted == boot = NrPages

\* Nobody holds pfn_lock and the kernel runs.
Unlocked == op = "none" /\ ~halted

\* _buddy_free_pages(p, k) is entered.
EnterFree(p, k) ==
  /\ op' = "merge" /\ page' = p /\ high' = k /\ low' = 0

\* _buddy_init: visit the bitmap at the cursor and free what is usable there.
buddy_init ==
  /\ Unlocked /\ ~Booted
  /\ \/ /\ WordIsFree(boot)
        /\ EnterFree(boot, WordOrder)
        /\ boot' = boot + Pow2[WordOrder]
     \/ /\ ~WordIsFree(boot)
        /\ boot \in Usable
        /\ EnterFree(boot, 0)
        /\ boot' = boot + 1
     \/ /\ boot \notin Usable
        /\ boot' = boot + 1
        /\ UNCHANGED <<op, page, high, low>>
  /\ UNCHANGED <<lists, pc, request, granted, halted>>

\* pmm_alloc_pages up to the lock: the check reads nr_free_pages unlocked.
pmm_alloc_pages(c, n) ==
  /\ Unlocked /\ Booted /\ pc[c] = "idle"
  /\ \/ /\ n <= nr_free_pages
        /\ pc' = [pc EXCEPT ![c] = "checked"]
        /\ request' = [request EXCEPT ![c] = n]
        /\ UNCHANGED halted
     \/ /\ n > nr_free_pages
        /\ halted' = TRUE
        /\ UNCHANGED <<pc, request>>
  /\ UNCHANGED <<lists, boot, locals, granted>>

\* _buddy_get_from_free_area: take the first block of order k.
buddy_get_from_free_area(k) ==
  /\ page' = Head(free_area[k])
  /\ free_area' = [free_area EXCEPT ![k] = Tail(@)]
  /\ in_buddy' = [in_buddy EXCEPT ![Head(free_area[k])] = FALSE]
  /\ nr_free' = [nr_free EXCEPT ![k] = @ - 1]
  /\ nr_free_pages' = nr_free_pages - Pow2[k]
  /\ UNCHANGED order

\* The order whose list serves a request of order k: the first non-empty one.
Serves(k, j) ==
  /\ k <= j /\ nr_free[j] # 0
  /\ \A i \in Orders : k <= i /\ i < j => nr_free[i] = 0

\* _buddy_alloc_pages under pfn_lock, up to the split.  When no list can serve
\* the request the null page is dereferenced by page_to_pfn.
buddy_alloc_pages(c) ==
  /\ Unlocked /\ pc[c] = "checked"
  /\ \/ \E k, j \in Orders :
          /\ SmallestOrder(request[c], k) /\ Serves(k, j)
          /\ buddy_get_from_free_area(j)
          /\ op' = "split" /\ high' = j /\ low' = k
          /\ pc' = [pc EXCEPT ![c] = "locked"]
          /\ UNCHANGED halted
     \/ /\ \A k, j \in Orders : SmallestOrder(request[c], k) => ~Serves(k, j)
        /\ halted' = TRUE
        /\ UNCHANGED <<lists, locals, pc>>
  /\ UNCHANGED <<boot, request, granted>>

\* _buddy_add_to_free_list: the block goes to the tail of its list.
buddy_add_to_free_list(p, k) ==
  /\ free_area' = [free_area EXCEPT ![k] = dlist_add_prev(@, p)]
  /\ in_buddy' = [in_buddy EXCEPT ![p] = TRUE]
  /\ order' = [order EXCEPT ![p] = k]
  /\ nr_free' = [nr_free EXCEPT ![k] = @ + 1]

\* Mutant: the lower half, which is still in hand, is put on the list.
UpperHalf_lower(p, k) == p

\* page + size, size being half of the block split.
UpperHalf(p, k) == p + Pow2[k]

\* One turn of _buddy_split: the upper half goes back to the free lists.
buddy_split ==
  /\ op = "split" /\ high > low
  /\ high' = high - 1
  /\ buddy_add_to_free_list(UpperHalf(page, high - 1), high - 1)
  /\ nr_free_pages' = nr_free_pages + Pow2[high - 1]
  /\ UNCHANGED <<boot, op, page, low, pc, request, granted, halted>>

\* Leave the critical section (the locals are dead from here on).
Unlock == op' = "none" /\ page' = 0 /\ high' = 0 /\ low' = 0

\* _buddy_set_page_order on the block handed out.
buddy_set_page_order(p, k) == order' = [order EXCEPT ![p] = k]

\* The end of _buddy_alloc_pages: record the order, unlock, return the frame.
alloc_return(c) ==
  /\ op = "split" /\ high = low /\ pc[c] = "locked"
  /\ buddy_set_page_order(page, low)
  /\ granted' = [granted EXCEPT ![page] = low]
  /\ pc' = [pc EXCEPT ![c] = "idle"]
  /\ request' = [request EXCEPT ![c] = 0]
  /\ Unlock
  /\ UNCHANGED <<free_area, nr_free, in_buddy, nr_free_pages, boot, halted>>

\* pmm_free_pages: the order comes from the page, not from the caller.
pmm_free_pages(c, p) ==
  /\ Unlocked /\ Booted /\ pc[c] = "idle"
  /\ granted[p] # NotHeld
  /\ EnterFree(p, order[p])
  /\ granted' = [granted EXCEPT ![p] = NotHeld]
  /\ UNCHANGED <<lists, boot, pc, request, halted>>

\* Mutant: the loop stops one order too early.
CanMerge_short ==
  high < MM_MAX_ORDER - 2 /\ buddy_page_is_buddy(buddy_idx(page, high), high)

\* The loop test of _buddy_free_pages.
CanMerge == high < MM_MAX_ORDER - 1 /\ buddy_page_is_buddy(buddy_idx(page, high), high)

\* Mutant: the buddy's pages stay in the total although they are added again.
TakeFromTotal_skipped(k) == nr_free_pages' = nr_free_pages

\* kmem.nr_free_pages -= 1ull << new_order.
TakeFromTotal(k) == nr_free_pages' = nr_free_pages - Pow2[k]

\* One turn of the loop: absorb the free buddy.
merge ==
  /\ op = "merge" /\ CanMerge
  /\ LET b == buddy_idx(page, high)
     IN /\ free_area' = [k \in Orders |-> dlist_remove_entry(free_area[k], b)]
        /\ in_buddy' = [in_buddy EXCEPT ![b] = FALSE]
        /\ order' = [order EXCEPT ![b] = 0]
        /\ page' = combined_idx(page, b)
  /\ nr_free' = [nr_free EXCEPT ![high] = @ - 1]
  /\ TakeFromTotal(high)
  /\ high' = high + 1
  /\ UNCHANGED <<boot, op, low, pc, request, granted, halted>>

\* The end of _buddy_free_pages: the block goes to the head of its list.
free_return ==
  /\ op = "merge" /\ ~CanMerge
  /\ in_buddy' = [in_buddy EXCEPT ![page] = TRUE]
  /\ order' = [order EXCEPT ![page] = high]
  /\ free_area' = [free_area EXCEPT ![high] = dlist_add_next(@, page)]
  /\ nr_free' = [nr_free EXCEPT ![high] = @ + 1]
  /\ nr_free_pages' = nr_free_pages + Pow2[high]
  /\ Unlock
  /\ UNCHANGED <<boot, pc, request, granted, halted>>

Next ==
  \/ buddy_init
  \/ \E c \in Callers :
       \/ \E n \in Requests : pmm_alloc_pages(c, n)
       \/ buddy_alloc_pages(c)
       \/ alloc_return(c)
       \/ \E p \in Pages : pmm_free_pages(c, p)
  \/ buddy_split
  \/ merge \/ free_return

Spec == Init /\ [][Next]_vars

-----------------------------------------------------------------------------
(* Properties.                                                             *)

\* Frames and orders stay in range (page_t, free_area_t, the loops' locals).
TypeOK ==
  /\ free_area \in [Orders -> Seq(Pages)]
  /\ nr_free \in [Orders -> Nat]
  /\ in_buddy \in [Pages -> BOOLEAN]
  /\ order \in [Pages -> Orders]
  /\ nr_free_pages \in Int
  /\ boot \in 0 .. NrPages
  /\ op \in {"none", "split", "merge"}
  /\ op # "none" => page \in Pages
  /\ high \in Orders /\ low \in Orders
  /\ op = "split" => low <= high
  /\ pc \in [Callers -> {"idle", "checked", "locked"}]
  /\ request \in [Callers -> Nat]
  /\ granted \in [Pages -> Orders \union {NotHeld}]
  /\ halted \in BOOLEAN

\* The block under the allocator's hands, the handed-out ones, the free ones.
InHand(p) == op # "none" /\ page = p
Heads == {p \in Pages : in_buddy[p] \/ granted[p] # NotHeld \/ InHand(p)}
OrderOf(p) ==
  IF InHand(p) THEN high ELSE IF granted[p] # NotHeld THEN granted[p] ELSE order[p]

\* A frame is free, handed out or in hand, never two of these.
OneRole ==
  \A p \in Pages :
    /\ ~(in_buddy[p] /\ granted[p] # NotHeld)
    /\ ~(in_buddy[p] /\ InHand(p))
    /\ ~(granted[p] # NotHeld /\ InHand(p))

\* Blocks do not overlap: no frame is handed out twice, or handed out while a
\* free list holds it, whatever is split and merged in between.
BlocksDisjoint ==
  OneRole /\ \A p, q \in Heads : p < q => p + Pow2[OrderOf(p)] <= q

Covers(p, x) == p <= x /\ x < p + Pow2[OrderOf(p)]

\* No frame leaks and none is invented: every usable frame that _buddy_init
\* has reached lies in a block, and blocks are made of such frames only.
PagesConserved ==
  /\ \A x \in Usable : x < boot => \E p \in Heads : Covers(p, x)
  /\ \A p \in Heads : p .. p + Pow2[OrderOf(p)] - 1 \subseteq Usable \cap 0 .. boot - 1

\* page->in_buddy and page->order, which _buddy_page_is_buddy trusts, say
\* exactly which free list a frame heads a block on, once; nr_free counts it.
FlagsMatchLists ==
  /\ \A k \in Orders : nr_free[k] = Len(free_area[k]) /\ IsDistinct(free_area[k])
  /\ \A k \in Orders, p \in Pages :
       InList(free_area[k], p) <=> in_buddy[p] /\ order[p] = k

\* pmm_free_pages finds in page->order the order it granted.
OrderKept == \A p \in Pages : granted[p] # NotHeld => order[p] = granted[p]

\* The inductive invariant.
IInv == TypeOK /\ BlocksDisjoint /\ PagesConserved /\ FlagsMatchLists /\ OrderKept

\* kmem.nr_free_pages, which pmm_alloc_pages checks without the lock, is the
\* number of pages on the free lists whenever the lock is free.
TotalMatchesLists ==
  op = "none" =>
    nr_free_pages = SumFunction([k \in Orders |-> nr_free[k] * Pow2[k]])

\* Outside the allocator no two free buddies of one order are left unmerged.
BuddiesMerged ==
  op = "none" =>
    \A k \in 0 .. MM_MAX_ORDER - 2 : \A p \in Pages :
      in_buddy[p] /\ order[p] = k => ~buddy_page_is_buddy(buddy_idx(p, k), k)

\* The block of order k at p is one of the largest made of usable frames.
IsLargest(p, k) ==
  /\ p % Pow2[k] = 0
  /\ p .. p + Pow2[k] - 1 \subseteq Usable
  /\ k < MM_MAX_ORDER - 1 =>
       LET q == p - (p % Pow2[k + 1])
       IN ~(q .. q + Pow2[k + 1] - 1 \subseteq Usable)

\* What the boot self-test of kernel_main (main.c:157-169) allocates and frees
\* leaves no trace: with nothing handed out, the free lists hold exactly the
\* largest blocks, whatever the order of the calls was.
RestoredWhenAllFree ==
  Booted /\ op = "none" /\ (\A p \in Pages : granted[p] = NotHeld) =>
    \A p \in Pages, k \in Orders : in_buddy[p] /\ order[p] = k <=> IsLargest(p, k)

\* No sequence of splits and merges fragments memory for good: free buddies are
\* always merged again, so that all memory given back is what it was at boot.
FullyCoalesced == BuddiesMerged /\ RestoredWhenAllFree
=============================================================================
