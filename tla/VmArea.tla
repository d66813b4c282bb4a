------------------------------ MODULE VmArea -------------------------------
(***************************************************************************)
(* Address spaces: kernel/src/mm/vmalloc.c with the parts of vmm.c and     *)
(* ptm.c that map and unmap an area's pages.                               *)
(*                                                                         *)
(* Addresses and sizes are numbers below Wrap, in units of which PageSize  *)
(* make a page: an area may start anywhere in a page, but its size is      *)
(* rounded up to whole pages.  An operation on a task's mm runs between    *)
(* mm_switch_save and mm_switch_restore (or under sched_lock), that is,    *)
(* with interrupts off, and is one step.                                   *)
(***************************************************************************)
EXTENDS Integers, Sequences, SequencesExt, FiniteSetsExt

CONSTANTS
  Spaces,      \* the mm_struct_t of different tasks
  First,       \* the one that exists at the start
  Start, End,  \* mm_get_vmarea_start and mm_get_vmarea_end
  Wrap,        \* 2^64: where uptr arithmetic wraps
  PageSize,    \* PAGE_SIZE
  Sizes,       \* sizes asked for; a negative int of sys_vmalloc is one just below Wrap
  FixedPtrs,   \* addresses asked for: by ELF segments, by sys_vmalloc(ptr, _)
  MaxAreas     \* bound: so many areas at most, in all spaces, when one is asked for

ASSUME VmAreaAssumption ==
  /\ First \in Spaces
  /\ PageSize \in Nat \ {0} /\ Start \in Nat \ {0} /\ End \in Nat /\ Wrap \in Nat
  /\ Start % PageSize = 0 /\ Wrap % PageSize = 0
  /\ Start < End /\ End + Start <= Wrap
  /\ Sizes \subseteq 1 .. Wrap - 1
  /\ FixedPtrs \subseteq 1 .. Wrap - 1
  /\ MaxAreas \in Nat

VARIABLES
  live,    \* the spaces in use, between mm_create and mm_free
  areas,   \* mm->vm_area_head, head first: vm_start and vm_end of each area
  mapped,  \* the pages with a present pte
  fixed,   \* ghost: the spaces with areas that were asked for at an address
  halted   \* "no", or what stopped the kernel

vars == <<live, areas, mapped, fixed, halted>>

Area(s, e) == [start |-> s, end |-> e]
PageOf(x) == x \div PageSize

\* The pages that vmm_vmap maps: one for each PAGE_SIZE of the area, from the
\* page of its start on; none if the end of the area has wrapped.
PagesOf(a) == PageOf(a.start) .. PageOf(a.start) + (a.end - a.start) \div PageSize - 1
PagesIn(list) == UNION {PagesOf(a) : a \in ToSet(list)}

\* The pages that the addresses of an area lie in: one more if it does not start
\* at a page.
Reached(a) == IF a.start < a.end THEN PageOf(a.start) .. PageOf(a.end - 1) ELSE {}

Init ==
  /\ live = {First}
  /\ areas = [m \in Spaces |-> <<>>]
  /\ mapped = [m \in Spaces |-> {}]
  /\ fixed = {}
  /\ halted = "no"

-----------------------------------------------------------------------------
(* mm_find_vm_area.                                                        *)

\* Mutant: the end of an area is taken to be inclusive.
Overlaps_touching(a, s, e) ==
  \/ a.start <= s /\ a.end >= s
  \/ a.start < e /\ a.end >= e
  \/ s >= a.start /\ e <= a.end

\* When the range s .. e-1 asked for is taken to be allocated already.
Overlaps(a, s, e) ==
  \/ a.start <= s /\ a.end > s
  \/ a.start < e /\ a.end >= e
  \/ s >= a.start /\ e <= a.end

\* va_end >= mm_get_vmarea_end(flags).
BeyondEnd(e) == e >= End

\* At a given address, not null: behind the last area, or NoRoom.
NoRoom == -1
FindFixed(list, ptr, size) ==
  LET e == (ptr + size) % Wrap
  IN IF BeyondEnd(e) \/ \E a \in ToSet(list) : Overlaps(a, ptr, e) THEN NoRoom ELSE Len(list)

\* The area right behind the i-th one, or at the start of the space.
Behind(list, i, size) ==
  LET s == IF i = 0 THEN Start ELSE list[i].end IN Area(s, (s + size) % Wrap)

\* The caves that seem large enough: the difference of two uptr wraps.
Caves(list, size) ==
  {i \in 1 .. Len(list) - 1 : (list[i + 1].start - list[i].end) % Wrap >= size}

\* va_end > vm_area_end->vm_start is refused.
CaveHolds(list, i, size) == (list[i].end + size) % Wrap <= list[i + 1].start

\* Mutant: the search ends with the first area instead of the last one.
TailOf_first(list) == IF list = <<>> THEN 0 ELSE 1

\* vmlist->prev: behind which area the search ends.
TailOf(list) == Len(list)

\* Anywhere: behind which area the new one goes, the first with a cave behind
\* it or else the last; NoRoom when a cave proves too small or the limit is hit.
FindFree(list, size) ==
  LET caves == Caves(list, size)
      i == Min(caves)
      last == TailOf(list)
  IN IF caves # {}
     THEN IF CaveHolds(list, i, size) THEN i ELSE NoRoom
     ELSE IF BeyondEnd(Behind(list, last, size).end) THEN NoRoom ELSE last

\* Behind which area the new one goes, and where it lies.
Position(list, ptr, size) ==
  IF ptr = 0 THEN FindFree(list, size) ELSE FindFixed(list, ptr, size)

NewArea(list, i, ptr, size) ==
  IF ptr = 0 THEN Behind(list, i, size) ELSE Area(ptr, (ptr + size) % Wrap)

\* PAGE_ALIGN_UP_IF, whose sum wraps: the sizes of the last page become 0.
AlignUp(size) == (((size + PageSize - 1) \div PageSize) * PageSize) % Wrap

\* vmalloc refuses sizes that are not below the start of the space.
TooLarge(size) == size >= Start

-----------------------------------------------------------------------------
Live == halted = "no"

\* vmalloc(mm, ptr, size), ptr = 0 for null: vmm_vmap of the new area; ptm_map_pages
\* panics on a page that is mapped already.
vmalloc(m, ptr, asked) ==
  LET size == AlignUp(asked)
      i == Position(areas[m], ptr, size)
      a == NewArea(areas[m], i, ptr, size)
  IN /\ Live /\ m \in live
     /\ ~TooLarge(size) /\ i # NoRoom
     /\ Cardinality(UNION {{n} \X DOMAIN areas[n] : n \in Spaces}) < MaxAreas
     /\ areas' = [areas EXCEPT ![m] = InsertAt(@, i + 1, a)]
     /\ mapped' = [mapped EXCEPT ![m] = @ \union PagesOf(a)]
     /\ halted' = IF PagesOf(a) \cap mapped[m] # {} THEN "pte exists" ELSE "no"
     /\ fixed' = IF ptr = 0 THEN fixed ELSE fixed \union {m}
     /\ UNCHANGED live

\* Mutant: only the first page of an area is unmapped.
Unmapped_first(a) == {PageOf(a.start)}

\* The pages vmm_vunmap clears.
Unmapped(a) == PagesOf(a)

\* vfree: mm_get_vm_area removes the area that starts at ptr; when there is
\* none the null vm_area is dereferenced.
vfree(m, ptr) ==
  LET hits == {i \in DOMAIN areas[m] : areas[m][i].start = ptr}
  IN /\ Live /\ m \in live
     /\ \/ /\ hits = {}
           /\ halted' = "null area"
           /\ UNCHANGED <<areas, mapped>>
        \/ \E i \in hits :
             /\ \A j \in hits : i <= j
             /\ areas' = [areas EXCEPT ![m] = RemoveAt(@, i)]
             /\ mapped' = [mapped EXCEPT ![m] = @ \ Unmapped(areas[m][i])]
             /\ halted' = IF PagesOf(areas[m][i]) \subseteq mapped[m]
                          THEN "no" ELSE "no pte"
     /\ UNCHANGED <<live, fixed>>

\* One round of mm_copy: vmalloc at the parent's address in the child's space, whose
\* list is done.list, and the bytes, copied through both page tables.  why is "no"
\* as long as all goes well.
CopyArea(m, a, done) ==
  LET size == (a.end - a.start) % Wrap
      i == Position(done.list, a.start, AlignUp(size))
      new == NewArea(done.list, i, a.start, AlignUp(size))
      list == InsertAt(done.list, i + 1, new)
  IN IF done.why # "no" THEN done
     ELSE IF size = 0 \/ TooLarge(AlignUp(size)) \/ i = NoRoom THEN [done EXCEPT !.why = "null"]
     ELSE IF PagesOf(new) \cap PagesIn(done.list) # {} THEN [done EXCEPT !.why = "pte exists"]
     ELSE IF ~(Reached(a) \subseteq mapped[m] \cap PagesIn(list))
          THEN [done EXCEPT !.why = "page fault"]
     ELSE [list |-> list, why |-> "no"]

\* The loop over the parent's areas, in list order.
CopyAreas(m) ==
  LET done[k \in 0 .. Len(areas[m])] ==
        IF k = 0 THEN [list |-> <<>>, why |-> "no"] ELSE CopyArea(m, areas[m][k], done[k - 1])
  IN done[Len(areas[m])]

\* mm_copy, for a fork; if a vmalloc fails the copy is given up with mm_free.
mm_copy(m, n) ==
  LET done == CopyAreas(m)
  IN /\ Live /\ m \in live /\ n \notin live
     /\ \/ /\ done.why = "no"
           /\ live' = live \union {n}
           /\ areas' = [areas EXCEPT ![n] = done.list]
           /\ mapped' = [mapped EXCEPT ![n] = PagesIn(done.list)]
           /\ fixed' = IF m \in fixed THEN fixed \union {n} ELSE fixed
           /\ UNCHANGED halted
        \/ /\ done.why \in {"pte exists", "page fault"}
           /\ halted' = done.why
           /\ UNCHANGED <<live, areas, mapped, fixed>>

\* The loop of mm_replace and mm_free: unmap and drop every area.
DropAll(m) ==
  /\ areas' = [areas EXCEPT ![m] = <<>>]
  /\ fixed' = fixed \ {m}
  /\ mapped' = [mapped EXCEPT ![m] = @ \ UNION {Unmapped(a) : a \in ToSet(areas[m])}]
  /\ halted' = IF PagesIn(areas[m]) \subseteq mapped[m] THEN "no" ELSE "no pte"

\* mm_replace, for an execve.
mm_replace(m) == Live /\ m \in live /\ DropAll(m) /\ UNCHANGED live

\* mm_free, when the task is reaped.
mm_free(m) == Live /\ m \in live /\ DropAll(m) /\ live' = live \ {m}

Next ==
  \E m \in Spaces :
    \/ \E p \in FixedPtrs \union {0}, n \in Sizes : vmalloc(m, p, n)
    \/ \E p \in 0 .. Wrap - 1 : vfree(m, p)
    \/ \E n \in Spaces : mm_copy(m, n)
    \/ mm_replace(m)
    \/ mm_free(m)

Spec == Init /\ [][Next]_vars

-----------------------------------------------------------------------------
(* Properties.                                                             *)

\* The areas of a space are disjoint, inside it and sorted by address, which the
\* search for a cave between neighbours and for room behind the last area relies
\* on: mm_find_vm_area returns no range that is allocated already.  This is so as
\* long as no area is asked for at an address: such a range goes to the tail of
\* the list, and one that encloses an area passes the tests of Overlaps.
AreasDisjoint ==
  \A m \in Spaces \ fixed :
    /\ \A a \in ToSet(areas[m]) : Start <= a.start /\ a.start <= a.end /\ a.end < End
    /\ \A i, j \in DOMAIN areas[m] : i < j => areas[m][i].end <= areas[m][j].start

Aligned(a) == a.start % PageSize = 0

\* Through vmalloc, vfree, execve, fork and exit, in any order, exactly the pages
\* that vmm_vmap has mapped for the areas of a space are mapped in it: nothing
\* leaks, and ptm_unmap_pages never misses a pte.  These are the pages the areas
\* reach, if all start at a page; an area that does not ends in a page that may
\* not be mapped.
MappedExactly ==
  /\ halted # "no pte"
  /\ Live => \A m \in Spaces :
       /\ mapped[m] = PagesIn(areas[m])
       /\ (\A a \in ToSet(areas[m]) : Aligned(a))
            => mapped[m] = UNION {Reached(a) : a \in ToSet(areas[m])}

\* A fork never fails for want of address space and never faults, and the child
\* has its parent's areas, in the same order: sched_fork returns 0 to the parent,
\* as if it were the child, if mm_copy fails.  This takes areas that start at a
\* page, lie in the space and are not empty.
ForkCopies ==
  Live => \A m \in live :
    (\A a \in ToSet(areas[m]) : Aligned(a) /\ 0 < a.start /\ a.start < a.end /\ a.end < End)
      => CopyAreas(m) = [list |-> areas[m], why |-> "no"]
=============================================================================
