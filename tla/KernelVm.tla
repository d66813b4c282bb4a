------------------------------ MODULE KernelVm ------------------------------
(***************************************************************************)
(* The kernel's own areas: vmalloc(null, ...) and vfree(null, ...) of      *)
(* kernel/src/mm/vmalloc.c, with the page tables (mm/ptm.c) of the high    *)
(* half that all address spaces share.                                     *)
(*                                                                         *)
(* Unlike the operations of VmArea these may run with interrupts on (the   *)
(* listings that ramfs_iterate and fat32_iterate make in a system call     *)
(* outgrow a slab object) as well as off (sched_fork, sched_execve,        *)
(* sched_wait, _sched_do_execve): the area is found or taken off under     *)
(* k_vmlist_lock, and its pages are mapped or unmapped one by one after    *)
(* the lock is released.  The first-fit search is that of VmArea.          *)
(*                                                                         *)
(* These areas are never asked for at an address, so that all start and    *)
(* end at a page: here a unit of addresses and sizes is a page.            *)
(*                                                                         *)
(* A page table has one level below the PML4 here: what ptm.c allocates    *)
(* further below hangs from the same PML4 entry.                           *)
(***************************************************************************)
EXTENDS VmArea

CONSTANTS
  KTasks, KFirst,  \* tasks, each with an address space of its own
  KRoot,           \* pml4_root, the address space the kernel starts with
  PerEntry,        \* pages that one PML4 entry maps
  None

ASSUME KernelVmAssumption ==
  /\ KFirst \in KTasks /\ KRoot \notin KTasks /\ None \notin KTasks \union {KRoot}
  /\ None \notin (KTasks \union {KRoot}) \X Int
  /\ PerEntry \in Nat \ {0}

Entries == {p \div PerEntry : p \in Start .. End}

VARIABLES
  kspaces,    \* the address spaces there are
  page_dir,   \* per address space: the table of each PML4 entry, or None
  ptes,       \* the present ptes: the table and the page of each
  k_vmlist,   \* the areas, head first
  k_vmlist_lock, \* who holds it, or None
  krunning,   \* the task that has the processor
  kirq,       \* per task: are interrupts on in its call?
  kpc,        \* per task: where it is in its call
  karea,      \* per task: what of its area is still to be mapped or unmapped
  returned,   \* the areas that vmalloc has returned and vfree not been given
  panicked

kvmVars == <<kspaces, page_dir, ptes, k_vmlist, k_vmlist_lock, krunning, kirq, kpc, karea,
             returned, panicked>>

NoArea == Area(0, 0)
KPagesOf(a) == a.start .. a.end - 1

\* Mutant: the entry of the last pages is left to be made when it is needed.
prepare_hh_init_short(i) == IF i = Max(Entries) THEN None ELSE <<KRoot, i>>

\* _prepare_hh_init: every PML4 entry of the high half gets its table at boot.
prepare_hh_init(i) == <<KRoot, i>>

\* mm_create: a copy of the high half of pml4_root.
mm_create == page_dir[KRoot]

KvmInit ==
  /\ kspaces = {KRoot, KFirst}
  /\ page_dir = [s \in KTasks \union {KRoot} |->
                   [i \in Entries |-> IF s \in {KRoot, KFirst} THEN prepare_hh_init(i) ELSE None]]
  /\ ptes = {}
  /\ k_vmlist = <<>> /\ k_vmlist_lock = None
  /\ krunning = KFirst
  /\ kirq = [t \in KTasks |-> TRUE]
  /\ kpc = [t \in KTasks |-> "out"]
  /\ karea = [t \in KTasks |-> NoArea]
  /\ returned = {} /\ panicked = FALSE

-----------------------------------------------------------------------------
(* Page tables.                                                            *)

\* ptm_alloc_pml4es and those below it, for page p in space s: they also see to
\* the entry of the page behind it (pointer <= end).
ptm_alloc_pml4es(s, p) ==
  [i \in Entries |-> IF page_dir[s][i] = None /\ i \in {p \div PerEntry, (p + 1) \div PerEntry}
                     THEN <<s, i>> ELSE page_dir[s][i]]

Pte(s, p) == <<page_dir[s][p \div PerEntry], p>>

\* ptm_map_pages of one page in the space of t; it panics at a pte that is present.
ptm_map_page(t, p) ==
  LET dir == ptm_alloc_pml4es(t, p)
      pte == <<dir[p \div PerEntry], p>>
  IN /\ page_dir' = [page_dir EXCEPT ![t] = dir]
     /\ ptes' = ptes \union {pte}
     /\ panicked' = (pte \in ptes)

\* ptm_unmap_pages of one page; it panics at a pte that is not present.
ptm_unmap_page(t, p) ==
  /\ ptes' = ptes \ {Pte(t, p)}
  /\ panicked' = (Pte(t, p) \notin ptes)
  /\ UNCHANGED page_dir

-----------------------------------------------------------------------------
(* The calls, one step per critical section and per page.                  *)

At(t, where) == ~panicked /\ krunning = t /\ t \in kspaces /\ kpc[t] = where
Goto(t, where) == kpc' = [kpc EXCEPT ![t] = where]

\* vmalloc(null, null, size) up to the lock, called with interrupts on or off.
kvmalloc(t, size, on) ==
  /\ At(t, "out") /\ ~TooLarge(size)
  /\ Goto(t, "alloc")
  /\ karea' = [karea EXCEPT ![t] = Area(0, size)]
  /\ kirq' = [kirq EXCEPT ![t] = on]
  /\ UNCHANGED <<kspaces, page_dir, ptes, k_vmlist, k_vmlist_lock, krunning, returned, panicked>>

\* vfree(null, ptr) of an area somebody was given.
kvfree(t, a, on) ==
  /\ At(t, "out")
  /\ Goto(t, "free")
  /\ karea' = [karea EXCEPT ![t] = a]
  /\ kirq' = [kirq EXCEPT ![t] = on]
  /\ returned' = returned \ {a}
  /\ UNCHANGED <<kspaces, page_dir, ptes, k_vmlist, k_vmlist_lock, krunning, panicked>>

\* spin_lock(&k_vmlist_lock) succeeds.
spin_lock(t) ==
  /\ At(t, "alloc") \/ At(t, "free")
  /\ k_vmlist_lock = None
  /\ k_vmlist_lock' = t
  /\ Goto(t, IF kpc[t] = "alloc" THEN "find" ELSE "take")
  /\ UNCHANGED <<kspaces, page_dir, ptes, k_vmlist, krunning, kirq, karea, returned, panicked>>

Back(t) == Goto(t, "out") /\ kirq' = [kirq EXCEPT ![t] = TRUE]

\* mm_find_vm_area and spin_unlock; null is returned when there is no room.
find_area(t) ==
  LET size == karea[t].end
      i == FindFree(k_vmlist, size)
      a == Behind(k_vmlist, i, size)
  IN /\ At(t, "find")
     /\ k_vmlist_lock' = None
     /\ \/ /\ i = NoRoom
           /\ Back(t)
           /\ karea' = [karea EXCEPT ![t] = NoArea]
           /\ UNCHANGED k_vmlist
        \/ /\ i # NoRoom
           /\ Goto(t, "map")
           /\ k_vmlist' = InsertAt(k_vmlist, i + 1, a)
           /\ karea' = [karea EXCEPT ![t] = a]
           /\ UNCHANGED kirq
     /\ UNCHANGED <<kspaces, page_dir, ptes, krunning, returned, panicked>>

\* mm_get_vm_area, which takes off the first area that starts at the address, and
\* spin_unlock.
take_area(t) ==
  LET hits == {i \in DOMAIN k_vmlist : k_vmlist[i].start = karea[t].start}
  IN /\ At(t, "take")
     /\ k_vmlist_lock' = None
     /\ k_vmlist' = RemoveAt(k_vmlist, Min(hits))
     /\ Goto(t, "unmap")
     /\ UNCHANGED <<kspaces, page_dir, ptes, krunning, kirq, karea, returned, panicked>>

\* One turn of the loop of vmm_vmap; vmalloc returns after the last.
vmap_page(t) ==
  LET last == karea[t].start + 1 = karea[t].end
      whole == CHOOSE a \in ToSet(k_vmlist) : a.end = karea[t].end
  IN /\ At(t, "map")
     /\ ptm_map_page(t, karea[t].start)
     /\ karea' = [karea EXCEPT ![t] = IF last THEN NoArea ELSE Area(@.start + 1, @.end)]
     /\ \/ last /\ Back(t) /\ returned' = returned \union {whole}
        \/ ~last /\ UNCHANGED <<kpc, kirq, returned>>
     /\ UNCHANGED <<kspaces, k_vmlist, k_vmlist_lock, krunning>>

\* One turn of the loop of vmm_vunmap; vfree returns after the last.
vunmap_page(t) ==
  LET last == karea[t].start + 1 = karea[t].end
  IN /\ At(t, "unmap")
     /\ ptm_unmap_page(t, karea[t].start)
     /\ karea' = [karea EXCEPT ![t] = IF last THEN NoArea ELSE Area(@.start + 1, @.end)]
     /\ \/ last /\ Back(t)
        \/ ~last /\ UNCHANGED <<kpc, kirq>>
     /\ UNCHANGED <<kspaces, k_vmlist, k_vmlist_lock, krunning, returned>>

\* A task makes another one, with mm_create.
new_space(t, n) ==
  /\ At(t, "out") /\ n \notin kspaces
  /\ kspaces' = kspaces \union {n}
  /\ page_dir' = [page_dir EXCEPT ![n] = mm_create]
  /\ UNCHANGED <<ptes, k_vmlist, k_vmlist_lock, krunning, kirq, kpc, karea, returned, panicked>>

\* The space of a task that has ended is given up: mm_free.
drop_space(t, n) ==
  /\ At(t, "out") /\ n \in kspaces \ {t, KRoot} /\ kpc[n] = "out"
  /\ kspaces' = kspaces \ {n}
  /\ page_dir' = [page_dir EXCEPT ![n] = [i \in Entries |-> None]]
  /\ UNCHANGED <<ptes, k_vmlist, k_vmlist_lock, krunning, kirq, kpc, karea, returned, panicked>>

\* The timer interrupt gives the processor to n.
preempt(n) ==
  /\ ~panicked /\ kirq[krunning] /\ n \in kspaces \ {krunning, KRoot}
  /\ krunning' = n
  /\ UNCHANGED <<kspaces, page_dir, ptes, k_vmlist, k_vmlist_lock, kirq, kpc, karea, returned, panicked>>

KvmNext ==
  \E t \in KTasks :
    \/ \E on \in BOOLEAN : \/ \E size \in Sizes : kvmalloc(t, size, on)
                           \/ \E a \in returned : kvfree(t, a, on)
    \/ spin_lock(t) \/ find_area(t) \/ take_area(t) \/ vmap_page(t) \/ vunmap_page(t)
    \/ preempt(t)
    \/ \E n \in KTasks : new_space(t, n) \/ drop_space(t, n)

KvmSpec == KvmInit /\ [][KvmNext]_kvmVars

-----------------------------------------------------------------------------
(* Properties.                                                             *)

\* An area that vmalloc has returned is on the list and mapped in every address
\* space, made before or after it and by whichever task, because all share the
\* tables that _prepare_hh_init made; and no page stays mapped behind an area
\* that is gone.  A kernel stack is used in any address space.
KernelAreasSeen ==
  ~panicked =>
    /\ \A a \in returned :
         /\ a \in ToSet(k_vmlist)
         /\ \A s \in kspaces, p \in KPagesOf(a) : Pte(s, p) \in ptes
    /\ \A pte \in ptes :
         \/ \E a \in ToSet(k_vmlist) : pte[2] \in KPagesOf(a)
         \/ \E t \in KTasks : kpc[t] = "unmap" /\ pte[2] \in KPagesOf(karea[t])

\* ptm_map_pages and ptm_unmap_pages panic in one case only: vfree was
\* interrupted between taking its area off the list and unmapping it, and the
\* range has been given out again.
PanicsInWindowOnly ==
  panicked =>
    \E t \in KTasks \ {krunning} :
      /\ kpc[t] = "unmap" /\ kirq[t]
      /\ \E a \in ToSet(k_vmlist) : KPagesOf(a) \cap KPagesOf(karea[t]) # {}
=============================================================================
