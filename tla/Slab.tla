-------------------------------- MODULE Slab --------------------------------
(***************************************************************************)
(* The slab allocator, kernel/src/mm/vmm.c, and kmalloc on top of it,      *)
(* kernel/src/mm/kmalloc.c.                                                *)
(*                                                                         *)
(* A slab is a block of pages that begins with a header (slab_t) and holds *)
(* objects of one size; a pointer does not say which slab it came from, so *)
(* slab_free finds it by its address.  slab_lock is taken with interrupts  *)
(* off: an operation is one step.  Requests that are too large for a slab  *)
(* get a range from vmalloc, and the vm_area_t that describes the range is *)
(* a slab object itself.                                                   *)
(***************************************************************************)
EXTENDS Integers, Sequences, FiniteSets, SequencesExt

CONSTANTS
  PageSize,    \* PAGE_SIZE
  Word,        \* the granularity of kmalloc, 8
  Header,      \* sizeof(slab_t)
  ObjSize,     \* the caches of slab_size_list, in order: sizes of objects
  CachePages,  \*   and pages in a slab
  NrPages,     \* pages of memory that slabs may get
  VmPages,     \* pages of vmalloc's address space, which lies apart
  AreaSize,    \* sizeof(vm_area_t)
  Sizes,       \* the sizes that callers ask for
  Null

Caches == 1 .. Len(ObjSize)
Pages == 0 .. NrPages - 1

ASSUME SlabAssumption ==
  /\ PageSize \in Nat \ {0} /\ Header \in 1 .. PageSize
  /\ Word \in Nat \ {0} /\ \A c \in Caches : ObjSize[c] % Word = 0
  /\ NrPages \in Nat /\ VmPages \in Nat
  /\ ObjSize \in Seq(Nat \ {0}) /\ CachePages \in Seq(Nat \ {0})
  /\ Len(CachePages) = Len(ObjSize)
  /\ \A c \in Caches : Header + ObjSize[c] <= CachePages[c] * PageSize
  /\ \A c, d \in Caches : c < d => ObjSize[c] < ObjSize[d]
  /\ AreaSize \in Nat \ {0} /\ \E c \in Caches : AreaSize <= ObjSize[c]
  /\ Sizes \subseteq Nat
  /\ Null \notin Int

VARIABLES
  cache,    \* the caches on cache_cache_head: slabs, head first, and counters
  used,     \* pages the page allocator has handed out
  areas,    \* vmalloc's ranges: start, pages and the vm_area_t
  granted,  \* ghost: what callers hold: address and size
  reply,    \* what the last kmalloc of at most SLAB_ALLOC_MAX_SIZE returned
  halted    \* panic: no memory

vars == <<cache, used, areas, granted, reply, halted>>

SLAB_ALLOC_MAX_SIZE == ObjSize[Len(ObjSize)]

-----------------------------------------------------------------------------
(* Slabs.                                                                  *)

\* slab_create: the number of objects in a slab of cache c.
ObjCount(c) == (CachePages[c] * PageSize - Header) \div ObjSize[c]

\* The objects of a slab at s_mem, in the order they are linked.
ObjsAt(c, s_mem) == [i \in 1 .. ObjCount(c) |-> s_mem + (i - 1) * ObjSize[c]]

\* slab_create on the pages from page p on.
slab_create(c, p) ==
  [s_mem |-> p * PageSize + Header, size |-> CachePages[c] * PageSize,
   free_objects |-> ObjCount(c), free_list |-> ObjsAt(c, p * PageSize + Header)]

Block(c, p) == p .. p + CachePages[c] - 1

\* vmm_alloc_pages: the first pages of the blocks it may return.
FreeBlocks(c) == {p \in Pages : Block(c, p) \subseteq Pages \ used}

\* slab_cache_growth with the pages from page p on.
slab_cache_growth(r, c, p) ==
  [slabs |-> <<slab_create(c, p)>> \o r.slabs,
   free_objects |-> r.free_objects + ObjCount(c),
   total_objects |-> r.total_objects + ObjCount(c)]

\* slab_init: a cache with one slab.
NewCache == [slabs |-> <<>>, free_objects |-> 0, total_objects |-> 0]

\* The positions of the slabs of r with free objects.
HaveFree(r) == {i \in 1 .. Len(r.slabs) : r.slabs[i].free_objects > 0}
First(S) == CHOOSE i \in S : \A j \in S : i <= j

\* slab_cache_alloc on slab i.
TakeObject(r, i) ==
  [r EXCEPT !.slabs[i].free_list = Tail(@), !.slabs[i].free_objects = @ - 1,
            !.free_objects = @ - 1]

\* slab_cache_alloc: cache, address and pages; p is where it grows if it must.
slab_cache_alloc(c, p) ==
  LET full == cache[c].free_objects = 0
      r == IF full THEN slab_cache_growth(cache[c], c, p) ELSE cache[c]
      S == HaveFree(r)
      pages == IF full THEN Block(c, p) ELSE {}
  IN IF S = {} THEN [cache |-> r, ptr |-> Null, pages |-> pages]
     ELSE [cache |-> TakeObject(r, First(S)),
           ptr |-> Head(r.slabs[First(S)].free_list), pages |-> pages]

\* Mutant: the end of the range counts.
InRange_end(s, ptr) == s.s_mem <= ptr /\ ptr <= s.s_mem + s.size

\* slab_cache_free: does ptr belong to slab s?
InRange(s, ptr) == s.s_mem <= ptr /\ ptr < s.s_mem + s.size

Holds(c, ptr) == {i \in 1 .. Len(cache[c].slabs) : InRange(cache[c].slabs[i], ptr)}

\* The caches in which slab_free finds ptr.
Found(ptr) == {c \in Caches : Holds(c, ptr) # {}}

\* slab_cache_free on slab i.
PutObject(r, i, ptr) ==
  [r EXCEPT !.slabs[i].free_list = <<ptr>> \o @, !.slabs[i].free_objects = @ + 1,
            !.free_objects = @ + 1]

\* slab_free: the caches after it, unchanged if ptr is in none.
slab_free(ptr) ==
  LET c == First(Found(ptr))
  IN IF Found(ptr) = {} THEN cache
     ELSE [cache EXCEPT ![c] = PutObject(@, First(Holds(c, ptr)), ptr)]

-----------------------------------------------------------------------------
(* kmalloc and kfree.                                                      *)

\* slab_alloc: the first cache with large enough objects.
CacheFor(size) == First({c \in Caches : size <= ObjSize[c]})

\* Does the cache for size have an object or room to grow?
Serves(size) ==
  cache[CacheFor(size)].free_objects > 0 \/ FreeBlocks(CacheFor(size)) # {}

\* The results of slab_alloc(size), one for each block the cache may grow by.
slab_alloc(size) ==
  LET c == CacheFor(size)
  IN IF cache[c].free_objects > 0 THEN {slab_cache_alloc(c, 0)}
     ELSE {slab_cache_alloc(c, p) : p \in FreeBlocks(c)}

\* slab_init: one cache after the other gets its first slab; there is memory.
Init ==
  /\ \E base \in [Caches -> Pages] :
       /\ \A c \in Caches : Block(c, base[c]) \subseteq Pages
       /\ \A c, d \in Caches : c # d => Block(c, base[c]) \cap Block(d, base[d]) = {}
       /\ cache = [c \in Caches |-> slab_cache_growth(NewCache, c, base[c])]
       /\ used = UNION {Block(c, base[c]) : c \in Caches}
  /\ areas = {} /\ granted = {} /\ reply = 0 /\ halted = FALSE

\* Mutant: rounded down.
RoundUp_down(size) == (size \div Word) * Word

\* size_up: a multiple of the word.
RoundUp(size) == IF size % Word = 0 THEN size ELSE ((size + Word) \div Word) * Word

\* Is the request served by a slab?
IsSmall(size) == size <= SLAB_ALLOC_MAX_SIZE /\ RoundUp(size) <= SLAB_ALLOC_MAX_SIZE

\* kmalloc of a size that a slab holds.
kmalloc(size) ==
  /\ ~halted /\ 0 < size /\ IsSmall(size) /\ Serves(RoundUp(size))
  /\ \E a \in slab_alloc(RoundUp(size)) :
       /\ cache' = [cache EXCEPT ![CacheFor(RoundUp(size))] = a.cache]
       /\ used' = used \union a.pages
       /\ reply' = a.ptr
       /\ granted' = IF a.ptr = Null THEN granted
                     ELSE granted \union {[ptr |-> a.ptr, size |-> size]}
  /\ UNCHANGED <<areas, halted>>

\* vmalloc: the ranges of n pages that it may return.  Its address space is
\* not next to the direct mapping where slabs are.
VmStart == NrPages + 1
VmBlock(v, n) == v .. v + n - 1
VmFree(n) ==
  {v \in VmStart .. VmStart + VmPages - n :
     \A x \in areas : VmBlock(v, n) \cap VmBlock(x.page, x.n) = {}}

\* SIZE_TO_PAGE(PAGE_ALIGN_UP_IF(size)).
ToPages(size) == (size + PageSize - 1) \div PageSize

\* kmalloc of a larger size, which vmalloc serves; if it has no range left it
\* returns null and nothing changes.
kmalloc_large(size) ==
  LET n == ToPages(size) IN
  /\ ~halted /\ 0 < size /\ ~IsSmall(size) /\ Serves(AreaSize)
  /\ \E v \in VmFree(n), a \in slab_alloc(AreaSize) :
       /\ cache' = [cache EXCEPT ![CacheFor(AreaSize)] = a.cache]
       /\ used' = used \union a.pages
       /\ areas' = areas \union {[page |-> v, n |-> n, node |-> a.ptr]}
       /\ granted' = granted \union {[ptr |-> v * PageSize, size |-> size],
                                     [ptr |-> a.ptr, size |-> AreaSize]}
  /\ UNCHANGED <<reply, halted>>

\* pmm_alloc_pages panics when the cache cannot grow.
out_of_memory(size) ==
  /\ ~halted /\ size > 0
  /\ ~Serves(IF IsSmall(size) THEN RoundUp(size) ELSE AreaSize)
  /\ halted' = TRUE
  /\ UNCHANGED <<cache, used, areas, granted, reply>>

Nodes == {x.node : x \in areas}

\* kfree of what a caller got from kmalloc.
kfree(g) ==
  /\ ~halted /\ g.ptr \notin Nodes
  /\ IF Found(g.ptr) # {}
     THEN /\ cache' = slab_free(g.ptr)
          /\ granted' = granted \ {g}
          /\ UNCHANGED areas
     ELSE \* vfree
          \E x \in areas :
            /\ g.ptr = x.page * PageSize
            /\ areas' = areas \ {x}
            /\ cache' = slab_free(x.node)
            /\ granted' = granted \ {g, [ptr |-> x.node, size |-> AreaSize]}
  /\ UNCHANGED <<used, reply, halted>>

Next ==
  \/ \E size \in Sizes : kmalloc(size) \/ kmalloc_large(size) \/ out_of_memory(size)
  \/ \E g \in granted : kfree(g)

Spec == Init /\ [][Next]_vars

-----------------------------------------------------------------------------
(* Properties.                                                             *)

Slabs == UNION {Range(cache[c].slabs) : c \in Caches}
Bytes(a, n) == a .. a + n - 1

\* Nothing that kmalloc has handed out overlaps anything else it has handed
\* out, the header of a slab or an object on a free list, and all of it lies in
\* pages that were allocated.
GrantsDisjoint ==
  /\ \A g \in granted : \A x \in Bytes(g.ptr, g.size) :
       x \div PageSize \in used \union UNION {VmBlock(v.page, v.n) : v \in areas}
  /\ \A g, h \in granted : g # h => Bytes(g.ptr, g.size) \cap Bytes(h.ptr, h.size) = {}
  /\ \A g \in granted, s \in Slabs :
       /\ Bytes(g.ptr, g.size) \cap Bytes(s.s_mem - Header, Header) = {}
       /\ \A i \in 1 .. Len(s.free_list) : s.free_list[i] \notin Bytes(g.ptr, g.size)

\* kfree finds the slab an object came from although it looks only at
\* addresses, and an object belongs to its slab for ever: every object of a
\* slab is either once on its free list, and counted there, or handed out.  The
\* counter of a cache, by which slab_cache_alloc decides whether to grow, agrees
\* with those of the slabs, by which it finds an object: a small kmalloc never
\* returns null, which callers would use unchecked.
ObjectsConserved ==
  /\ reply # Null
  /\ \A c \in Caches : \A k \in 1 .. Len(cache[c].slabs) :
       LET s == cache[c].slabs[k]
           objs == Range(ObjsAt(c, s.s_mem))
       IN /\ Range(s.free_list) = objs \ {g.ptr : g \in granted}
          /\ IsInjective(s.free_list)
          /\ s.free_objects = Len(s.free_list)
=============================================================================
