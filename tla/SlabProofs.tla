----------------------------- MODULE SlabProofs -----------------------------
(***************************************************************************)
(* Proofs about Slab, for any list of caches, any page size and any amount *)
(* of memory.                                                              *)
(*                                                                         *)
(* What holds of the caches is stated of a value C of the variable cache,  *)
(* of the pages U they got and of the addresses G that are handed out, so  *)
(* that growing a cache, taking an object and putting one back are lemmas  *)
(* about values, which kmalloc and kfree combine.                          *)
(***************************************************************************)
EXTENDS Slab, FiniteSetTheorems, WellFoundedInduction, TLAPS

SlabRec == [s_mem : Nat, size : Nat, free_objects : Nat, free_list : Seq(Nat)]
CacheRec == [slabs : Seq(SlabRec), free_objects : Nat, total_objects : Nat]

Positions(r) == 1 .. Len(r.slabs)
Objs(c, s) == {s.s_mem + (i - 1) * ObjSize[c] : i \in 1 .. ObjCount(c)}
FreeSet(r) == UNION {Range(r.slabs[k].free_list) : k \in Positions(r)}

\* A slab lies at the start of pages that the page allocator handed out.
Home(c, s, U) ==
  \E p \in Pages :
    /\ s.s_mem = p * PageSize + Header /\ s.size = CachePages[c] * PageSize
    /\ Block(c, p) \subseteq U

\* The ranges by which slab_cache_free tells slabs apart do not overlap.
Before(s, t) == s.s_mem + s.size <= t.s_mem

\* The free list of a slab holds each object that is not handed out, once.
ListOf(c, s, G) ==
  /\ Range(s.free_list) = Objs(c, s) \ G
  /\ IsInjective(s.free_list)
  /\ s.free_objects = Len(s.free_list)

\* The counter of a cache is the number of objects on all its free lists.
Counted(r) == IsFiniteSet(FreeSet(r)) /\ r.free_objects = Cardinality(FreeSet(r))

\* The address ptr is an object of a slab, for at most size bytes.
Fits(C, ptr, size) ==
  \E c \in Caches : \E k \in Positions(C[c]) :
    ptr \in Objs(c, C[c].slabs[k]) /\ size <= ObjSize[c]

\* From C to D no object moves.
Kept(C, D) == \A y : \A m : Fits(C, y, m) => Fits(D, y, m)

SlabInv(C, U, G) ==
  /\ C \in [Caches -> CacheRec]
  /\ U \subseteq Pages
  /\ \A c \in Caches : Counted(C[c])
  /\ \A c \in Caches : \A k \in Positions(C[c]) :
       Home(c, C[c].slabs[k], U) /\ ListOf(c, C[c].slabs[k], G)
  /\ \A c, d \in Caches : \A k \in Positions(C[c]), l \in Positions(C[d]) :
       c # d \/ k # l => \/ Before(C[c].slabs[k], C[d].slabs[l])
                         \/ Before(C[d].slabs[l], C[c].slabs[k])
  /\ \A ptr \in G : ptr \in Nat /\ (Fits(C, ptr, 0) \/ VmStart * PageSize <= ptr)

\* What a caller holds is an object of a slab or the start of a vmalloc range,
\* and no two hold the same address.
GrantInv ==
  /\ \A g \in granted :
       /\ g \in [ptr : Nat, size : Nat \ {0}]
       /\ \/ Fits(cache, g.ptr, g.size)
          \/ \E x \in areas : g.ptr = x.page * PageSize /\ g.size <= x.n * PageSize
  /\ \A g, h \in granted : g.ptr = h.ptr => g = h

\* A vmalloc range has a vm_area_t of its own and overlaps no other.
AreaInv ==
  /\ \A x \in areas :
       /\ x \in [page : Nat, n : Nat \ {0}, node : Nat] /\ VmStart <= x.page
       /\ [ptr |-> x.node, size |-> AreaSize] \in granted
       /\ Fits(cache, x.node, AreaSize)
  /\ \A x, y \in areas :
       x # y => x.node # y.node /\ (x.page + x.n <= y.page \/ y.page + y.n <= x.page)

Ptrs(S) == {g.ptr : g \in S}

SlabIInv == SlabInv(cache, used, Ptrs(granted)) /\ GrantInv /\ AreaInv /\ reply # Null

-----------------------------------------------------------------------------
(* Lists and numbers.                                                      *)

\* A set of numbers that is not empty has a least one, which First returns.
LEMMA FirstOf ==
  ASSUME NEW S \in SUBSET Nat, S # {}
  PROVE  First(S) \in S /\ \A j \in S : First(S) <= j
<1> DEFINE R == {p \in Nat \X Nat : p[1] < p[2]}
<1>1. R = OpToRel(<, Nat)
  BY DEF OpToRel
<1>2. IsWellFoundedOn(R, Nat)
  BY <1>1, NatLessThanWellFounded
<1> HIDE DEF R
<1>3. PICK x \in S : \A y \in S : ~(<<y, x>> \in R)
  BY <1>2, WFMin
<1>4. \A y \in S : ~(y < x)
  BY <1>3 DEF R
<1>5. \E z \in S : \A y \in S : z <= y
  BY <1>3, <1>4
<1> QED BY <1>5 DEF First

\* The head of a free list is taken (slab_cache_alloc).
LEMMA Pop ==
  ASSUME NEW S, NEW s \in Seq(S), Len(s) # 0, IsInjective(s)
  PROVE  /\ Head(s) \in S /\ Head(s) \in Range(s)
         /\ Tail(s) \in Seq(S) /\ Len(Tail(s)) = Len(s) - 1
         /\ IsInjective(Tail(s))
         /\ Range(Tail(s)) = Range(s) \ {Head(s)}
<1> DEFINE t == Tail(s)
<1>1. t \in Seq(S) /\ Len(t) = Len(s) - 1 /\ Len(s) \in Nat \ {0} /\ Head(s) = s[1]
  OBVIOUS
<1>2. \A i \in 1 .. Len(t) : t[i] = s[i + 1]
  OBVIOUS
<1>3. DOMAIN s = 1 .. Len(s) /\ DOMAIN t = 1 .. Len(t)
  BY <1>1
<1> HIDE DEF t
<1>4. IsInjective(t)
  BY <1>1, <1>2, <1>3 DEF IsInjective
<1>5. Head(s) \in S /\ Head(s) \in Range(s)
  BY <1>1, <1>3 DEF Range
<1>6. ASSUME NEW x PROVE x \in Range(t) <=> x \in Range(s) /\ x # Head(s)
  <2>1. ASSUME x \in Range(t) PROVE x \in Range(s) /\ x # Head(s)
    BY <2>1, <1>1, <1>2, <1>3 DEF Range, IsInjective
  <2>2. ASSUME x \in Range(s), x # Head(s) PROVE x \in Range(t)
    <3>1. PICK i \in 1 .. Len(s) : s[i] = x
      BY <2>2, <1>3 DEF Range
    <3>2. i - 1 \in 1 .. Len(t) /\ (i - 1) + 1 = i
      BY <3>1, <2>2, <1>1
    <3> QED BY <3>1, <3>2, <1>2, <1>3 DEF Range
  <2> QED BY <2>1, <2>2
<1> QED BY <1>1, <1>4, <1>5, <1>6 DEF t

\* An object is linked at the head of a free list (slab_cache_free).
LEMMA Push ==
  ASSUME NEW S, NEW s \in Seq(S), NEW x \in S, x \notin Range(s), IsInjective(s)
  PROVE  /\ <<x>> \o s \in Seq(S) /\ Len(<<x>> \o s) = Len(s) + 1
         /\ IsInjective(<<x>> \o s)
         /\ Range(<<x>> \o s) = Range(s) \union {x}
<1> DEFINE t == <<x>> \o s
<1>1. t \in Seq(S) /\ Len(t) = Len(s) + 1 /\ Len(s) \in Nat
  OBVIOUS
<1>2. \A i \in 1 .. Len(t) : t[i] = IF i = 1 THEN x ELSE s[i - 1]
  OBVIOUS
<1>3. \A i \in 1 .. Len(s) : i + 1 \in 1 .. Len(t) /\ t[i + 1] = s[i]
  BY <1>1, <1>2
<1>4. DOMAIN s = 1 .. Len(s) /\ DOMAIN t = 1 .. Len(t)
  BY <1>1
<1> HIDE DEF t
<1>5. IsInjective(t)
  <2> SUFFICES ASSUME NEW i \in 1 .. Len(t), NEW j \in 1 .. Len(t), t[i] = t[j], i < j
               PROVE  FALSE
    BY <1>1, <1>4 DEF IsInjective
  <2>1. j # 1 /\ j - 1 \in 1 .. Len(s) /\ t[j] = s[j - 1]
    BY <1>1, <1>2
  <2>2. CASE i = 1
    BY <2>1, <2>2, <1>1, <1>2, <1>4 DEF Range
  <2>3. CASE i # 1
    <3>1. i - 1 \in 1 .. Len(s) /\ t[i] = s[i - 1]
      BY <2>3, <1>1, <1>2
    <3>2. i - 1 = j - 1
      BY <3>1, <2>1, <1>4 DEF IsInjective
    <3> QED BY <3>2, <1>1
  <2> QED BY <2>2, <2>3
<1>6. ASSUME NEW y PROVE y \in Range(t) <=> y \in Range(s) \/ y = x
  <2>1. ASSUME y \in Range(t) PROVE y \in Range(s) \/ y = x
    <3>1. PICK i \in 1 .. Len(t) : t[i] = y
      BY <2>1, <1>4 DEF Range
    <3>2. i # 1 => i - 1 \in 1 .. Len(s)
      BY <1>1
    <3> QED BY <3>1, <3>2, <1>2, <1>4 DEF Range
  <2>2. ASSUME y \in Range(s) PROVE y \in Range(t)
    BY <2>2, <1>3, <1>4 DEF Range
  <2>3. ASSUME y = x PROVE y \in Range(t)
    BY <2>3, <1>1, <1>2, <1>4 DEF Range
  <2> QED BY <2>1, <2>2, <2>3
<1> QED BY <1>1, <1>5, <1>6 DEF t

\* slab_create divides what the header leaves of the pages.
LEMMA CacheSizes ==
  ASSUME NEW c \in Caches
  PROVE  /\ ObjSize[c] \in Nat \ {0} /\ CachePages[c] \in Nat \ {0}
         /\ ObjCount(c) \in Nat \ {0} /\ CachePages[c] * PageSize \in Nat
         /\ ObjCount(c) * ObjSize[c] + Header <= CachePages[c] * PageSize
         /\ PageSize \in Nat \ {0} /\ Header \in Nat \ {0} /\ Header <= PageSize
<1>1. /\ ObjSize[c] \in Nat \ {0} /\ CachePages[c] \in Nat \ {0}
      /\ PageSize \in Nat \ {0} /\ Header \in Nat \ {0} /\ Header <= PageSize
  <2>1. PageSize \in Nat \ {0} /\ Header \in 1 .. PageSize
    BY SlabAssumption
  <2>2. ObjSize[c] \in Nat \ {0} /\ CachePages[c] \in Nat \ {0}
    BY SlabAssumption DEF Caches
  <2> QED BY <2>1, <2>2
<1>2. PICK o \in Nat \ {0} : o = ObjSize[c]
  BY <1>1
<1>3. PICK z \in Nat : z = CachePages[c] * PageSize
  <2>1. \A a, b \in Nat : a * b \in Nat
    OBVIOUS
  <2> QED BY <1>1, <2>1
<1>4. Header + o <= z
  BY <1>2, <1>3, SlabAssumption
<1>5. PICK r \in Nat : r = z - Header /\ o <= r
  BY <1>1, <1>3, <1>4
<1>6. r \div o \in Nat \ {0} /\ (r \div o) * o <= r
  <2>1. PICK q \in Nat, m \in 0 .. o - 1 : r = q * o + m /\ r \div o = q
    BY ONLY r \in Nat, o \in Nat \ {0}
  <2>2. q # 0
    <3>1. 0 * o = 0
      OBVIOUS
    <3> QED BY <2>1, <3>1, <1>5
  <2>3. q * o \in Nat
    OBVIOUS
  <2> QED BY <2>1, <2>2, <2>3
<1>7. ObjCount(c) = r \div o
  BY <1>2, <1>3, <1>5 DEF ObjCount
<1>8. (r \div o) * o \in Int
  BY <1>6
<1> QED BY <1>1, <1>2, <1>3, <1>5, <1>6, <1>7, <1>8

\* Objects lie behind the header, inside the pages, and apart.
LEMMA ObjPlace ==
  ASSUME NEW c \in Caches, NEW s, s.s_mem \in Nat
  PROVE  /\ \A x \in Objs(c, s) :
              /\ x \in Nat /\ s.s_mem <= x
              /\ x + ObjSize[c] + Header <= s.s_mem + CachePages[c] * PageSize
         /\ \A x, y \in Objs(c, s) : x < y => x + ObjSize[c] <= y
<1>1. PICK o \in Nat \ {0}, n \in Nat \ {0}, z \in Nat, b \in Nat :
        o = ObjSize[c] /\ n = ObjCount(c) /\ z = CachePages[c] * PageSize /\ b = s.s_mem
  BY CacheSizes
<1>2. n * o + Header <= z /\ Header \in Nat
  BY <1>1, CacheSizes
<1>3. \A x : x \in Objs(c, s) <=> \E i \in 1 .. n : x = b + (i - 1) * o
  BY <1>1 DEF Objs
<1>4. ASSUME NEW i \in 1 .. n PROVE (i - 1) * o \in Nat /\ (i - 1) * o + o <= n * o
  <2>1. \A u, v \in Nat : u <= v => u * o <= v * o
    OBVIOUS
  <2>2. i \in Nat /\ i <= n /\ i * o = (i - 1) * o + o /\ i - 1 \in Nat
    OBVIOUS
  <2>3. i * o <= n * o
    BY <2>1, <2>2
  <2>4. \A u \in Nat : u * o \in Nat
    OBVIOUS
  <2> QED BY <2>2, <2>3, <2>4
<1>5. n * o \in Nat
  OBVIOUS
<1>6. ASSUME NEW x \in Objs(c, s) PROVE x \in Nat /\ b <= x /\ x + o + Header <= b + z
  BY <1>2, <1>3, <1>4, <1>5
<1>7. ASSUME NEW x \in Objs(c, s), NEW y \in Objs(c, s), x < y PROVE x + o <= y
  <2>1. PICK i \in 1 .. n : x = b + (i - 1) * o
    BY <1>3
  <2>2. PICK j \in 1 .. n : y = b + (j - 1) * o
    BY <1>3
  <2>3. PICK u \in Nat, v \in Nat : u = i - 1 /\ v = j - 1
    OBVIOUS
  <2>4. u * o < v * o
    BY <1>4, <1>7, <2>1, <2>2, <2>3
  <2>5. \A l, m \in Nat : l * o < m * o => l * o + o <= m * o
    OBVIOUS
  <2>6. u * o + o <= v * o
    BY <2>4, <2>5
  <2> QED BY <2>1, <2>2, <2>3, <2>6, <1>4
<1> QED BY <1>1, <1>6, <1>7

\* A list without repetitions has as many members as entries.
LEMMA CountList ==
  ASSUME NEW S, NEW s \in Seq(S), IsInjective(s)
  PROVE  IsFiniteSet(Range(s)) /\ Cardinality(Range(s)) = Len(s)
<1>1. DOMAIN s = 1 .. Len(s) /\ Len(s) \in Nat /\ s = [i \in 1 .. Len(s) |-> s[i]]
  OBVIOUS
<1>2. s \in [1 .. Len(s) -> Range(s)]
  BY <1>1 DEF Range
<1>3. s \in Surjection(1 .. Len(s), Range(s))
  BY <1>1, <1>2 DEF Surjection, Range
<1>4. s \in Injection(1 .. Len(s), Range(s))
  BY <1>1, <1>2 DEF Injection, IsInjective
<1>5. IsFiniteSet(1 .. Len(s)) /\ Cardinality(1 .. Len(s)) = Len(s)
  <2>1. PICK n \in Nat : n = Len(s)
    BY <1>1
  <2>2. IsFiniteSet(1 .. n) /\ Cardinality(1 .. n) = IF 1 > n THEN 0 ELSE n - 1 + 1
    BY FS_Interval
  <2>3. Cardinality(1 .. n) = n
    BY <2>2
  <2> QED BY <2>1, <2>2, <2>3
<1> QED BY <1>3, <1>4, <1>5, FS_Surjection

\* A new slab has all its objects on its free list.
LEMMA NewSlab ==
  ASSUME NEW c \in Caches, NEW p \in Pages, NEW s, s = slab_create(c, p)
  PROVE  /\ s \in SlabRec /\ s.s_mem = p * PageSize + Header
         /\ s.size = CachePages[c] * PageSize
         /\ s.free_objects = Len(s.free_list) /\ Len(s.free_list) = ObjCount(c)
         /\ IsInjective(s.free_list) /\ Range(s.free_list) = Objs(c, s)
<1>1. p \in Nat
  BY SlabAssumption DEF Pages
<1>2. PICK b \in Nat : b = p * PageSize + Header
  <2>1. \A u, v \in Nat : u * v \in Nat
    OBVIOUS
  <2>2. p * PageSize \in Nat /\ Header \in Nat
    BY <1>1, <2>1, CacheSizes
  <2> QED BY <2>2
<1>3. PICK f : f = ObjsAt(c, b)
  OBVIOUS
<1>4. /\ s = [s_mem |-> b, size |-> CachePages[c] * PageSize,
              free_objects |-> ObjCount(c), free_list |-> f]
  BY <1>2, <1>3 DEF slab_create
<1>5. s.s_mem = b /\ s.free_list = f /\ s.free_objects = ObjCount(c)
      /\ s.size = CachePages[c] * PageSize
  BY <1>4
<1>6. PICK n \in Nat, o \in Nat \ {0} : n = ObjCount(c) /\ o = ObjSize[c]
  BY CacheSizes
<1>7. f = [i \in 1 .. n |-> b + (i - 1) * o]
  BY <1>3, <1>6 DEF ObjsAt
<1>8. \A i \in 1 .. n : f[i] = b + (i - 1) * o /\ f[i] \in Objs(c, s)
  BY <1>5, <1>6, <1>7 DEF Objs
<1>9. \A i \in 1 .. n : f[i] \in Nat
  BY <1>5, <1>8, ObjPlace
<1>10. f \in Seq(Nat) /\ Len(f) = n /\ DOMAIN f = 1 .. n
  BY <1>7, <1>9
<1>11. IsInjective(f)
  <2> SUFFICES ASSUME NEW i \in 1 .. n, NEW j \in 1 .. n, f[i] = f[j] PROVE i = j
    BY <1>10 DEF IsInjective
  <2>1. PICK u \in Nat, v \in Nat : u = i - 1 /\ v = j - 1
    OBVIOUS
  <2>2. u * o = v * o
    <3>1. u * o \in Nat /\ v * o \in Nat
      OBVIOUS
    <3> QED BY <3>1, <2>1, <1>8
  <2>3. \A l, m \in Nat : l * o = m * o => l = m
    OBVIOUS
  <2>4. u = v
    BY <2>2, <2>3
  <2> QED BY <2>1, <2>4
<1>12. Range(f) = Objs(c, s)
  BY <1>5, <1>6, <1>8, <1>10 DEF Range, Objs
<1>13. s \in SlabRec
  BY <1>4, <1>6, <1>10, CacheSizes DEF SlabRec
<1> QED BY <1>2, <1>5, <1>6, <1>10, <1>11, <1>12, <1>13

\* Pages that are apart hold addresses that are apart.
LEMMA PagesApart ==
  ASSUME NEW p \in Nat, NEW q \in Nat, NEW m \in Nat \ {0}, NEW n \in Nat \ {0},
         (p .. p + m - 1) \cap (q .. q + n - 1) = {}
  PROVE  p + m <= q \/ q + n <= p
<1>1. CASE p <= q
  <2>1. q \in q .. q + n - 1
    OBVIOUS
  <2>2. q \notin p .. p + m - 1
    BY <2>1
  <2> QED BY <1>1, <2>2
<1>2. CASE q <= p
  <2>1. p \in p .. p + m - 1
    OBVIOUS
  <2>2. p \notin q .. q + n - 1
    BY <2>1
  <2> QED BY <1>2, <2>2
<1> QED BY <1>1, <1>2

LEMMA HomesApart ==
  ASSUME NEW c \in Caches, NEW d \in Caches, NEW s, NEW t, NEW U,
         Home(d, t, U), NEW p \in Pages, Block(c, p) \cap U = {},
         s.s_mem = p * PageSize + Header, s.size = CachePages[c] * PageSize
  PROVE  Before(s, t) \/ Before(t, s)
<1>1. PICK q \in Pages : /\ t.s_mem = q * PageSize + Header /\ t.size = CachePages[d] * PageSize
                         /\ Block(d, q) \subseteq U
  BY DEF Home
<1>2. PICK P \in Nat, m \in Nat \ {0}, n \in Nat \ {0} :
        P = PageSize /\ m = CachePages[c] /\ n = CachePages[d]
  BY CacheSizes
<1>3. p \in Nat /\ q \in Nat
  BY SlabAssumption DEF Pages
<1>4. p + m <= q \/ q + n <= p
  <2>1. (p .. p + m - 1) \cap (q .. q + n - 1) = {}
    BY <1>1, <1>2 DEF Block
  <2> QED BY <2>1, <1>3, PagesApart
<1>5. \A u, v, w \in Nat : u + v <= w => u * P + v * P <= w * P
  <2> SUFFICES ASSUME NEW u \in Nat, NEW v \in Nat, NEW w \in Nat, u + v <= w
               PROVE  u * P + v * P <= w * P
    OBVIOUS
  <2>1. \A k, l \in Nat : k <= l => k * P <= l * P
    OBVIOUS
  <2>2. (u + v) * P <= w * P /\ (u + v) * P = u * P + v * P
    BY <2>1
  <2> QED BY <2>2
<1>6. p * P + m * P <= q * P \/ q * P + n * P <= p * P
  BY <1>3, <1>4, <1>5
<1>7. p * P \in Nat /\ q * P \in Nat /\ m * P \in Nat /\ n * P \in Nat
  BY <1>3
<1>8. Header \in Nat
  BY CacheSizes
<1>9. /\ s.s_mem = p * P + Header /\ s.size = m * P
      /\ t.s_mem = q * P + Header /\ t.size = n * P
  BY <1>1, <1>2
<1> QED BY <1>6, <1>7, <1>8, <1>9 DEF Before

\* Slabs end below the addresses of vmalloc, the range slab_cache_free looks at
\* included, which goes on for the size of a header behind the last page.
LEMMA SlabBelow ==
  ASSUME NEW c \in Caches, NEW s, NEW U, U \subseteq Pages, Home(c, s, U)
  PROVE  /\ s.s_mem \in Nat /\ s.size \in Nat /\ s.size = CachePages[c] * PageSize
         /\ s.s_mem + s.size <= VmStart * PageSize
         /\ VmStart * PageSize \in Nat
<1>1. PICK p \in Pages : /\ s.s_mem = p * PageSize + Header /\ s.size = CachePages[c] * PageSize
                         /\ Block(c, p) \subseteq U
  BY DEF Home
<1>2. PICK P \in Nat, m \in Nat \ {0}, H \in Nat, N \in Nat :
        P = PageSize /\ m = CachePages[c] /\ H = Header /\ H <= P /\ N = NrPages
  BY CacheSizes, SlabAssumption
<1>3. p \in Nat
  BY SlabAssumption DEF Pages
<1>4. p + m <= N
  <2>1. p + m - 1 \in p .. p + m - 1
    BY <1>3
  <2>2. p + m - 1 \in 0 .. N - 1
    BY <2>1, <1>1, <1>2 DEF Block, Pages
  <2> QED BY <2>2, <1>3
<1>5. p * P + m * P <= N * P
  <2>1. \A k, l \in Nat : k <= l => k * P <= l * P
    OBVIOUS
  <2>2. (p + m) * P <= N * P /\ (p + m) * P = p * P + m * P
    BY <2>1, <1>3, <1>4
  <2> QED BY <2>2
<1>6. p * P \in Nat /\ m * P \in Nat /\ N * P \in Nat /\ (N + 1) * P = N * P + P
  BY <1>3
<1>7. VmStart * PageSize = (N + 1) * P
  BY <1>2 DEF VmStart
<1>8. s.s_mem = p * P + H /\ s.size = m * P
  BY <1>1, <1>2
<1> QED BY <1>1, <1>2, <1>5, <1>6, <1>7, <1>8

\* An object is in the range of its own slab, and not in that of another.
LEMMA ObjInRange ==
  ASSUME NEW c \in Caches, NEW s, NEW U, U \subseteq Pages, Home(c, s, U), NEW x \in Objs(c, s)
  PROVE  /\ x \in Nat /\ InRange(s, x)
         /\ x + ObjSize[c] + Header <= s.s_mem + s.size
         /\ x + ObjSize[c] + Header <= VmStart * PageSize
         /\ \A t : t.s_mem \in Nat /\ t.size \in Nat /\ (Before(s, t) \/ Before(t, s))
                 => ~InRange(t, x)
<1>1. /\ s.s_mem \in Nat /\ s.size \in Nat /\ s.size = CachePages[c] * PageSize
      /\ s.s_mem + s.size <= VmStart * PageSize /\ VmStart * PageSize \in Nat
  BY SlabBelow
<1>2. x \in Nat /\ s.s_mem <= x /\ x + ObjSize[c] + Header <= s.s_mem + s.size
  BY <1>1, ObjPlace
<1>3. ObjSize[c] \in Nat \ {0} /\ Header \in Nat \ {0}
  BY CacheSizes
<1>4. InRange(s, x)
  BY <1>1, <1>2, <1>3 DEF InRange
<1>5. ASSUME NEW t, t.s_mem \in Nat, t.size \in Nat, Before(s, t) \/ Before(t, s)
      PROVE  ~InRange(t, x)
  BY <1>1, <1>2, <1>3, <1>5 DEF InRange, Before
<1>6. x + ObjSize[c] + Header <= VmStart * PageSize
  BY <1>1, <1>2, <1>3
<1> QED BY <1>2, <1>4, <1>5, <1>6

\* What SlabInv says of one slab.
LEMMA SlabAt ==
  ASSUME NEW C, NEW U, NEW G, SlabInv(C, U, G), NEW c \in Caches, NEW k \in Positions(C[c])
  PROVE  /\ C[c] \in CacheRec /\ C[c].slabs \in Seq(SlabRec) /\ Len(C[c].slabs) \in Nat
         /\ C[c].free_objects \in Nat /\ C[c].total_objects \in Nat
         /\ C[c].slabs[k] \in SlabRec
         /\ C[c].slabs[k].s_mem \in Nat /\ C[c].slabs[k].size \in Nat
         /\ C[c].slabs[k].free_objects \in Nat /\ C[c].slabs[k].free_list \in Seq(Nat)
         /\ Home(c, C[c].slabs[k], U) /\ ListOf(c, C[c].slabs[k], G)
<1>1. C[c] \in CacheRec
  BY DEF SlabInv
<1>2. C[c].slabs \in Seq(SlabRec) /\ C[c].free_objects \in Nat /\ C[c].total_objects \in Nat
  BY <1>1 DEF CacheRec
<1>3. C[c].slabs[k] \in SlabRec /\ Len(C[c].slabs) \in Nat
  BY <1>2 DEF Positions
<1>4. PICK s \in SlabRec : s = C[c].slabs[k]
  BY <1>3
<1>5. s.s_mem \in Nat /\ s.size \in Nat /\ s.free_objects \in Nat /\ s.free_list \in Seq(Nat)
  BY DEF SlabRec
<1>6. Home(c, C[c].slabs[k], U) /\ ListOf(c, C[c].slabs[k], G)
  BY DEF SlabInv
<1> QED BY <1>1, <1>2, <1>3, <1>4, <1>5, <1>6

-----------------------------------------------------------------------------
(* The caches: growing, taking an object, putting one back.                *)

\* An object is in no other slab than its own.
LEMMA ObjElsewhere ==
  ASSUME NEW C, NEW U, NEW G, SlabInv(C, U, G), NEW c \in Caches, NEW k \in Positions(C[c]),
         NEW x \in Objs(c, C[c].slabs[k]),
         NEW d \in Caches, NEW l \in Positions(C[d]), c # d \/ k # l
  PROVE  x \notin Objs(d, C[d].slabs[l]) /\ ~InRange(C[d].slabs[l], x)
<1>1. U \subseteq Pages
  BY DEF SlabInv
<1>2. Before(C[c].slabs[k], C[d].slabs[l]) \/ Before(C[d].slabs[l], C[c].slabs[k])
  BY DEF SlabInv
<1>3. Home(c, C[c].slabs[k], U) /\ Home(d, C[d].slabs[l], U)
      /\ C[d].slabs[l].s_mem \in Nat /\ C[d].slabs[l].size \in Nat
  BY SlabAt
<1>4. ~InRange(C[d].slabs[l], x)
  BY <1>1, <1>2, <1>3, ObjInRange
<1>5. x \notin Objs(d, C[d].slabs[l])
  BY <1>1, <1>3, <1>4, ObjInRange
<1> QED BY <1>4, <1>5

\* From C to D, slab k of cache c becomes t, which lies where it was.
Relisted(C, D, c, k, t) ==
  /\ D \in [Caches -> CacheRec] /\ \A d \in Caches : d # c => D[d] = C[d]
  /\ Counted(D[c]) /\ Positions(D[c]) = Positions(C[c])
  /\ \A l \in Positions(C[c]) : l # k => D[c].slabs[l] = C[c].slabs[l]
  /\ D[c].slabs[k] = t /\ t.s_mem = C[c].slabs[k].s_mem /\ t.size = C[c].slabs[k].size

SameBut(G, H, x) == G \ {x} = H \ {x}

\* One slab gets another free list, from which only x comes or goes.
LEMMA Relist ==
  ASSUME NEW C, NEW U, NEW G, SlabInv(C, U, G), NEW c \in Caches, NEW k \in Positions(C[c]),
         NEW D, NEW t, Relisted(C, D, c, k, t),
         NEW H, ListOf(c, t, H), NEW x \in Objs(c, t), SameBut(G, H, x)
  PROVE  /\ SlabInv(D, U, H)
         /\ Kept(C, D)
<1> USE DEF Relisted, SameBut
<1>1. U \subseteq Pages
  BY DEF SlabInv
<1>5. \A d \in Caches : Positions(D[d]) = Positions(C[d])
  OBVIOUS
<1>7. \A d \in Caches : \A l \in Positions(C[d]) :
        IF d = c /\ l = k THEN D[d].slabs[l] = t ELSE D[d].slabs[l] = C[d].slabs[l]
  OBVIOUS
<1>8. \A d \in Caches : \A l \in Positions(C[d]) :
        /\ D[d].slabs[l].s_mem = C[d].slabs[l].s_mem
        /\ D[d].slabs[l].size = C[d].slabs[l].size
  BY <1>7
<1>9. \A d \in Caches : Counted(D[d])
  BY DEF SlabInv
<1>10. ASSUME NEW d \in Caches, NEW l \in Positions(D[d])
       PROVE  Home(d, D[d].slabs[l], U) /\ ListOf(d, D[d].slabs[l], H)
  <2>1. Home(d, C[d].slabs[l], U) /\ ListOf(d, C[d].slabs[l], G)
    BY <1>5, SlabAt
  <2>2. Home(d, D[d].slabs[l], U)
    BY <2>1, <1>5, <1>8 DEF Home
  <2>3. CASE d = c /\ l = k
    BY <2>2, <2>3, <1>5, <1>7
  <2>4. CASE ~(d = c /\ l = k)
    <3>1. Objs(c, t) = Objs(c, C[c].slabs[k])
      BY DEF Objs
    <3>2. x \notin Objs(d, C[d].slabs[l])
      BY <2>4, <3>1, <1>5, ObjElsewhere
    <3>3. Objs(d, C[d].slabs[l]) \ G = Objs(d, C[d].slabs[l]) \ H
      BY <3>2
    <3>4. ListOf(d, C[d].slabs[l], H)
      BY <2>1, <3>3 DEF ListOf
    <3> QED BY <2>2, <2>4, <3>4, <1>5, <1>7
  <2> QED BY <2>3, <2>4
<1>11. ASSUME NEW d \in Caches, NEW e \in Caches,
              NEW l \in Positions(D[d]), NEW m \in Positions(D[e]),
              d # e \/ l # m
       PROVE  Before(D[d].slabs[l], D[e].slabs[m]) \/ Before(D[e].slabs[m], D[d].slabs[l])
  <2>1. Before(C[d].slabs[l], C[e].slabs[m]) \/ Before(C[e].slabs[m], C[d].slabs[l])
    BY <1>5, <1>11 DEF SlabInv
  <2> QED BY <2>1, <1>5, <1>8 DEF Before
<1>12. ASSUME NEW y, NEW m, Fits(C, y, m) PROVE Fits(D, y, m)
  <2>0. PICK d \in Caches : \E l \in Positions(C[d]) :
          y \in Objs(d, C[d].slabs[l]) /\ m <= ObjSize[d]
    BY <1>12 DEF Fits
  <2>1. PICK l \in Positions(C[d]) : y \in Objs(d, C[d].slabs[l]) /\ m <= ObjSize[d]
    BY <2>0
  <2>2. y \in Objs(d, D[d].slabs[l]) /\ l \in Positions(D[d])
    BY <2>1, <1>5, <1>8 DEF Objs
  <2> QED BY <2>1, <2>2 DEF Fits
<1>13. ASSUME NEW y \in H PROVE y \in Nat /\ (Fits(D, y, 0) \/ VmStart * PageSize <= y)
  <2>1. CASE y = x
    <3>1. x \in Objs(c, C[c].slabs[k])
      BY DEF Objs
    <3>2. x \in Nat
      <4>1. Home(c, C[c].slabs[k], U)
        BY SlabAt
      <4> QED BY <3>1, <4>1, <1>1, ObjInRange
    <3>3. 0 <= ObjSize[c]
      BY CacheSizes
    <3>4. Fits(C, x, 0)
      BY <3>1, <3>3 DEF Fits
    <3> QED BY <2>1, <3>2, <3>4, <1>12
  <2>2. CASE y # x
    <3>1. y \in Nat /\ (Fits(C, y, 0) \/ VmStart * PageSize <= y)
      BY <2>2 DEF SlabInv
    <3> QED BY <3>1, <1>12
  <2> QED BY <2>1, <2>2
<1>14. SlabInv(D, U, H)
  BY <1>1, <1>9, <1>10, <1>11, <1>13 DEF SlabInv
<1> QED BY <1>12, <1>14 DEF Kept

\* An update of one slab's list and counter and of the cache's counter.
Update(r, k, F, N, M) ==
  [r EXCEPT !.slabs[k].free_list = F, !.slabs[k].free_objects = N, !.free_objects = M]

LEMMA Updated ==
  ASSUME NEW r \in CacheRec, NEW k \in 1 .. Len(r.slabs), NEW s \in SlabRec, s = r.slabs[k],
         NEW F, NEW N, NEW M, NEW t,
         t = [s_mem |-> s.s_mem, size |-> s.size, free_objects |-> N, free_list |-> F]
  PROVE  Update(r, k, F, N, M)
         = [slabs |-> [r.slabs EXCEPT ![k] = t], free_objects |-> M,
            total_objects |-> r.total_objects]
<1>1. /\ r.slabs \in Seq(SlabRec)
      /\ r = [slabs |-> r.slabs, free_objects |-> r.free_objects,
              total_objects |-> r.total_objects]
  BY DEF CacheRec
<1>2. s = [s_mem |-> s.s_mem, size |-> s.size, free_objects |-> s.free_objects,
           free_list |-> s.free_list]
  BY DEF SlabRec
<1>3. PICK u : u = [s EXCEPT !.free_list = F]
  OBVIOUS
<1>4. u = [s_mem |-> s.s_mem, size |-> s.size, free_objects |-> s.free_objects, free_list |-> F]
  BY <1>2, <1>3
<1>5. t = [u EXCEPT !.free_objects = N]
  BY <1>4
<1>6. PICK q : q = [r EXCEPT !.slabs[k].free_list = F]
  OBVIOUS
<1>7. q = [slabs |-> [r.slabs EXCEPT ![k] = u], free_objects |-> r.free_objects,
           total_objects |-> r.total_objects]
  BY <1>1, <1>3, <1>6
<1>8. q.slabs = [r.slabs EXCEPT ![k] = u] /\ q.slabs[k] = u
  BY <1>1, <1>7
<1>9. [[r.slabs EXCEPT ![k] = u] EXCEPT ![k] = t] = [r.slabs EXCEPT ![k] = t]
  BY <1>1
<1>10. PICK h : h = [r.slabs EXCEPT ![k] = t]
  OBVIOUS
<1>11. PICK v : v = [q EXCEPT !.slabs[k].free_objects = N]
  OBVIOUS
<1>12. v = [slabs |-> h, free_objects |-> r.free_objects, total_objects |-> r.total_objects]
  <2>1. v = [q EXCEPT !.slabs = [q.slabs EXCEPT ![k] = t]]
    BY <1>5, <1>8, <1>11
  <2>2. v = [q EXCEPT !.slabs = h]
    BY <1>8, <1>9, <1>10, <2>1
  <2> QED BY <1>7, <2>2
<1>13. [v EXCEPT !.free_objects = M]
       = [slabs |-> h, free_objects |-> M, total_objects |-> r.total_objects]
  BY <1>12
<1> QED BY <1>6, <1>10, <1>11, <1>13 DEF Update

FirstFree(r, k) == Head(r.slabs[k].free_list)
TakeFrom(C, c, k) == [C EXCEPT ![c] = TakeObject(C[c], k)]

\* slab_cache_alloc takes an object that nobody holds off the free list of slab k.
LEMMA Take ==
  ASSUME NEW C, NEW U, NEW G, SlabInv(C, U, G), NEW c \in Caches, NEW k \in HaveFree(C[c]),
         NEW x, x = FirstFree(C[c], k), NEW D, D = TakeFrom(C, c, k)
  PROVE  /\ SlabInv(D, U, G \union {x}) /\ x \in Nat /\ x \notin G
         /\ \A m : m <= ObjSize[c] => Fits(D, x, m)
         /\ Kept(C, D)
<1>1. k \in Positions(C[c]) /\ C[c].slabs[k].free_objects > 0
  BY DEF HaveFree, Positions
<1>2. PICK r \in CacheRec, s \in SlabRec : r = C[c] /\ s = C[c].slabs[k]
  BY <1>1, SlabAt
<1>3. /\ s.s_mem \in Nat /\ s.size \in Nat /\ s.free_objects \in Nat /\ s.free_list \in Seq(Nat)
      /\ r.slabs \in Seq(SlabRec) /\ r.free_objects \in Nat /\ r.total_objects \in Nat
      /\ Len(r.slabs) \in Nat /\ ListOf(c, s, G)
  BY <1>1, <1>2, SlabAt
<1>4. PICK t : t = [s_mem |-> s.s_mem, size |-> s.size, free_objects |-> s.free_objects - 1,
                    free_list |-> Tail(s.free_list)]
  OBVIOUS
<1>5. PICK w : w = TakeObject(r, k)
  OBVIOUS
<1>6. w = [slabs |-> [r.slabs EXCEPT ![k] = t], free_objects |-> r.free_objects - 1,
           total_objects |-> r.total_objects]
  <2>1. PICK F, N, M : F = Tail(s.free_list) /\ N = s.free_objects - 1 /\ M = r.free_objects - 1
    OBVIOUS
  <2>2. w = Update(r, k, F, N, M)
    BY <1>2, <1>5, <2>1 DEF TakeObject, Update
  <2>3. k \in 1 .. Len(r.slabs) /\ s = r.slabs[k]
    BY <1>1, <1>2 DEF Positions
  <2>4. t = [s_mem |-> s.s_mem, size |-> s.size, free_objects |-> N, free_list |-> F]
    BY <1>4, <2>1
  <2>5. w = [slabs |-> [r.slabs EXCEPT ![k] = t], free_objects |-> M,
             total_objects |-> r.total_objects]
    BY <2>2, <2>3, <2>4, Updated
  <2> QED BY <2>1, <2>5
<1>7. Len(s.free_list) # 0 /\ IsInjective(s.free_list) /\ s.free_objects = Len(s.free_list)
      /\ Range(s.free_list) = Objs(c, s) \ G
  BY <1>1, <1>2, <1>3 DEF ListOf
<1>8. /\ x \in Nat /\ x \in Range(s.free_list)
      /\ Tail(s.free_list) \in Seq(Nat) /\ Len(Tail(s.free_list)) = Len(s.free_list) - 1
      /\ IsInjective(Tail(s.free_list))
      /\ Range(Tail(s.free_list)) = Range(s.free_list) \ {x}
  BY <1>2, <1>3, <1>7, Pop DEF FirstFree
<1>9. x \in Objs(c, s) /\ x \notin G
  BY <1>7, <1>8
<1>10. t \in SlabRec
  <2>1. s.free_objects - 1 \in Nat
    BY <1>1, <1>2, <1>3
  <2> QED BY <2>1, <1>3, <1>4, <1>8 DEF SlabRec
<1>11. Objs(c, t) = Objs(c, s)
  BY <1>4 DEF Objs
<1>12. ListOf(c, t, G \union {x})
  BY <1>4, <1>7, <1>8, <1>11 DEF ListOf
<1>13. w.slabs[k] = t /\ Positions(w) = Positions(r)
       /\ \A l \in Positions(r) : l # k => w.slabs[l] = r.slabs[l]
  BY <1>1, <1>2, <1>3, <1>6 DEF Positions
<1>14. ASSUME NEW l \in Positions(r), l # k PROVE x \notin Range(r.slabs[l].free_list)
  <2>1. x \notin Objs(c, r.slabs[l])
    BY <1>1, <1>2, <1>9, <1>14, ObjElsewhere
  <2>2. ListOf(c, r.slabs[l], G)
    BY <1>2, SlabAt
  <2> QED BY <2>1, <2>2 DEF ListOf
<1>15. FreeSet(w) = FreeSet(r) \ {x}
  <2>1. t.free_list = Tail(s.free_list)
    BY <1>4
  <2>2. \A l \in Positions(r) : Range(w.slabs[l].free_list) = Range(r.slabs[l].free_list) \ {x}
    BY <2>1, <1>2, <1>8, <1>13, <1>14
  <2> QED BY <2>2, <1>13 DEF FreeSet
<1>16. x \in FreeSet(r)
  BY <1>1, <1>2, <1>8 DEF FreeSet
<1>17. Counted(r)
  BY <1>2 DEF SlabInv
<1>18. PICK n \in Nat : n = r.free_objects - 1
  <2>1. Cardinality(FreeSet(r)) # 0
    BY <1>16, <1>17, FS_EmptySet DEF Counted
  <2> QED BY <2>1, <1>3, <1>17 DEF Counted
<1>19. Counted(w)
  <2>1. IsFiniteSet(FreeSet(r) \ {x}) /\ Cardinality(FreeSet(r) \ {x}) = Cardinality(FreeSet(r)) - 1
    BY <1>16, <1>17, FS_RemoveElement DEF Counted
  <2>2. w.free_objects = r.free_objects - 1
    BY <1>6
  <2> QED BY <2>1, <2>2, <1>15, <1>17 DEF Counted
<1>20. t.s_mem = C[c].slabs[k].s_mem /\ t.size = C[c].slabs[k].size
  BY <1>2, <1>4
<1>21. w \in CacheRec
  <2>1. w.slabs \in Seq(SlabRec)
    BY <1>1, <1>2, <1>3, <1>6, <1>10 DEF Positions
  <2> QED BY <2>1, <1>3, <1>6, <1>18 DEF CacheRec
<1>22. D \in [Caches -> CacheRec] /\ D[c] = w /\ \A d \in Caches : d # c => D[d] = C[d]
  BY <1>2, <1>5, <1>21 DEF SlabInv, TakeFrom
<1>23. /\ SlabInv(D, U, G \union {x})
       /\ Kept(C, D)
  <2>1. PICK H : H = G \union {x}
    OBVIOUS
  <2>2. SameBut(G, H, x)
    BY <2>1 DEF SameBut
  <2>3. x \in Objs(c, t) /\ ListOf(c, t, H)
    BY <1>9, <1>11, <1>12, <2>1
  <2>4. Relisted(C, D, c, k, t)
    BY <1>2, <1>13, <1>19, <1>20, <1>22 DEF Relisted
  <2>5. SlabInv(D, U, H)
    BY <2>2, <2>3, <2>4, <1>1, Relist
  <2>6. Kept(C, D)
    BY <2>2, <2>3, <2>4, <1>1, Relist
  <2> QED BY <2>1, <2>5, <2>6
<1>24. \A m : m <= ObjSize[c] => Fits(C, x, m)
  BY <1>1, <1>2, <1>9 DEF Fits
<1> QED BY <1>8, <1>9, <1>23, <1>24 DEF Kept

\* slab_cache_free links an object that was handed out to the free list of its slab.
LEMMA Put ==
  ASSUME NEW C, NEW U, NEW G, SlabInv(C, U, G), NEW c \in Caches, NEW k \in Positions(C[c]),
         NEW x \in Objs(c, C[c].slabs[k]), x \in G,
         NEW D, D = [C EXCEPT ![c] = PutObject(C[c], k, x)]
  PROVE  /\ SlabInv(D, U, G \ {x})
         /\ Kept(C, D)
<1>2. PICK r \in CacheRec, s \in SlabRec : r = C[c] /\ s = C[c].slabs[k]
  BY SlabAt
<1>3. /\ s.s_mem \in Nat /\ s.size \in Nat /\ s.free_objects \in Nat /\ s.free_list \in Seq(Nat)
      /\ r.slabs \in Seq(SlabRec) /\ r.free_objects \in Nat /\ r.total_objects \in Nat
      /\ Len(r.slabs) \in Nat /\ ListOf(c, s, G)
  BY <1>2, SlabAt
<1>4. PICK t : t = [s_mem |-> s.s_mem, size |-> s.size, free_objects |-> s.free_objects + 1,
                    free_list |-> <<x>> \o s.free_list]
  OBVIOUS
<1>5. PICK w : w = PutObject(r, k, x)
  OBVIOUS
<1>6. w = [slabs |-> [r.slabs EXCEPT ![k] = t], free_objects |-> r.free_objects + 1,
           total_objects |-> r.total_objects]
  <2>1. PICK F, N, M :
          F = <<x>> \o s.free_list /\ N = s.free_objects + 1 /\ M = r.free_objects + 1
    OBVIOUS
  <2>2. w = Update(r, k, F, N, M)
    BY <1>2, <1>5, <2>1 DEF PutObject, Update
  <2>3. k \in 1 .. Len(r.slabs) /\ s = r.slabs[k]
    BY <1>2 DEF Positions
  <2>4. t = [s_mem |-> s.s_mem, size |-> s.size, free_objects |-> N, free_list |-> F]
    BY <1>4, <2>1
  <2>5. w = [slabs |-> [r.slabs EXCEPT ![k] = t], free_objects |-> M,
             total_objects |-> r.total_objects]
    BY <2>2, <2>3, <2>4, Updated
  <2> QED BY <2>1, <2>5
<1>7. IsInjective(s.free_list) /\ s.free_objects = Len(s.free_list)
      /\ Range(s.free_list) = Objs(c, s) \ G
  BY <1>3 DEF ListOf
<1>8. x \in Nat /\ x \notin Range(s.free_list) /\ x \in Objs(c, s)
  <2>1. x \in Nat
    BY DEF SlabInv
  <2> QED BY <2>1, <1>2, <1>7
<1>9. /\ <<x>> \o s.free_list \in Seq(Nat) /\ Len(<<x>> \o s.free_list) = Len(s.free_list) + 1
      /\ IsInjective(<<x>> \o s.free_list)
      /\ Range(<<x>> \o s.free_list) = Range(s.free_list) \union {x}
  BY <1>3, <1>7, <1>8, Push
<1>10. t \in SlabRec
  <2>1. s.free_objects + 1 \in Nat
    BY <1>3
  <2> QED BY <2>1, <1>3, <1>4, <1>9 DEF SlabRec
<1>11. Objs(c, t) = Objs(c, s)
  BY <1>4 DEF Objs
<1>12. ListOf(c, t, G \ {x})
  <2>1. t.free_list = <<x>> \o s.free_list /\ t.free_objects = Len(t.free_list)
    BY <1>4, <1>7, <1>9
  <2>2. Range(t.free_list) = Objs(c, t) \ (G \ {x})
    BY <2>1, <1>7, <1>8, <1>9, <1>11
  <2> QED BY <2>1, <2>2, <1>9 DEF ListOf
<1>13. w.slabs[k] = t /\ Positions(w) = Positions(r)
       /\ \A l \in Positions(r) : l # k => w.slabs[l] = r.slabs[l]
  BY <1>2, <1>3, <1>6 DEF Positions
<1>14. FreeSet(w) = FreeSet(r) \union {x}
  <2>1. Range(w.slabs[k].free_list) = Range(r.slabs[k].free_list) \union {x}
    BY <1>2, <1>4, <1>9, <1>13
  <2>2. k \in Positions(r)
    BY <1>2
  <2> QED BY <2>1, <2>2, <1>13 DEF FreeSet
<1>15. x \notin FreeSet(r)
  <2> SUFFICES ASSUME NEW l \in Positions(r) PROVE x \notin Range(r.slabs[l].free_list)
    BY DEF FreeSet
  <2>1. CASE l = k
    BY <2>1, <1>2, <1>8
  <2>2. CASE l # k
    <3>1. x \notin Objs(c, r.slabs[l])
      BY <1>2, <2>2, ObjElsewhere
    <3>2. ListOf(c, r.slabs[l], G)
      BY <1>2, SlabAt
    <3> QED BY <3>1, <3>2 DEF ListOf
  <2> QED BY <2>1, <2>2
<1>16. Counted(w)
  <2>1. Counted(r)
    BY <1>2 DEF SlabInv
  <2>2. /\ IsFiniteSet(FreeSet(r) \union {x})
        /\ Cardinality(FreeSet(r) \union {x}) = Cardinality(FreeSet(r)) + 1
    BY <1>15, <2>1, FS_AddElement DEF Counted
  <2>3. w.free_objects = r.free_objects + 1
    BY <1>6
  <2> QED BY <2>1, <2>2, <2>3, <1>14 DEF Counted
<1>17. w \in CacheRec
  <2>1. w.slabs \in Seq(SlabRec)
    BY <1>2, <1>3, <1>6, <1>10 DEF Positions
  <2>2. r.free_objects + 1 \in Nat
    BY <1>3
  <2> QED BY <2>1, <2>2, <1>3, <1>6 DEF CacheRec
<1>18. D \in [Caches -> CacheRec] /\ D[c] = w /\ \A d \in Caches : d # c => D[d] = C[d]
  BY <1>2, <1>5, <1>17 DEF SlabInv
<1>19. t.s_mem = C[c].slabs[k].s_mem /\ t.size = C[c].slabs[k].size
  BY <1>2, <1>4
<1>20. PICK H : H = G \ {x}
  OBVIOUS
<1>21. SameBut(G, H, x)
  BY <1>20 DEF SameBut
<1>22. x \in Objs(c, t) /\ ListOf(c, t, H)
  BY <1>8, <1>11, <1>12, <1>20
<1>23. Relisted(C, D, c, k, t)
  BY <1>2, <1>13, <1>16, <1>18, <1>19 DEF Relisted
<1>24. SlabInv(D, U, H)
  BY <1>21, <1>22, <1>23, Relist
<1>25. Kept(C, D)
  BY <1>21, <1>22, <1>23, Relist
<1> QED BY <1>20, <1>24, <1>25

\* slab_cache_growth adds a slab on pages that nobody has.
LEMMA Grow ==
  ASSUME NEW C, NEW U, NEW G, SlabInv(C, U, G), NEW c \in Caches, NEW p \in Pages,
         Block(c, p) \subseteq Pages \ U,
         NEW D, D = [C EXCEPT ![c] = slab_cache_growth(C[c], c, p)]
  PROVE  /\ SlabInv(D, U \union Block(c, p), G)
         /\ Kept(C, D)
         /\ D[c].free_objects # 0
<1>1. PICK r \in CacheRec : r = C[c]
  BY DEF SlabInv
<1>2. PICK s \in SlabRec : s = slab_create(c, p)
  BY NewSlab
<1>3. /\ s.s_mem = p * PageSize + Header /\ s.size = CachePages[c] * PageSize
      /\ s.free_objects = Len(s.free_list) /\ Len(s.free_list) = ObjCount(c)
      /\ IsInjective(s.free_list) /\ Range(s.free_list) = Objs(c, s)
  BY <1>2, NewSlab
<1>4. s.s_mem \in Nat /\ s.size \in Nat /\ s.free_list \in Seq(Nat)
  BY DEF SlabRec
<1>5. r.slabs \in Seq(SlabRec) /\ r.free_objects \in Nat /\ r.total_objects \in Nat
      /\ Len(r.slabs) \in Nat
  BY DEF CacheRec
<1>6. PICK n \in Nat \ {0} : n = ObjCount(c)
  BY CacheSizes
<1>7. PICK w : w = [slabs |-> <<s>> \o r.slabs, free_objects |-> r.free_objects + n,
                    total_objects |-> r.total_objects + n]
  OBVIOUS
<1>8. /\ w.slabs \in Seq(SlabRec) /\ Len(w.slabs) = Len(r.slabs) + 1
      /\ w.slabs[1] = s /\ \A l \in 1 .. Len(r.slabs) : w.slabs[l + 1] = r.slabs[l]
  <2>1. w.slabs = <<s>> \o r.slabs
    BY <1>7
  <2> QED BY <2>1, <1>5
<1>9. w \in CacheRec
  <2>1. r.free_objects + n \in Nat /\ r.total_objects + n \in Nat
    BY <1>5
  <2> QED BY <2>1, <1>7, <1>8 DEF CacheRec
<1>10. D \in [Caches -> CacheRec] /\ D[c] = w /\ \A d \in Caches : d # c => D[d] = C[d]
  <2>1. slab_cache_growth(C[c], c, p) = w
    BY <1>1, <1>2, <1>6, <1>7 DEF slab_cache_growth
  <2> QED BY <2>1, <1>9 DEF SlabInv
\* Every slab of D is the new one or one of C, and every slab of C is one of D.
<1>11. \A l \in Positions(w) : \/ l = 1 /\ w.slabs[l] = s
                               \/ l - 1 \in Positions(r) /\ w.slabs[l] = r.slabs[l - 1]
  <2> SUFFICES ASSUME NEW l \in Positions(w), l # 1
               PROVE  l - 1 \in Positions(r) /\ w.slabs[l] = r.slabs[l - 1]
    BY <1>8
  <2>1. l - 1 \in 1 .. Len(r.slabs) /\ (l - 1) + 1 = l
    BY <1>5, <1>8 DEF Positions
  <2> QED BY <2>1, <1>8 DEF Positions
<1>12. \A l \in Positions(r) : l + 1 \in Positions(w) /\ w.slabs[l + 1] = r.slabs[l]
  BY <1>5, <1>8 DEF Positions
<1>13. PICK V : V = U \union Block(c, p)
  OBVIOUS
<1>14. U \subseteq Pages /\ V \subseteq Pages /\ Block(c, p) \cap U = {}
  BY <1>13 DEF SlabInv
<1>15. Home(c, s, V)
  BY <1>3, <1>13 DEF Home
<1>16. ASSUME NEW d \in Caches, NEW l \in Positions(C[d])
       PROVE  /\ Home(d, C[d].slabs[l], V) /\ ListOf(d, C[d].slabs[l], G)
              /\ Before(s, C[d].slabs[l]) \/ Before(C[d].slabs[l], s)
  <2>1. Home(d, C[d].slabs[l], U) /\ ListOf(d, C[d].slabs[l], G)
    BY SlabAt
  <2>2. Home(d, C[d].slabs[l], V)
    BY <2>1, <1>13 DEF Home
  <2>3. Before(s, C[d].slabs[l]) \/ Before(C[d].slabs[l], s)
    BY <2>1, <1>3, <1>14, HomesApart
  <2> QED BY <2>1, <2>2, <2>3
<1>17. ASSUME NEW x \in Objs(c, s), NEW d \in Caches, NEW l \in Positions(C[d])
       PROVE  x \notin Objs(d, C[d].slabs[l])
  <2>1. C[d].slabs[l].s_mem \in Nat /\ C[d].slabs[l].size \in Nat
    BY SlabAt
  <2>2. ~InRange(C[d].slabs[l], x)
    BY <2>1, <1>14, <1>15, <1>16, ObjInRange
  <2> QED BY <2>2, <1>14, <1>16, ObjInRange
<1>18. ASSUME NEW x \in Objs(c, s) PROVE x \notin G
  <2>1. ~Fits(C, x, 0)
    BY <1>17 DEF Fits
  <2>2. x + ObjSize[c] + Header <= VmStart * PageSize /\ x \in Nat
    BY <1>14, <1>15, ObjInRange
  <2>3. VmStart * PageSize \in Nat
    BY <1>14, <1>15, SlabBelow
  <2>4. ~(VmStart * PageSize <= x)
    BY <2>2, <2>3, CacheSizes
  <2> QED BY <2>1, <2>4 DEF SlabInv
<1>19. ListOf(c, s, G)
  BY <1>3, <1>18 DEF ListOf
<1>20. \A d \in Caches : \A l \in Positions(D[d]) :
         Home(d, D[d].slabs[l], V) /\ ListOf(d, D[d].slabs[l], G)
  BY <1>1, <1>10, <1>11, <1>15, <1>16, <1>19
<1>21. Counted(w)
  <2>1. FreeSet(w) = FreeSet(r) \union Range(s.free_list)
    <3>1. \A x : x \in FreeSet(w) <=> \E l \in Positions(w) : x \in Range(w.slabs[l].free_list)
      BY DEF FreeSet
    <3>2. \A x : x \in FreeSet(r) <=> \E l \in Positions(r) : x \in Range(r.slabs[l].free_list)
      BY DEF FreeSet
    <3>3. 1 \in Positions(w) /\ w.slabs[1] = s
      BY <1>5, <1>8 DEF Positions
    <3> QED BY <3>1, <3>2, <3>3, <1>11, <1>12
  <2>2. FreeSet(r) \cap Range(s.free_list) = {}
    <3> SUFFICES ASSUME NEW l \in Positions(r), NEW x \in Objs(c, s)
                 PROVE  x \notin Range(r.slabs[l].free_list)
      BY <1>3 DEF FreeSet
    <3>1. x \notin Objs(c, r.slabs[l]) /\ ListOf(c, r.slabs[l], G)
      BY <1>1, <1>16, <1>17
    <3> QED BY <3>1 DEF ListOf
  <2>3. Counted(r)
    BY <1>1 DEF SlabInv
  <2>4. IsFiniteSet(Range(s.free_list)) /\ Cardinality(Range(s.free_list)) = n
    BY <1>3, <1>4, <1>6, CountList
  <2>5. /\ IsFiniteSet(FreeSet(w))
        /\ Cardinality(FreeSet(w)) = Cardinality(FreeSet(r)) + n - Cardinality({})
    BY <2>1, <2>2, <2>3, <2>4, FS_Union DEF Counted
  <2>6. Cardinality(FreeSet(w)) = Cardinality(FreeSet(r)) + n
    <3>1. Cardinality({}) = 0
      BY FS_EmptySet
    <3>2. Cardinality(FreeSet(r)) \in Nat
      BY <2>3, <1>5 DEF Counted
    <3> QED BY <2>5, <3>1, <3>2
  <2>7. w.free_objects = r.free_objects + n
    BY <1>7
  <2> QED BY <2>3, <2>5, <2>6, <2>7 DEF Counted
<1>22. \A d \in Caches : Counted(D[d])
  BY <1>10, <1>21 DEF SlabInv
<1>23. ASSUME NEW d \in Caches, NEW e \in Caches,
              NEW l \in Positions(D[d]), NEW m \in Positions(D[e]),
              d # e \/ l # m
       PROVE  Before(D[d].slabs[l], D[e].slabs[m]) \/ Before(D[e].slabs[m], D[d].slabs[l])
  <2>1. ASSUME NEW a \in Caches, NEW i \in Positions(D[a]), ~(a = c /\ i = 1)
        PROVE  \E j \in Positions(C[a]) : D[a].slabs[i] = C[a].slabs[j]
                                          /\ (IF a = c THEN i = j + 1 ELSE i = j)
    <3>1. CASE a = c
      <4>1. i - 1 \in Positions(r) /\ w.slabs[i] = r.slabs[i - 1]
        BY <2>1, <3>1, <1>10, <1>11
      <4>2. i = (i - 1) + 1
        BY <4>1, <1>5, <3>1, <1>10 DEF Positions
      <4> QED BY <4>1, <4>2, <3>1, <1>1, <1>10
    <3>2. CASE a # c
      BY <3>2, <1>10
    <3> QED BY <3>1, <3>2
  <2>2. CASE d = c /\ l = 1
    <3>1. ~(e = c /\ m = 1)
      BY <2>2, <1>23
    <3>2. PICK j \in Positions(C[e]) : D[e].slabs[m] = C[e].slabs[j]
      BY <3>1, <2>1
    <3>3. D[d].slabs[l] = s
      BY <2>2, <1>8, <1>10
    <3> QED BY <3>2, <3>3, <1>16
  <2>3. CASE e = c /\ m = 1
    <3>1. ~(d = c /\ l = 1)
      BY <2>3, <1>23
    <3>2. PICK j \in Positions(C[d]) : D[d].slabs[l] = C[d].slabs[j]
      BY <3>1, <2>1
    <3>3. D[e].slabs[m] = s
      BY <2>3, <1>8, <1>10
    <3> QED BY <3>2, <3>3, <1>16
  <2>4. CASE ~(d = c /\ l = 1) /\ ~(e = c /\ m = 1)
    <3>1. PICK j \in Positions(C[d]) : D[d].slabs[l] = C[d].slabs[j]
                                       /\ (IF d = c THEN l = j + 1 ELSE l = j)
      BY <2>4, <2>1
    <3>2. PICK i \in Positions(C[e]) : D[e].slabs[m] = C[e].slabs[i]
                                       /\ (IF e = c THEN m = i + 1 ELSE m = i)
      BY <2>4, <2>1
    <3>3. d # e \/ j # i
      BY <1>23, <3>1, <3>2
    <3>4. Before(C[d].slabs[j], C[e].slabs[i]) \/ Before(C[e].slabs[i], C[d].slabs[j])
      BY <3>3 DEF SlabInv
    <3> QED BY <3>1, <3>2, <3>4
  <2> QED BY <2>2, <2>3, <2>4
<1>24. ASSUME NEW y, NEW m, Fits(C, y, m) PROVE Fits(D, y, m)
  <2>1. PICK d \in Caches : \E l \in Positions(C[d]) :
          y \in Objs(d, C[d].slabs[l]) /\ m <= ObjSize[d]
    BY <1>24 DEF Fits
  <2>2. PICK l \in Positions(C[d]) : y \in Objs(d, C[d].slabs[l]) /\ m <= ObjSize[d]
    BY <2>1
  <2>3. PICK i \in Positions(D[d]) : D[d].slabs[i] = C[d].slabs[l]
    BY <1>1, <1>10, <1>12
  <2> QED BY <2>2, <2>3 DEF Fits
<1>25. \A ptr \in G : ptr \in Nat /\ (Fits(D, ptr, 0) \/ VmStart * PageSize <= ptr)
  BY <1>24 DEF SlabInv
<1>26. SlabInv(D, V, G)
  BY <1>10, <1>14, <1>20, <1>22, <1>23, <1>25 DEF SlabInv
<1>27. D[c].free_objects # 0
  <2>1. w.free_objects = r.free_objects + n
    BY <1>7
  <2> QED BY <2>1, <1>5, <1>10
<1> QED BY <1>13, <1>24, <1>26, <1>27 DEF Kept

-----------------------------------------------------------------------------
(* slab_alloc and slab_free.                                               *)

\* The counter of a cache is not zero only if a slab has a free object.
LEMMA CounterRight ==
  ASSUME NEW C, NEW U, NEW G, SlabInv(C, U, G), NEW c \in Caches, C[c].free_objects # 0
  PROVE  First(HaveFree(C[c])) \in HaveFree(C[c]) /\ HaveFree(C[c]) # {}
<1>1. Counted(C[c]) /\ C[c] \in CacheRec
  BY DEF SlabInv
<1>2. FreeSet(C[c]) # {}
  BY <1>1, FS_EmptySet DEF Counted
<1>3. PICK k \in Positions(C[c]) : Range(C[c].slabs[k].free_list) # {}
  BY <1>2 DEF FreeSet
<1>4. PICK f \in Seq(Nat), n \in Nat : f = C[c].slabs[k].free_list /\ n = C[c].slabs[k].free_objects
                                       /\ n = Len(f)
  <2>1. C[c].slabs[k].free_list \in Seq(Nat) /\ C[c].slabs[k].free_objects \in Nat
    BY SlabAt
  <2>2. ListOf(c, C[c].slabs[k], G)
    BY SlabAt
  <2> QED BY <2>1, <2>2 DEF ListOf
<1>5. n # 0
  <2>1. DOMAIN f = 1 .. n
    BY <1>4
  <2>2. n = 0 => 1 .. n = {}
    OBVIOUS
  <2> QED BY <1>3, <1>4, <2>1, <2>2 DEF Range
<1>6. k \in HaveFree(C[c])
  <2>1. n > 0
    BY <1>5
  <2>2. C[c].slabs[k].free_objects > 0
    BY <2>1, <1>4
  <2> QED BY <2>2 DEF HaveFree, Positions
<1>7. HaveFree(C[c]) \in SUBSET Nat
  BY DEF HaveFree
<1> QED BY <1>6, <1>7, FirstOf

\* The cache that slab_alloc picks has objects that are large enough.
LEMMA CacheFits ==
  ASSUME NEW size, \E c \in Caches : size <= ObjSize[c]
  PROVE  CacheFor(size) \in Caches /\ size <= ObjSize[CacheFor(size)]
<1> DEFINE S == {c \in Caches : size <= ObjSize[c]}
<1>1. Caches \subseteq Nat
  BY SlabAssumption DEF Caches
<1>2. S \in SUBSET Nat /\ S # {}
  BY <1>1
<1>3. First(S) \in S
  <2> HIDE DEF S
  <2> QED BY <1>2, FirstOf
<1> QED BY <1>3 DEF CacheFor

\* slab_cache_alloc, with or without growing, returns an object nobody holds.
LEMMA AllocObject ==
  ASSUME NEW G, SlabInv(cache, used, G), NEW size, \E c \in Caches : size <= ObjSize[c],
         NEW a \in slab_alloc(size), NEW D, D = [cache EXCEPT ![CacheFor(size)] = a.cache]
  PROVE  /\ SlabInv(D, used \union a.pages, G \union {a.ptr})
         /\ a.ptr \in Nat /\ a.ptr \notin G
         /\ Fits(D, a.ptr, size)
         /\ Kept(cache, D)
<1>1. PICK c \in Caches : c = CacheFor(size) /\ size <= ObjSize[c]
  BY CacheFits
<1>2. cache \in [Caches -> CacheRec] /\ cache[c].free_objects \in Nat
  BY DEF SlabInv, CacheRec
<1>3. CASE cache[c].free_objects > 0
  <2>1. cache[c].free_objects # 0 /\ a = slab_cache_alloc(c, 0)
    BY <1>1, <1>2, <1>3 DEF slab_alloc
  <2>2. PICK k \in HaveFree(cache[c]) : k = First(HaveFree(cache[c]))
    BY <2>1, CounterRight
  <2>3. /\ a.cache = TakeObject(cache[c], k) /\ a.pages = {}
        /\ a.ptr = FirstFree(cache[c], k)
    BY <2>1, <2>2 DEF slab_cache_alloc, FirstFree
  <2>4. D = TakeFrom(cache, c, k)
    BY <2>3, <1>1 DEF TakeFrom
  <2>5. PICK x : x = a.ptr
    OBVIOUS
  <2>6. x = FirstFree(cache[c], k)
    BY <2>3, <2>5
  <2>7. SlabInv(D, used, G \union {x})
    BY <2>4, <2>6, Take
  <2>8. x \in Nat /\ x \notin G
    BY <2>4, <2>6, Take
  <2>11. \A m : m <= ObjSize[c] => Fits(D, x, m)
    BY <2>4, <2>6, Take
  <2>9. Kept(cache, D)
    BY <2>4, <2>6, Take
  <2>10. used \union a.pages = used
    BY <2>3
  <2> QED BY <2>5, <2>7, <2>8, <2>9, <2>10, <2>11, <1>1
<1>4. CASE ~(cache[c].free_objects > 0)
  <2>1. PICK p \in FreeBlocks(c) : cache[c].free_objects = 0 /\ a = slab_cache_alloc(c, p)
    BY <1>1, <1>2, <1>4 DEF slab_alloc
  <2>2. p \in Pages /\ Block(c, p) \subseteq Pages \ used
    BY DEF FreeBlocks
  <2>3. PICK r : r = slab_cache_growth(cache[c], c, p)
    OBVIOUS
  <2>4. PICK B : B = [cache EXCEPT ![c] = r]
    OBVIOUS
  <2>5. PICK V : V = used \union Block(c, p)
    OBVIOUS
  <2>6. SlabInv(B, V, G)
    BY <2>2, <2>3, <2>4, <2>5, Grow
  <2>7. Kept(cache, B)
    BY <2>2, <2>3, <2>4, Grow
  <2>8. B[c].free_objects # 0
    BY <2>2, <2>3, <2>4, Grow
  <2>9. B[c] = r
    BY <2>4, <1>2
  <2>10. PICK k \in HaveFree(B[c]) : k = First(HaveFree(B[c])) /\ HaveFree(B[c]) # {}
    BY <2>6, <2>8, CounterRight
  <2>11. /\ a.cache = TakeObject(B[c], k) /\ a.pages = Block(c, p)
         /\ a.ptr = FirstFree(B[c], k)
    BY <2>1, <2>3, <2>9, <2>10 DEF slab_cache_alloc, FirstFree
  <2>12. D = TakeFrom(B, c, k)
    BY <2>4, <2>11, <1>1, <1>2 DEF TakeFrom
  <2>13. PICK x : x = a.ptr
    OBVIOUS
  <2>14. x = FirstFree(B[c], k)
    BY <2>11, <2>13
  <2>15. SlabInv(D, V, G \union {x})
    BY <2>6, <2>12, <2>14, Take
  <2>16. x \in Nat /\ x \notin G
    BY <2>6, <2>12, <2>14, Take
  <2>19. \A m : m <= ObjSize[c] => Fits(D, x, m)
    BY <2>6, <2>12, <2>14, Take
  <2>17. Kept(B, D)
    BY <2>6, <2>12, <2>14, Take
  <2>18. used \union a.pages = V
    BY <2>5, <2>11
  <2> QED BY <2>7, <2>13, <2>15, <2>16, <2>17, <2>18, <2>19, <1>1 DEF Kept
<1> QED BY <1>3, <1>4

\* slab_free finds the one slab an object came from.
LEMMA FreeObject ==
  ASSUME NEW G, SlabInv(cache, used, G), NEW x \in G, NEW size, Fits(cache, x, size),
         NEW D, D = slab_free(x)
  PROVE  /\ Found(x) # {}
         /\ SlabInv(D, used, G \ {x})
         /\ Kept(cache, D)
<1>1. PICK c \in Caches : \E k \in Positions(cache[c]) : x \in Objs(c, cache[c].slabs[k])
  BY DEF Fits
<1>2. PICK k \in Positions(cache[c]) : x \in Objs(c, cache[c].slabs[k])
  BY <1>1
<1>3. InRange(cache[c].slabs[k], x)
  <2>1. Home(c, cache[c].slabs[k], used) /\ used \subseteq Pages
    BY SlabAt DEF SlabInv
  <2> QED BY <2>1, <1>2, ObjInRange
<1>4. \A d \in Caches : \A l \in Positions(cache[d]) :
        c # d \/ k # l => ~InRange(cache[d].slabs[l], x)
  BY <1>2, ObjElsewhere
<1>5. Holds(c, x) = {k}
  BY <1>3, <1>4 DEF Holds, Positions
<1>6. Found(x) = {c}
  BY <1>4, <1>5 DEF Found, Holds, Positions
<1>7. k \in Nat /\ c \in Nat
  BY SlabAssumption DEF Caches, Positions
<1>8. First({k}) = k /\ First({c}) = c
  BY <1>7 DEF First
<1>9. D = [cache EXCEPT ![c] = PutObject(cache[c], k, x)]
  BY <1>5, <1>6, <1>8 DEF slab_free
<1>10. SlabInv(D, used, G \ {x})
  BY <1>2, <1>9, Put
<1>11. Kept(cache, D)
  BY <1>2, <1>9, Put
<1> QED BY <1>6, <1>10, <1>11

\* An address of vmalloc is in no slab's range, nor on any free list.
LEMMA VmPtr ==
  ASSUME NEW C, NEW U, NEW G, SlabInv(C, U, G), NEW x \in Nat, VmStart * PageSize <= x
  PROVE  /\ \A c \in Caches : \A k \in Positions(C[c]) : ~InRange(C[c].slabs[k], x)
         /\ SlabInv(C, U, G \union {x})
         /\ SlabInv(C, U, G \ {x})
<1>1. ASSUME NEW c \in Caches, NEW k \in Positions(C[c])
      PROVE  ~InRange(C[c].slabs[k], x) /\ x \notin Objs(c, C[c].slabs[k])
  <2>1. Home(c, C[c].slabs[k], U) /\ U \subseteq Pages
    BY SlabAt DEF SlabInv
  <2>2. PICK s : s = C[c].slabs[k]
    OBVIOUS
  <2>3. /\ s.s_mem \in Nat /\ s.size \in Nat /\ s.s_mem + s.size <= VmStart * PageSize
        /\ VmStart * PageSize \in Nat
    BY <2>1, <2>2, SlabBelow
  <2>4. ~InRange(s, x)
    BY <2>3 DEF InRange
  <2>5. x \notin Objs(c, s)
    BY <2>1, <2>2, <2>4, ObjInRange
  <2> QED BY <2>2, <2>4, <2>5
<1>2. ASSUME NEW H, H = G \union {x} \/ H = G \ {x} PROVE SlabInv(C, U, H)
  <2>1. ASSUME NEW c \in Caches, NEW k \in Positions(C[c]) PROVE ListOf(c, C[c].slabs[k], H)
    <3>1. ListOf(c, C[c].slabs[k], G)
      BY SlabAt
    <3>2. Objs(c, C[c].slabs[k]) \ G = Objs(c, C[c].slabs[k]) \ H
      BY <1>1, <1>2
    <3> QED BY <3>1, <3>2 DEF ListOf
  <2>2. \A ptr \in H : ptr \in Nat /\ (Fits(C, ptr, 0) \/ VmStart * PageSize <= ptr)
    BY <1>2 DEF SlabInv
  <2> QED BY <2>1, <2>2 DEF SlabInv
<1> QED BY <1>1, <1>2

-----------------------------------------------------------------------------
(* The steps.                                                              *)

\* slab_init gives every cache a slab on pages of its own.
LEMMA SlabInit == Init => SlabIInv
<1> SUFFICES ASSUME Init PROVE SlabIInv
  OBVIOUS
<1>1. PICK base \in [Caches -> Pages] :
        /\ \A c \in Caches : Block(c, base[c]) \subseteq Pages
        /\ \A c, d \in Caches : c # d => Block(c, base[c]) \cap Block(d, base[d]) = {}
        /\ cache = [c \in Caches |-> slab_cache_growth(NewCache, c, base[c])]
        /\ used = UNION {Block(c, base[c]) : c \in Caches}
  BY DEF Init
<1>2. ASSUME NEW c \in Caches
      PROVE  /\ cache[c] \in CacheRec /\ Positions(cache[c]) = {1}
             /\ cache[c].slabs[1] = slab_create(c, base[c]) /\ Counted(cache[c])
  <2>1. PICK s \in SlabRec : s = slab_create(c, base[c])
    BY NewSlab
  <2>2. /\ s.free_objects = Len(s.free_list) /\ Len(s.free_list) = ObjCount(c)
        /\ IsInjective(s.free_list)
    BY <2>1, NewSlab
  <2>3. PICK n \in Nat : n = ObjCount(c)
    BY CacheSizes
  <2>4. PICK r : r = [slabs |-> <<s>>, free_objects |-> n, total_objects |-> n]
    OBVIOUS
  <2>5. cache[c] = r
    <3>1. cache[c] = slab_cache_growth(NewCache, c, base[c])
      BY <1>1
    <3>2. <<s>> \o <<>> = <<s>> /\ 0 + n = n
      BY <2>3
    <3> QED BY <3>1, <3>2, <2>1, <2>3, <2>4 DEF slab_cache_growth, NewCache
  <2>6. r.slabs = <<s>> /\ r.free_objects = n /\ r.slabs \in Seq(SlabRec) /\ r \in CacheRec
    BY <2>4 DEF CacheRec
  <2>7. Positions(r) = {1} /\ r.slabs[1] = s
    BY <2>6 DEF Positions
  <2>8. FreeSet(r) = Range(s.free_list)
    BY <2>7 DEF FreeSet
  <2>9. s.free_list \in Seq(Nat)
    BY DEF SlabRec
  <2>10. IsFiniteSet(Range(s.free_list)) /\ Cardinality(Range(s.free_list)) = Len(s.free_list)
    BY <2>2, <2>9, CountList
  <2>11. Counted(r)
    BY <2>2, <2>3, <2>6, <2>8, <2>10 DEF Counted
  <2> QED BY <2>1, <2>5, <2>6, <2>7, <2>11
<1>3. cache \in [Caches -> CacheRec]
  <2>1. DOMAIN cache = Caches
    BY <1>1
  <2>2. cache = [c \in Caches |-> cache[c]]
    BY <1>1
  <2> QED BY <1>2, <2>1, <2>2
<1>4. used \subseteq Pages
  BY <1>1
<1>5. ASSUME NEW c \in Caches, NEW U, Block(c, base[c]) \subseteq U
      PROVE  Home(c, cache[c].slabs[1], U)
  BY <1>2, <1>5, NewSlab DEF Home
<1>6. ASSUME NEW c \in Caches
      PROVE  Home(c, cache[c].slabs[1], used) /\ ListOf(c, cache[c].slabs[1], {})
  <2>1. Block(c, base[c]) \subseteq used
    BY <1>1
  <2>2. ListOf(c, cache[c].slabs[1], {})
    BY <1>2, NewSlab DEF ListOf
  <2> QED BY <2>1, <2>2, <1>5
<1>7. ASSUME NEW c \in Caches, NEW d \in Caches, c # d
      PROVE  \/ Before(cache[c].slabs[1], cache[d].slabs[1])
             \/ Before(cache[d].slabs[1], cache[c].slabs[1])
  <2>1. PICK s, t : s = cache[c].slabs[1] /\ t = cache[d].slabs[1]
    OBVIOUS
  <2>2. PICK U : U = Block(d, base[d])
    OBVIOUS
  <2>3. Block(c, base[c]) \cap U = {}
    BY <1>1, <1>7, <2>2
  <2>4. Home(d, t, U)
    BY <2>1, <2>2, <1>5
  <2>5. s.s_mem = base[c] * PageSize + Header /\ s.size = CachePages[c] * PageSize
    BY <2>1, <1>2, NewSlab
  <2>6. base[c] \in Pages
    OBVIOUS
  <2> QED BY <2>1, <2>3, <2>4, <2>5, <2>6, HomesApart
<1>8. Ptrs(granted) = {}
  BY DEF Init, Ptrs
<1>9. SlabInv(cache, used, {})
  BY <1>2, <1>3, <1>4, <1>6, <1>7 DEF SlabInv
<1>10. reply # Null
  BY SlabAssumption DEF Init
<1>11. GrantInv /\ AreaInv
  BY DEF Init, GrantInv, AreaInv
<1> QED BY <1>8, <1>9, <1>10, <1>11 DEF SlabIInv

\* What callers hold stays where it is when a cache grows or an object is taken.
LEMMA GrantsStay ==
  ASSUME SlabIInv, NEW D, Kept(cache, D)
  PROVE  /\ \A g \in granted :
              /\ g \in [ptr : Nat, size : Nat \ {0}]
              /\ \/ Fits(D, g.ptr, g.size)
                 \/ \E x \in areas : g.ptr = x.page * PageSize /\ g.size <= x.n * PageSize
         /\ \A x \in areas : Fits(D, x.node, AreaSize)
<1>1. \A g \in granted :
              /\ g \in [ptr : Nat, size : Nat \ {0}]
              /\ \/ Fits(D, g.ptr, g.size)
                 \/ \E x \in areas : g.ptr = x.page * PageSize /\ g.size <= x.n * PageSize
  BY DEF SlabIInv, GrantInv, Kept
<1>2. \A x \in areas : Fits(D, x.node, AreaSize)
  BY DEF SlabIInv, AreaInv, Kept
<1> QED BY <1>1, <1>2

\* kmalloc hands out an object that is large enough and that nobody holds.
LEMMA KmallocInv ==
  ASSUME SlabIInv, NEW size \in Sizes, kmalloc(size)
  PROVE  SlabIInv'
<1>1. PICK z : z = RoundUp(size)
  OBVIOUS
<1>2. size \in Nat \ {0} /\ size <= z
  <2>1. size \in Nat /\ 0 < size /\ Word \in Nat \ {0}
    BY SlabAssumption DEF kmalloc
  <2>2. ASSUME NEW w \in Nat \ {0}, w = Word PROVE size <= z
    <3>1. \A n \in Nat : n <= ((n + w) \div w) * w
      <4>1. TAKE n \in Nat
      <4>2. PICK q \in Nat, e \in 0 .. w - 1 : n + w = q * w + e /\ q = (n + w) \div w
        OBVIOUS
      <4> QED BY <4>2
    <3>2. z = IF size % w = 0 THEN size ELSE ((size + w) \div w) * w
      BY <1>1, <2>2 DEF RoundUp
    <3> QED BY <3>1, <3>2, <2>1
  <2> QED BY <2>1, <2>2
<1>3. \E c \in Caches : z <= ObjSize[c]
  <2>1. z <= SLAB_ALLOC_MAX_SIZE
    BY <1>1 DEF kmalloc, IsSmall
  <2>2. Len(ObjSize) \in Caches
    BY SlabAssumption DEF Caches
  <2> QED BY <2>1, <2>2 DEF SLAB_ALLOC_MAX_SIZE
<1>4. PICK a \in slab_alloc(z) :
        /\ cache' = [cache EXCEPT ![CacheFor(z)] = a.cache]
        /\ used' = used \union a.pages
        /\ reply' = a.ptr
        /\ granted' = IF a.ptr = Null THEN granted
                      ELSE granted \union {[ptr |-> a.ptr, size |-> size]}
  BY <1>1 DEF kmalloc
<1>5. PICK D, x, V : D = cache' /\ x = a.ptr /\ V = used'
  OBVIOUS
<1>6. PICK G : G = Ptrs(granted) /\ SlabInv(cache, used, G)
  BY DEF SlabIInv
<1>7. D = [cache EXCEPT ![CacheFor(z)] = a.cache] /\ V = used \union a.pages
  BY <1>4, <1>5
<1>8. SlabInv(D, V, G \union {x})
  <2>1. SlabInv(D, used \union a.pages, G \union {a.ptr})
    BY <1>3, <1>6, <1>7, AllocObject
  <2> QED BY <2>1, <1>5, <1>7
<1>9. x \in Nat /\ x \notin G
  BY <1>3, <1>5, <1>6, <1>7, AllocObject
<1>10. Fits(D, x, z)
  BY <1>3, <1>5, <1>6, <1>7, AllocObject
<1>11. Kept(cache, D)
  BY <1>3, <1>5, <1>6, <1>7, AllocObject
<1>12. PICK g : g = [ptr |-> x, size |-> size]
  OBVIOUS
<1>13. x # Null
  BY <1>9, SlabAssumption
<1>14. granted' = granted \union {g} /\ reply' = x
  BY <1>4, <1>5, <1>12, <1>13
<1>15. g.ptr = x /\ g.size = size /\ g \in [ptr : Nat, size : Nat \ {0}]
  BY <1>2, <1>9, <1>12
<1>16. Ptrs(granted)' = G \union {x}
  BY <1>6, <1>14, <1>15 DEF Ptrs
<1>17. SlabInv(cache, used, Ptrs(granted))'
  BY <1>5, <1>8, <1>16
<1>18. Fits(D, x, size)
  <2>1. PICK c \in Caches : \E k \in Positions(D[c]) :
          x \in Objs(c, D[c].slabs[k]) /\ z <= ObjSize[c]
    BY <1>10 DEF Fits
  <2>2. z \in Nat
    BY <1>1, <1>2, SlabAssumption DEF RoundUp
  <2>3. size <= ObjSize[c]
    BY <2>1, <2>2, <1>2, CacheSizes
  <2> QED BY <2>1, <2>3 DEF Fits
<1>19. areas' = areas
  BY DEF kmalloc
<1>20. GrantInv'
  <2>1. \A h \in granted' :
              /\ h \in [ptr : Nat, size : Nat \ {0}]
              /\ \/ Fits(D, h.ptr, h.size)
                 \/ \E y \in areas : h.ptr = y.page * PageSize /\ h.size <= y.n * PageSize
    BY <1>11, <1>14, <1>15, <1>18, GrantsStay
  <2>2. \A h, i \in granted' : h.ptr = i.ptr => h = i
    BY <1>6, <1>9, <1>14, <1>15 DEF SlabIInv, GrantInv, Ptrs
  <2> QED BY <2>1, <2>2, <1>5, <1>19 DEF GrantInv
<1>21. AreaInv'
  <2>1. \A y \in areas : Fits(D, y.node, AreaSize)
    BY <1>11, GrantsStay
  <2> QED BY <2>1, <1>5, <1>14, <1>19 DEF SlabIInv, AreaInv
<1> QED BY <1>13, <1>14, <1>17, <1>20, <1>21 DEF SlabIInv

\* An object of a slab lies below the addresses of vmalloc.
LEMMA FitsBelow ==
  ASSUME NEW C, NEW U, NEW G, SlabInv(C, U, G), NEW x, NEW m, Fits(C, x, m)
  PROVE  x \in Nat /\ x < VmStart * PageSize
<1>1. PICK c \in Caches : \E k \in Positions(C[c]) : x \in Objs(c, C[c].slabs[k])
  BY DEF Fits
<1>2. PICK k \in Positions(C[c]) : x \in Objs(c, C[c].slabs[k])
  BY <1>1
<1>3. Home(c, C[c].slabs[k], U) /\ U \subseteq Pages
  BY SlabAt DEF SlabInv
<1>4. x \in Nat /\ x + ObjSize[c] + Header <= VmStart * PageSize
  BY <1>2, <1>3, ObjInRange
<1>5. VmStart * PageSize \in Nat
  BY <1>3, SlabBelow
<1>6. ObjSize[c] \in Nat \ {0} /\ Header \in Nat
  BY CacheSizes
<1> QED BY <1>4, <1>5, <1>6

\* The pages of vmalloc and their addresses.
LEMMA VmAddress ==
  ASSUME NEW v \in Nat, VmStart <= v
  PROVE  /\ v * PageSize \in Nat /\ VmStart * PageSize <= v * PageSize
         /\ VmStart * PageSize \in Nat
         /\ \A w \in Nat : v * PageSize = w * PageSize => v = w
         /\ \A w, n \in Nat : v + n <= w => v * PageSize + n * PageSize <= w * PageSize
<1>1. PICK P \in Nat \ {0}, V \in Nat : P = PageSize /\ V = VmStart
  BY SlabAssumption DEF VmStart
<1>2. \A u, w \in Nat : u * P \in Nat /\ (u <= w => u * P <= w * P)
  <2>1. TAKE u, w \in Nat
  <2>2. ASSUME u <= w PROVE u * P <= w * P
    <3>1. PICK d \in Nat : w = u + d
      BY <2>2
    <3>2. w * P = u * P + d * P /\ d * P \in Nat /\ u * P \in Nat
      BY <3>1
    <3> QED BY <3>2
  <2> QED BY <2>2
<1>3. \A w \in Nat : v * P = w * P => v = w
  <2>1. ASSUME NEW w \in Nat, NEW u \in Nat, u * P = w * P PROVE ~(u < w)
    <3>1. SUFFICES ASSUME u < w PROVE FALSE
      OBVIOUS
    <3>2. PICK d \in Nat : w = u + 1 + d
      <4>1. w - u - 1 \in Nat /\ w = u + 1 + (w - u - 1)
        BY <3>1
      <4> QED BY <4>1
    <3>3. w * P = u * P + P + d * P /\ d * P \in Nat /\ u * P \in Nat
      BY <3>2
    <3> QED BY <3>3, <2>1
  <2> QED BY <2>1
<1>4. \A w, n \in Nat : v + n <= w => v * P + n * P <= w * P
  <2>1. TAKE w, n \in Nat
  <2>2. (v + n) * P = v * P + n * P /\ v + n \in Nat
    OBVIOUS
  <2> QED BY <2>2, <1>2
<1>5. v * P \in Nat /\ V * P \in Nat /\ V * P <= v * P
  BY <1>1, <1>2
<1> QED BY <1>1, <1>3, <1>4, <1>5

\* A request gets at least one page, and as many as it needs.
LEMMA EnoughPages ==
  ASSUME NEW size \in Nat \ {0}
  PROVE  ToPages(size) \in Nat \ {0} /\ size <= ToPages(size) * PageSize
<1>1. PICK P \in Nat \ {0} : P = PageSize
  BY SlabAssumption
<1>2. PICK q \in Int, e \in 0 .. P - 1 : size + P - 1 = q * P + e /\ q = (size + P - 1) \div P
  <2>1. PICK b \in Nat : b = size + P - 1
    OBVIOUS
  <2>2. \E q \in Int, e \in 0 .. P - 1 : b = q * P + e /\ q = b \div P
    <3>1. b \div P \in Int /\ b % P \in 0 .. P - 1 /\ b = (b \div P) * P + (b % P)
      BY ONLY P \in Nat \ {0}, b \in Nat
    <3> QED BY <3>1
  <2> QED BY <2>1, <2>2
<1>3. size <= q * P
  BY <1>2
<1>4. q > 0
  <2>1. SUFFICES ASSUME q <= 0 PROVE FALSE
    OBVIOUS
  <2>2. PICK d \in Nat : q = 0 - d
    <3>1. 0 - q \in Nat /\ q = 0 - (0 - q)
      BY <2>1
    <3> QED BY <3>1
  <2>3. q * P = 0 - d * P /\ d * P \in Nat
    BY <2>2
  <2> QED BY <2>3, <1>3
<1> QED BY <1>1, <1>2, <1>3, <1>4 DEF ToPages

\* kmalloc_large: a range that overlaps no other, and an object that describes it.
LEMMA KmallocLargeInv ==
  ASSUME SlabIInv, NEW size \in Sizes, kmalloc_large(size)
  PROVE  SlabIInv'
<1>1. PICK n : n = ToPages(size)
  OBVIOUS
<1>2. size \in Nat \ {0}
  BY SlabAssumption DEF kmalloc_large
<1>3. n \in Nat \ {0} /\ size <= n * PageSize
  BY <1>1, <1>2, EnoughPages
<1>4. PICK v \in VmFree(n), a \in slab_alloc(AreaSize) :
       /\ cache' = [cache EXCEPT ![CacheFor(AreaSize)] = a.cache]
       /\ used' = used \union a.pages
       /\ areas' = areas \union {[page |-> v, n |-> n, node |-> a.ptr]}
       /\ granted' = granted \union {[ptr |-> v * PageSize, size |-> size],
                                     [ptr |-> a.ptr, size |-> AreaSize]}
  BY <1>1 DEF kmalloc_large
<1>5. PICK D, V : D = cache' /\ V = used'
  OBVIOUS
<1>6. PICK G : G = Ptrs(granted) /\ SlabInv(cache, used, G)
  BY DEF SlabIInv
<1>7. D = [cache EXCEPT ![CacheFor(AreaSize)] = a.cache] /\ V = used \union a.pages
  BY <1>4, <1>5
<1>8. \E c \in Caches : AreaSize <= ObjSize[c]
  BY SlabAssumption
<1>9. SlabInv(D, V, G \union {a.ptr})
  <2>1. SlabInv(D, used \union a.pages, G \union {a.ptr})
    BY <1>6, <1>7, <1>8, AllocObject
  <2> QED BY <2>1, <1>7
<1>10. a.ptr \in Nat /\ a.ptr \notin G
  BY <1>6, <1>7, <1>8, AllocObject
<1>11. Fits(D, a.ptr, AreaSize)
  BY <1>6, <1>7, <1>8, AllocObject
<1>12. Kept(cache, D)
  BY <1>6, <1>7, <1>8, AllocObject
<1>13. PICK x \in Nat : x = a.ptr
  BY <1>10
<1>14. v \in Nat /\ VmStart <= v
  BY SlabAssumption DEF VmFree, VmStart
<1>15. PICK y \in Nat : y = v * PageSize
  BY <1>14, VmAddress
<1>16. VmStart * PageSize <= y /\ VmStart * PageSize \in Nat
  BY <1>14, <1>15, VmAddress
<1>17. PICK H : H = G \union {x}
  OBVIOUS
<1>18. SlabInv(D, V, H \union {y})
  BY <1>9, <1>13, <1>16, <1>17, VmPtr
<1>19. ASSUME NEW z \in areas
       PROVE  /\ z.page \in Nat /\ z.n \in Nat \ {0} /\ VmStart <= z.page
              /\ (v + n <= z.page \/ z.page + z.n <= v) /\ y # z.page * PageSize
  <2>1. z.page \in Nat /\ z.n \in Nat \ {0} /\ VmStart <= z.page
    BY DEF SlabIInv, AreaInv
  <2>2. (v .. v + n - 1) \cap (z.page .. z.page + z.n - 1) = {}
    BY DEF VmFree, VmBlock
  <2>3. v + n <= z.page \/ z.page + z.n <= v
    BY <2>1, <2>2, <1>3, <1>14, PagesApart
  <2>4. v # z.page
    BY <2>1, <2>3, <1>3, <1>14
  <2> QED BY <2>1, <2>3, <2>4, <1>14, <1>15, VmAddress
<1>20. PICK g, h : g = [ptr |-> y, size |-> size] /\ h = [ptr |-> x, size |-> AreaSize]
  OBVIOUS
<1>21. /\ g.ptr = y /\ g.size = size /\ g \in [ptr : Nat, size : Nat \ {0}]
       /\ h.ptr = x /\ h.size = AreaSize /\ h \in [ptr : Nat, size : Nat \ {0}]
  BY <1>2, <1>20, SlabAssumption
<1>22. granted' = granted \union {g, h}
  BY <1>4, <1>13, <1>15, <1>20
<1>23. PICK z : z = [page |-> v, n |-> n, node |-> x]
  OBVIOUS
<1>24. /\ z.page = v /\ z.n = n /\ z.node = x
       /\ z \in [page : Nat, n : Nat \ {0}, node : Nat]
  BY <1>3, <1>14, <1>23
<1>25. areas' = areas \union {z}
  BY <1>4, <1>13, <1>23
<1>26. Ptrs(granted)' = H \union {y}
  BY <1>6, <1>17, <1>21, <1>22 DEF Ptrs
<1>27. SlabInv(cache, used, Ptrs(granted))'
  BY <1>5, <1>18, <1>26
<1>28. ASSUME NEW i \in granted PROVE i.ptr # y /\ i.ptr # x
  <2>1. i.ptr \in G
    BY <1>6 DEF Ptrs
  <2>2. CASE Fits(cache, i.ptr, i.size)
    <3>1. i.ptr \in Nat /\ i.ptr < VmStart * PageSize
      BY <1>6, <2>2, FitsBelow
    <3> QED BY <2>1, <3>1, <1>10, <1>13, <1>16
  <2>3. CASE \E w \in areas : i.ptr = w.page * PageSize
    BY <2>1, <2>3, <1>10, <1>13, <1>19
  <2> QED BY <2>2, <2>3 DEF SlabIInv, GrantInv
<1>29. x # y
  <2>1. x < VmStart * PageSize
    BY <1>9, <1>11, <1>13, FitsBelow
  <2> QED BY <2>1, <1>16
<1>30. GrantInv'
  <2>1. ASSUME NEW i \in granted'
        PROVE  /\ i \in [ptr : Nat, size : Nat \ {0}]
               /\ \/ Fits(D, i.ptr, i.size)
                  \/ \E w \in areas' : i.ptr = w.page * PageSize /\ i.size <= w.n * PageSize
    <3>1. CASE i \in granted
      BY <3>1, <1>12, <1>25, GrantsStay
    <3>2. CASE i = g
      BY <3>2, <1>3, <1>15, <1>21, <1>24, <1>25
    <3>3. CASE i = h
      BY <3>3, <1>11, <1>13, <1>21
    <3> QED BY <3>1, <3>2, <3>3, <1>22
  <2>2. \A i, j \in granted' : i.ptr = j.ptr => i = j
    BY <1>21, <1>22, <1>28, <1>29 DEF SlabIInv, GrantInv
  <2> QED BY <2>1, <2>2, <1>5 DEF GrantInv
<1>31. AreaInv'
  <2>1. ASSUME NEW w \in areas'
        PROVE  /\ w \in [page : Nat, n : Nat \ {0}, node : Nat] /\ VmStart <= w.page
               /\ [ptr |-> w.node, size |-> AreaSize] \in granted'
               /\ Fits(D, w.node, AreaSize)
    <3>1. CASE w \in areas
      BY <3>1, <1>12, <1>22, GrantsStay DEF SlabIInv, AreaInv
    <3>2. CASE w = z
      BY <3>2, <1>11, <1>13, <1>14, <1>20, <1>22, <1>24
    <3> QED BY <3>1, <3>2, <1>25
  <2>2. ASSUME NEW w \in areas PROVE w.node # x
    <3>1. [ptr |-> w.node, size |-> AreaSize] \in granted
      BY DEF SlabIInv, AreaInv
    <3>2. PICK i \in granted : i = [ptr |-> w.node, size |-> AreaSize]
      BY <3>1
    <3>3. i.ptr = w.node
      BY <3>2
    <3> QED BY <3>3, <1>28
  <2>3. \A u, w \in areas' :
          u # w => u.node # w.node /\ (u.page + u.n <= w.page \/ w.page + w.n <= u.page)
    BY <2>2, <1>19, <1>24, <1>25 DEF SlabIInv, AreaInv
  <2> QED BY <2>1, <2>3, <1>5 DEF AreaInv
<1> QED BY <1>27, <1>30, <1>31 DEF SlabIInv, kmalloc_large

\* kfree puts an object back to its slab, or frees a range and its vm_area_t.
LEMMA KfreeInv ==
  ASSUME SlabIInv, NEW g \in granted, kfree(g)
  PROVE  SlabIInv'
<1>1. PICK G : G = Ptrs(granted) /\ SlabInv(cache, used, G)
  BY DEF SlabIInv
<1>2. \A i \in granted : i.ptr \in G /\ i.ptr \in Nat
  BY <1>1 DEF SlabIInv, GrantInv, Ptrs
<1>3. \A i, j \in granted : i.ptr = j.ptr => i = j
  BY DEF SlabIInv, GrantInv
<1>4. PICK D : D = cache'
  OBVIOUS
<1>5. \A w \in areas : g.ptr # w.node
  BY DEF kfree, Nodes
<1>6. CASE Found(g.ptr) # {}
  <2>1. PICK p \in Nat : p = g.ptr /\ p \in G
    BY <1>2
  <2>2. D = slab_free(p) /\ granted' = granted \ {g} /\ areas' = areas
    BY <1>4, <1>6, <2>1 DEF kfree
  <2>3. ~(VmStart * PageSize <= p)
    <3>1. SUFFICES ASSUME VmStart * PageSize <= p PROVE FALSE
      OBVIOUS
    <3>2. \A c \in Caches : \A k \in Positions(cache[c]) : ~InRange(cache[c].slabs[k], p)
      BY <1>1, <3>1, VmPtr
    <3> QED BY <3>2, <2>1, <1>6 DEF Found, Holds, Positions
  <2>4. Fits(cache, p, g.size)
    <3>1. ASSUME NEW w \in areas, p = w.page * PageSize PROVE FALSE
      <4>1. w.page \in Nat /\ VmStart <= w.page
        BY DEF SlabIInv, AreaInv
      <4> QED BY <4>1, <3>1, <2>3, VmAddress
    <3> QED BY <3>1, <2>1 DEF SlabIInv, GrantInv
  <2>5. SlabInv(D, used, G \ {p})
    BY <1>1, <2>1, <2>2, <2>4, FreeObject
  <2>6. Kept(cache, D)
    BY <1>1, <2>1, <2>2, <2>4, FreeObject
  <2>7. Ptrs(granted)' = G \ {p}
    BY <1>1, <1>3, <2>1, <2>2 DEF Ptrs
  <2>8. SlabInv(cache, used, Ptrs(granted))'
    <3>1. used' = used
      BY DEF kfree
    <3> QED BY <3>1, <2>5, <2>7, <1>4
  <2>9. GrantInv'
    <3>1. \A i \in granted' :
              /\ i \in [ptr : Nat, size : Nat \ {0}]
              /\ \/ Fits(D, i.ptr, i.size)
                 \/ \E y \in areas : i.ptr = y.page * PageSize /\ i.size <= y.n * PageSize
      BY <2>2, <2>6, GrantsStay
    <3> QED BY <3>1, <2>2, <1>3, <1>4 DEF GrantInv
  <2>10. AreaInv'
    <3>1. \A w \in areas : Fits(D, w.node, AreaSize)
      BY <2>6, GrantsStay
    <3>2. ASSUME NEW w \in areas PROVE [ptr |-> w.node, size |-> AreaSize] \in granted'
      <4>1. PICK i \in granted : i = [ptr |-> w.node, size |-> AreaSize]
        BY DEF SlabIInv, AreaInv
      <4>2. i.ptr = w.node
        BY <4>1
      <4> QED BY <4>1, <4>2, <2>2, <1>5
    <3> QED BY <3>1, <3>2, <2>2, <1>4 DEF SlabIInv, AreaInv
  <2> QED BY <2>8, <2>9, <2>10 DEF SlabIInv, kfree
<1>7. CASE Found(g.ptr) = {}
  <2>1. PICK x \in areas :
            /\ g.ptr = x.page * PageSize
            /\ areas' = areas \ {x}
            /\ cache' = slab_free(x.node)
            /\ granted' = granted \ {g, [ptr |-> x.node, size |-> AreaSize]}
    BY <1>7 DEF kfree
  <2>2. PICK h \in granted : h = [ptr |-> x.node, size |-> AreaSize]
    BY DEF SlabIInv, AreaInv
  <2>3. PICK q \in G : q = x.node /\ q = h.ptr
    BY <1>2, <2>2
  <2>4. Fits(cache, q, AreaSize)
    BY <2>3 DEF SlabIInv, AreaInv
  <2>5. D = slab_free(q)
    BY <1>4, <2>1, <2>3
  <2>6. PICK H : H = G \ {q}
    OBVIOUS
  <2>7. SlabInv(D, used, H)
    BY <1>1, <2>4, <2>5, <2>6, FreeObject
  <2>8. Kept(cache, D)
    BY <1>1, <2>4, <2>5, FreeObject
  <2>9. PICK p \in Nat : p = g.ptr
    BY <1>2
  <2>10. VmStart * PageSize <= p
    <3>1. x.page \in Nat /\ VmStart <= x.page
      BY DEF SlabIInv, AreaInv
    <3> QED BY <3>1, <2>1, <2>9, VmAddress
  <2>11. SlabInv(D, used, H \ {p})
    BY <2>7, <2>10, VmPtr
  <2>12. granted' = granted \ {g, h}
    BY <2>1, <2>2
  <2>13. Ptrs(granted)' = H \ {p}
    BY <1>1, <1>3, <2>3, <2>6, <2>9, <2>12 DEF Ptrs
  <2>14. SlabInv(cache, used, Ptrs(granted))'
    <3>1. used' = used
      BY DEF kfree
    <3> QED BY <3>1, <2>11, <2>13, <1>4
  <2>15. GrantInv'
    <3>1. ASSUME NEW i \in granted'
          PROVE  /\ i \in [ptr : Nat, size : Nat \ {0}]
                 /\ \/ Fits(D, i.ptr, i.size)
                    \/ \E y \in areas' : i.ptr = y.page * PageSize /\ i.size <= y.n * PageSize
      <4>1. i \in granted /\ i # g
        BY <2>12
      <4>2. /\ i \in [ptr : Nat, size : Nat \ {0}]
            /\ \/ Fits(D, i.ptr, i.size)
               \/ \E y \in areas : i.ptr = y.page * PageSize /\ i.size <= y.n * PageSize
        BY <4>1, <2>8, GrantsStay
      <4>3. ASSUME NEW y \in areas, i.ptr = y.page * PageSize PROVE y \in areas'
        <5>1. y # x
          BY <4>1, <4>3, <2>1, <1>3
        <5> QED BY <5>1, <2>1
      <4> QED BY <4>2, <4>3
    <3> QED BY <3>1, <2>12, <1>3, <1>4 DEF GrantInv
  <2>16. AreaInv'
    <3>1. ASSUME NEW w \in areas' PROVE Fits(D, w.node, AreaSize)
      BY <2>1, <2>8, GrantsStay
    <3>2. ASSUME NEW w \in areas' PROVE [ptr |-> w.node, size |-> AreaSize] \in granted'
      <4>0. w \in areas /\ w # x
        BY <2>1
      <4>1. PICK i \in granted : i = [ptr |-> w.node, size |-> AreaSize]
        BY <4>0 DEF SlabIInv, AreaInv
      <4>2. i.ptr = w.node
        BY <4>1
      <4>3. w.node # x.node
        BY <4>0 DEF SlabIInv, AreaInv
      <4> QED BY <4>0, <4>1, <4>2, <4>3, <2>3, <2>12, <1>5
    <3>3. /\ \A w \in areas' : /\ w \in [page : Nat, n : Nat \ {0}, node : Nat]
                               /\ VmStart <= w.page
          /\ \A u, w \in areas' :
               u # w => u.node # w.node /\ (u.page + u.n <= w.page \/ w.page + w.n <= u.page)
      BY <2>1 DEF SlabIInv, AreaInv
    <3> QED BY <3>1, <3>2, <3>3, <1>4 DEF AreaInv
  <2> QED BY <2>14, <2>15, <2>16 DEF SlabIInv, kfree
<1> QED BY <1>6, <1>7

\* The invariant from which the properties follow: every slab lies in pages of
\* its own, its free list holds exactly the objects that are not handed out, the
\* counters count them, and a grant is an object or a vmalloc range with its
\* vm_area_t, for any sizes callers ask for (slab_alloc, slab_free, kmalloc and
\* kfree, kernel/src/mm).
THEOREM SlabInvariant == Spec => []SlabIInv
<1>1. ASSUME SlabIInv, [Next]_vars PROVE SlabIInv'
  <2>1. ASSUME NEW size \in Sizes, kmalloc(size) PROVE SlabIInv'
    BY <1>1, <2>1, KmallocInv
  <2>2. ASSUME NEW size \in Sizes, kmalloc_large(size) PROVE SlabIInv'
    BY <1>1, <2>2, KmallocLargeInv
  <2>3. CASE UNCHANGED <<cache, used, areas, granted, reply>>
    BY <1>1, <2>3 DEF SlabIInv, GrantInv, AreaInv
  <2>4. ASSUME NEW size \in Sizes, out_of_memory(size) PROVE SlabIInv'
    BY <2>3, <2>4 DEF out_of_memory
  <2>5. ASSUME NEW g \in granted, kfree(g) PROVE SlabIInv'
    BY <1>1, <2>5, KfreeInv
  <2>6. CASE UNCHANGED vars
    BY <2>3, <2>6 DEF vars
  <2> QED BY <1>1, <2>1, <2>2, <2>4, <2>5, <2>6 DEF Next
<1> QED BY <1>1, SlabInit, PTL DEF Spec

-----------------------------------------------------------------------------
(* The properties.                                                         *)

\* The bytes of whole pages.
LEMMA BytesInPages ==
  ASSUME NEW p \in Nat, NEW m \in Nat, NEW x \in Nat,
         p * PageSize <= x, x < p * PageSize + m * PageSize
  PROVE  x \div PageSize \in p .. p + m - 1
<1>1. PICK P \in Nat \ {0} : P = PageSize
  BY SlabAssumption
<1>2. PICK q \in Int, e \in 0 .. P - 1 : x = q * P + e /\ q = x \div P
  <2>1. x \div P \in Int /\ x % P \in 0 .. P - 1 /\ x = (x \div P) * P + (x % P)
    BY ONLY P \in Nat \ {0}, x \in Nat
  <2> QED BY <2>1
<1>3. \A u, w \in Int : u < w => u * P + P <= w * P
  <2>1. TAKE u, w \in Int
  <2>2. HAVE u < w
  <2>3. PICK d \in Nat : w = u + 1 + d
    <3>1. w - u - 1 \in Nat /\ w = u + 1 + (w - u - 1)
      BY <2>2
    <3> QED BY <3>1
  <2>4. w * P = u * P + P + d * P /\ d * P \in Nat /\ u * P \in Int
    BY <2>3
  <2> QED BY <2>4
<1>4. p * P <= q * P + e /\ q * P + e < p * P + m * P
  BY <1>1, <1>2
<1>5. p * P \in Nat /\ m * P \in Nat /\ q * P \in Int /\ (p + m) * P = p * P + m * P
  OBVIOUS
<1>6. ~(q < p)
  <2>1. q < p => q * P + P <= p * P
    BY <1>3
  <2> QED BY <2>1, <1>4, <1>5
<1>7. ~(p + m <= q)
  <2>1. p + m < q => (p + m) * P + P <= q * P
    BY <1>3
  <2>2. p + m = q => (p + m) * P = q * P
    OBVIOUS
  <2> QED BY <2>1, <2>2, <1>4, <1>5
<1> QED BY <1>1, <1>2, <1>6, <1>7

\* Two objects, of one slab or of two, do not overlap.
LEMMA ObjsApart ==
  ASSUME NEW C, NEW U, NEW G, SlabInv(C, U, G),
         NEW c \in Caches, NEW k \in Positions(C[c]), NEW x \in Objs(c, C[c].slabs[k]),
         NEW d \in Caches, NEW l \in Positions(C[d]), NEW y \in Objs(d, C[d].slabs[l]), x # y
  PROVE  x + ObjSize[c] <= y \/ y + ObjSize[d] <= x
<1>1. PICK s, t : s = C[c].slabs[k] /\ t = C[d].slabs[l]
  OBVIOUS
<1>2. Home(c, s, U) /\ Home(d, t, U) /\ U \subseteq Pages
  <2>1. Home(c, s, U) /\ s.s_mem \in Nat
    BY <1>1, SlabAt
  <2>2. Home(d, t, U)
    BY <1>1, SlabAt
  <2> QED BY <2>1, <2>2 DEF SlabInv
<1>3. s.s_mem \in Nat /\ t.s_mem \in Nat /\ s.size \in Nat /\ t.size \in Nat
  BY <1>2, SlabBelow
<1>4. x \in Nat /\ y \in Nat /\ s.s_mem <= x /\ t.s_mem <= y
  BY <1>1, <1>3, ObjPlace
<1>5. /\ x + ObjSize[c] + Header <= s.s_mem + s.size
      /\ y + ObjSize[d] + Header <= t.s_mem + t.size
  BY <1>1, <1>2, ObjInRange
<1>6. /\ ObjSize[c] \in Nat \ {0} /\ ObjSize[d] \in Nat \ {0} /\ Header \in Nat
  BY CacheSizes
<1>7. CASE c = d /\ k = l
  BY <1>1, <1>3, <1>4, <1>7, ObjPlace
<1>8. CASE c # d \/ k # l
  <2>1. Before(s, t) \/ Before(t, s)
    BY <1>1, <1>8 DEF SlabInv
  <2> QED BY <2>1, <1>3, <1>4, <1>5, <1>6 DEF Before
<1> QED BY <1>7, <1>8

\* Of a grant: it is an object, or it lies in a range of vmalloc.
LEMMA GrantIs ==
  ASSUME SlabIInv, NEW g \in granted
  PROVE  /\ g.ptr \in Nat /\ g.size \in Nat \ {0}
         /\ \/ \E c \in Caches : \E k \in Positions(cache[c]) :
                 g.ptr \in Objs(c, cache[c].slabs[k]) /\ g.size <= ObjSize[c]
            \/ \E x \in areas : g.ptr = x.page * PageSize /\ g.size <= x.n * PageSize
BY DEF SlabIInv, GrantInv, Fits

LEMMA AreaIs ==
  ASSUME SlabIInv, NEW x \in areas
  PROVE  /\ x.page \in Nat /\ x.n \in Nat \ {0} /\ VmStart <= x.page
         /\ x.n * PageSize \in Nat /\ x.page * PageSize \in Nat
         /\ VmStart * PageSize <= x.page * PageSize /\ VmStart * PageSize \in Nat
<1>1. x.page \in Nat /\ x.n \in Nat \ {0} /\ VmStart <= x.page
  BY DEF SlabIInv, AreaInv
<1>2. \A u, w \in Nat : u * w \in Nat
  OBVIOUS
<1>3. x.n * PageSize \in Nat
  BY <1>1, <1>2, SlabAssumption
<1> QED BY <1>1, <1>3, VmAddress

\* A grant lies in pages that were allocated.
LEMMA GrantInPages ==
  ASSUME SlabIInv, NEW g \in granted, NEW x \in Bytes(g.ptr, g.size)
  PROVE  x \div PageSize \in used \union UNION {VmBlock(v.page, v.n) : v \in areas}
<1>1. g.ptr \in Nat /\ g.size \in Nat \ {0}
  BY GrantIs
<1>2. x \in Nat /\ g.ptr <= x /\ x < g.ptr + g.size
  BY <1>1 DEF Bytes
<1>3. ASSUME NEW c \in Caches, NEW k \in Positions(cache[c]),
             g.ptr \in Objs(c, cache[c].slabs[k]), g.size <= ObjSize[c]
      PROVE  x \div PageSize \in used
  <2>1. PICK s : s = cache[c].slabs[k]
    OBVIOUS
  <2>2. PICK G : SlabInv(cache, used, G)
    BY DEF SlabIInv
  <2>3. Home(c, s, used) /\ used \subseteq Pages
    BY <2>1, <2>2, SlabAt DEF SlabInv
  <2>4. PICK p \in Pages : /\ s.s_mem = p * PageSize + Header /\ s.size = CachePages[c] * PageSize
                           /\ Block(c, p) \subseteq used
    BY <2>3 DEF Home
  <2>5. g.ptr + ObjSize[c] + Header <= s.s_mem + s.size
    BY <2>1, <2>3, <1>3, ObjInRange
  <2>6. s.s_mem \in Nat /\ s.size \in Nat
    BY <2>3, SlabBelow
  <2>7. s.s_mem <= g.ptr
    BY <2>1, <2>6, <1>3, ObjPlace
  <2>8. PICK m \in Nat \ {0}, o \in Nat, H \in Nat :
          m = CachePages[c] /\ o = ObjSize[c] /\ H = Header
    BY CacheSizes
  <2>9. p \in Nat
    BY SlabAssumption DEF Pages
  <2>10. p * PageSize \in Nat /\ m * PageSize \in Nat
    <3>1. \A u, w \in Nat : u * w \in Nat
      OBVIOUS
    <3> QED BY <3>1, <2>9, SlabAssumption
  <2>11. p * PageSize <= x /\ x < p * PageSize + m * PageSize
    BY <2>4, <2>5, <2>6, <2>7, <2>8, <2>10, <1>1, <1>2, <1>3
  <2>12. x \div PageSize \in p .. p + m - 1
    BY <2>9, <2>11, <1>2, BytesInPages
  <2> QED BY <2>4, <2>8, <2>12 DEF Block
<1>4. ASSUME NEW v \in areas, g.ptr = v.page * PageSize, g.size <= v.n * PageSize
      PROVE  x \div PageSize \in VmBlock(v.page, v.n)
  <2>1. v.page \in Nat /\ v.n \in Nat /\ v.page * PageSize \in Nat /\ v.n * PageSize \in Nat
    BY AreaIs
  <2>2. v.page * PageSize <= x /\ x < v.page * PageSize + v.n * PageSize
    BY <2>1, <1>1, <1>2, <1>4
  <2>3. x \div PageSize \in v.page .. v.page + v.n - 1
    BY <2>1, <2>2, <1>2, BytesInPages
  <2> QED BY <2>3 DEF VmBlock
<1> QED BY <1>3, <1>4, GrantIs

\* A grant does not overlap an object that is not at its address.
LEMMA GrantAndObject ==
  ASSUME SlabIInv, NEW g \in granted,
         NEW d \in Caches, NEW l \in Positions(cache[d]), NEW y \in Objs(d, cache[d].slabs[l]),
         g.ptr # y
  PROVE  y \in Nat /\ (g.ptr + g.size <= y \/ y + ObjSize[d] <= g.ptr)
<1>1. g.ptr \in Nat /\ g.size \in Nat \ {0}
  BY GrantIs
<1>2. PICK G : SlabInv(cache, used, G)
  BY DEF SlabIInv
<1>3. ObjSize[d] \in Nat \ {0} /\ Header \in Nat
  BY CacheSizes
<1>4. y \in Nat /\ y + ObjSize[d] + Header <= VmStart * PageSize
  <2>1. Home(d, cache[d].slabs[l], used) /\ used \subseteq Pages
    BY <1>2, SlabAt DEF SlabInv
  <2> QED BY <2>1, ObjInRange
<1>5. ASSUME NEW c \in Caches, NEW k \in Positions(cache[c]),
             g.ptr \in Objs(c, cache[c].slabs[k]), g.size <= ObjSize[c]
      PROVE  g.ptr + g.size <= y \/ y + ObjSize[d] <= g.ptr
  <2>1. g.ptr + ObjSize[c] <= y \/ y + ObjSize[d] <= g.ptr
    BY <1>2, <1>5, ObjsApart
  <2>2. ObjSize[c] \in Nat
    BY CacheSizes
  <2> QED BY <2>1, <2>2, <1>1, <1>4, <1>5
<1>6. ASSUME NEW v \in areas, g.ptr = v.page * PageSize
      PROVE  y + ObjSize[d] <= g.ptr
  <2>1. VmStart * PageSize <= v.page * PageSize /\ VmStart * PageSize \in Nat
        /\ v.page * PageSize \in Nat
    BY AreaIs
  <2> QED BY <2>1, <1>3, <1>4, <1>6
<1> QED BY <1>4, <1>5, <1>6, GrantIs

\* Two grants do not overlap.
LEMMA GrantsApart ==
  ASSUME SlabIInv, NEW g \in granted, NEW h \in granted, g # h
  PROVE  g.ptr + g.size <= h.ptr \/ h.ptr + h.size <= g.ptr
<1>1. g.ptr \in Nat /\ g.size \in Nat \ {0} /\ h.ptr \in Nat /\ h.size \in Nat \ {0}
  BY GrantIs
<1>2. g.ptr # h.ptr
  BY DEF SlabIInv, GrantInv
<1>3. ASSUME NEW i \in granted, NEW j \in granted, i.ptr # j.ptr,
             NEW d \in Caches, NEW l \in Positions(cache[d]),
             j.ptr \in Objs(d, cache[d].slabs[l]), j.size <= ObjSize[d]
      PROVE  i.ptr + i.size <= j.ptr \/ j.ptr + j.size <= i.ptr
  <2>1. i.ptr + i.size <= j.ptr \/ j.ptr + ObjSize[d] <= i.ptr
    BY <1>3, GrantAndObject
  <2>2. ObjSize[d] \in Nat /\ j.size \in Nat /\ j.ptr \in Nat /\ i.ptr \in Nat
    BY CacheSizes, GrantIs
  <2> QED BY <2>1, <2>2, <1>3
<1>4. CASE \E d \in Caches : \E l \in Positions(cache[d]) :
             h.ptr \in Objs(d, cache[d].slabs[l]) /\ h.size <= ObjSize[d]
  BY <1>2, <1>3, <1>4
<1>5. CASE \E d \in Caches : \E l \in Positions(cache[d]) :
             g.ptr \in Objs(d, cache[d].slabs[l]) /\ g.size <= ObjSize[d]
  BY <1>2, <1>3, <1>5
<1>6. ASSUME NEW v \in areas, g.ptr = v.page * PageSize, g.size <= v.n * PageSize,
             NEW w \in areas, h.ptr = w.page * PageSize, h.size <= w.n * PageSize
      PROVE  g.ptr + g.size <= h.ptr \/ h.ptr + h.size <= g.ptr
  <2>1. /\ v.page \in Nat /\ v.n \in Nat /\ VmStart <= v.page
        /\ v.n * PageSize \in Nat /\ v.page * PageSize \in Nat
    BY AreaIs
  <2>2. /\ w.page \in Nat /\ w.n \in Nat /\ VmStart <= w.page
        /\ w.n * PageSize \in Nat /\ w.page * PageSize \in Nat
    BY AreaIs
  <2>3. v # w
    BY <1>2, <1>6
  <2>4. v.page + v.n <= w.page \/ w.page + w.n <= v.page
    BY <2>3 DEF SlabIInv, AreaInv
  <2>5. CASE v.page + v.n <= w.page
    <3>1. v.page * PageSize + v.n * PageSize <= w.page * PageSize
      BY <2>1, <2>2, <2>5, VmAddress
    <3> QED BY <3>1, <2>1, <2>2, <1>1, <1>6
  <2>6. CASE w.page + w.n <= v.page
    <3>1. w.page * PageSize + w.n * PageSize <= v.page * PageSize
      BY <2>1, <2>2, <2>6, VmAddress
    <3> QED BY <3>1, <2>1, <2>2, <1>1, <1>6
  <2> QED BY <2>4, <2>5, <2>6
<1> QED BY <1>4, <1>5, <1>6, GrantIs

\* A grant does not overlap the header of a slab.
LEMMA GrantAndHeader ==
  ASSUME SlabIInv, NEW g \in granted, NEW d \in Caches, NEW l \in Positions(cache[d])
  PROVE  \/ g.ptr + g.size <= cache[d].slabs[l].s_mem - Header
         \/ cache[d].slabs[l].s_mem <= g.ptr
<1>1. g.ptr \in Nat /\ g.size \in Nat \ {0}
  BY GrantIs
<1>2. PICK G : SlabInv(cache, used, G)
  BY DEF SlabIInv
<1>3. PICK t : t = cache[d].slabs[l]
  OBVIOUS
<1>4. Home(d, t, used) /\ used \subseteq Pages
  BY <1>2, <1>3, SlabAt DEF SlabInv
<1>5. t.s_mem \in Nat /\ t.size \in Nat /\ t.s_mem + t.size <= VmStart * PageSize
      /\ VmStart * PageSize \in Nat
  BY <1>4, SlabBelow
<1>6. ASSUME NEW c \in Caches, NEW k \in Positions(cache[c]),
             g.ptr \in Objs(c, cache[c].slabs[k]), g.size <= ObjSize[c]
      PROVE  g.ptr + g.size <= t.s_mem - Header \/ t.s_mem <= g.ptr
  <2>1. PICK s : s = cache[c].slabs[k]
    OBVIOUS
  <2>2. Home(c, s, used)
    BY <1>2, <2>1, SlabAt
  <2>3. s.s_mem \in Nat /\ s.size \in Nat
    BY <1>4, <2>2, SlabBelow
  <2>4. g.ptr + ObjSize[c] + Header <= s.s_mem + s.size
    BY <2>1, <2>2, <1>4, <1>6, ObjInRange
  <2>5. s.s_mem <= g.ptr
    BY <2>1, <2>3, <1>6, ObjPlace
  <2>6. ObjSize[c] \in Nat /\ Header \in Nat
    BY CacheSizes
  <2>7. CASE c = d /\ k = l
    BY <2>1, <2>5, <2>7, <1>3
  <2>8. CASE c # d \/ k # l
    <3>1. Before(s, t) \/ Before(t, s)
      BY <2>1, <2>8, <1>2, <1>3 DEF SlabInv
    <3> QED BY <3>1, <2>3, <2>4, <2>5, <2>6, <1>1, <1>5, <1>6 DEF Before
  <2> QED BY <2>7, <2>8
<1>7. ASSUME NEW v \in areas, g.ptr = v.page * PageSize
      PROVE  t.s_mem <= g.ptr
  <2>1. VmStart * PageSize <= v.page * PageSize /\ v.page * PageSize \in Nat
    BY AreaIs
  <2> QED BY <2>1, <1>5, <1>7
<1> QED BY <1>3, <1>6, <1>7, GrantIs

\* What kmalloc has handed out overlaps nothing else, whatever slabs and ranges
\* it came from, and lies in pages that were allocated (slab_cache_alloc and
\* slab_cache_free, which find a slab by address alone, and vmalloc).
THEOREM SlabGrantsDisjoint == Spec => []GrantsDisjoint
<1>1. ASSUME SlabIInv PROVE GrantsDisjoint
  <2>1. \A g \in granted : \A x \in Bytes(g.ptr, g.size) :
          x \div PageSize \in used \union UNION {VmBlock(v.page, v.n) : v \in areas}
    BY <1>1, GrantInPages
  <2>2. ASSUME NEW a \in Nat, NEW m \in Nat, NEW b \in Int, NEW n \in Nat,
               a + m <= b \/ b + n <= a
        PROVE  Bytes(a, m) \cap Bytes(b, n) = {}
    BY <2>2 DEF Bytes
  <2>3. ASSUME NEW g \in granted, NEW h \in granted, g # h
        PROVE  Bytes(g.ptr, g.size) \cap Bytes(h.ptr, h.size) = {}
    <3>1. g.ptr \in Nat /\ g.size \in Nat /\ h.ptr \in Nat /\ h.size \in Nat
      BY <1>1, GrantIs
    <3>2. g.ptr + g.size <= h.ptr \/ h.ptr + h.size <= g.ptr
      BY <1>1, <2>3, GrantsApart
    <3>3. h.ptr \in Int
      BY <3>1
    <3> QED BY <3>1, <3>2, <3>3, <2>2
  <2>4. ASSUME NEW g \in granted, NEW s \in Slabs
        PROVE  /\ Bytes(g.ptr, g.size) \cap Bytes(s.s_mem - Header, Header) = {}
               /\ \A i \in 1 .. Len(s.free_list) : s.free_list[i] \notin Bytes(g.ptr, g.size)
    <3>1. PICK d \in Caches : s \in Range(cache[d].slabs)
      BY DEF Slabs
    <3>2. PICK G : G = Ptrs(granted) /\ SlabInv(cache, used, G)
      BY <1>1 DEF SlabIInv
    <3>3. cache[d].slabs \in Seq(SlabRec)
      BY <3>2 DEF SlabInv, CacheRec
    <3>4. PICK l \in Positions(cache[d]) : s = cache[d].slabs[l]
      BY <3>1, <3>3 DEF Range, Positions
    <3>5. s.s_mem \in Nat /\ s.free_list \in Seq(Nat)
      BY <3>2, <3>4, SlabAt
    <3>6. ListOf(d, s, G)
      BY <3>2, <3>4, SlabAt
    <3>7. g.ptr \in Nat /\ g.size \in Nat /\ Header \in Nat
      BY <1>1, GrantIs, CacheSizes
    <3>8. g.ptr + g.size <= s.s_mem - Header \/ s.s_mem <= g.ptr
      BY <1>1, <3>4, GrantAndHeader
    <3>9. Bytes(g.ptr, g.size) \cap Bytes(s.s_mem - Header, Header) = {}
      <4>1. PICK b \in Int : b = s.s_mem - Header
        BY <3>5, <3>7
      <4>2. g.ptr + g.size <= b \/ b + Header <= g.ptr
        BY <4>1, <3>5, <3>7, <3>8
      <4> QED BY <4>1, <4>2, <3>7, <2>2
    <3>10. ASSUME NEW i \in 1 .. Len(s.free_list) PROVE s.free_list[i] \notin Bytes(g.ptr, g.size)
      <4>1. PICK y : y = s.free_list[i]
        OBVIOUS
      <4>2. y \in Range(s.free_list)
        BY <4>1, <3>5 DEF Range
      <4>3. y \in Objs(d, s) /\ y \notin G
        BY <4>2, <3>6 DEF ListOf
      <4>4. g.ptr # y
        BY <4>3, <3>2 DEF Ptrs
      <4>5. y \in Nat /\ (g.ptr + g.size <= y \/ y + ObjSize[d] <= g.ptr)
        BY <1>1, <3>4, <4>3, <4>4, GrantAndObject
      <4>6. ObjSize[d] \in Nat \ {0}
        BY CacheSizes
      <4> QED BY <4>1, <4>5, <4>6, <3>7 DEF Bytes
    <3> QED BY <3>9, <3>10
  <2> QED BY <2>1, <2>3, <2>4 DEF GrantsDisjoint
<1> QED BY <1>1, SlabInvariant, PTL

\* An object is always either handed out or once on the free list of the slab it
\* belongs to, the counters agree, and a small kmalloc never returns null
\* (slab_cache_alloc, slab_cache_free).
THEOREM SlabObjectsConserved == Spec => []ObjectsConserved
<1>1. ASSUME SlabIInv PROVE ObjectsConserved
  <2>1. ASSUME NEW c \in Caches, NEW k \in 1 .. Len(cache[c].slabs)
        PROVE  LET s == cache[c].slabs[k]
                   objs == Range(ObjsAt(c, s.s_mem))
               IN /\ Range(s.free_list) = objs \ {g.ptr : g \in granted}
                  /\ IsInjective(s.free_list)
                  /\ s.free_objects = Len(s.free_list)
    <3>1. PICK s : s = cache[c].slabs[k]
      OBVIOUS
    <3>2. SlabInv(cache, used, Ptrs(granted))
      BY <1>1 DEF SlabIInv
    <3>3. ListOf(c, s, Ptrs(granted))
      BY <3>1, <3>2 DEF SlabInv, Positions
    <3>4. Range(ObjsAt(c, s.s_mem)) = Objs(c, s)
      BY DEF Range, ObjsAt, Objs
    <3> QED BY <3>1, <3>3, <3>4 DEF ListOf, Ptrs
  <2> QED BY <1>1, <2>1 DEF ObjectsConserved, SlabIInv
<1> QED BY <1>1, SlabInvariant, PTL

=============================================================================
