------------------------------ MODULE VmProofs ------------------------------
(***************************************************************************)
(* Proofs about VmArea and KernelVm, for any number of address spaces and  *)
(* tasks, any address range and any sizes.                                 *)
(***************************************************************************)
EXTENDS KernelVm, WellFoundedInduction, TLAPS

AreaRec == [start : Nat, end : Nat]

\* The areas of a list lie in the space; and they are not empty.
Within(list) ==
  \A i \in DOMAIN list :
    Start <= list[i].start /\ list[i].start <= list[i].end /\ list[i].end < End

Inside(list) ==
  \A i \in DOMAIN list :
    Start <= list[i].start /\ list[i].start < list[i].end /\ list[i].end < End

\* They are sorted by address.
Sorted(list) == \A i, j \in DOMAIN list : i < j => list[i].end <= list[j].start

\* No two areas have a page in common.
PagesApart(list) ==
  \A i, j \in DOMAIN list : i # j => PagesOf(list[i]) \cap PagesOf(list[j]) = {}

\* An area is as long as some number of pages, which vmalloc does not refuse.
Sized(a) == \E n \in Nat : n * PageSize < Start /\ a.end = (a.start + n * PageSize) % Wrap
VmRec == {a \in [start : 0 .. Wrap - 1, end : 0 .. Wrap - 1] : Sized(a)}

\* The inductive invariant of VmArea.  A list is sorted and in the space unless areas
\* were asked for at an address; as long as ptm_map_pages has found no page mapped,
\* no two areas of a list share a page, wherever they are.
VmInv ==
  /\ live \subseteq Spaces
  /\ areas \in [Spaces -> Seq(VmRec)]
  /\ mapped \in [Spaces -> SUBSET Int]
  /\ halted \in {"no", "pte exists", "null area", "page fault"}
  /\ \A m \in Spaces \ fixed : Within(areas[m]) /\ Sorted(areas[m])
  /\ Live => \A m \in Spaces : PagesApart(areas[m]) /\ mapped[m] = PagesIn(areas[m])

-----------------------------------------------------------------------------
(* The kernel's areas.                                                     *)

Steps == {"out", "alloc", "find", "map", "free", "take", "unmap"}

\* The pte of page p in the tables that _prepare_hh_init made.
SharedPte(p) == <<<<KRoot, p \div PerEntry>>, p>>

\* Task t is at work on an area of the list.
Busy(t) == kpc[t] \in {"map", "free", "take"}

KvmType ==
  /\ kspaces \subseteq KTasks \union {KRoot} /\ KRoot \in kspaces
  /\ page_dir \in [KTasks \union {KRoot} ->
                      [Entries -> ((KTasks \union {KRoot}) \X Entries) \union {None}]]
  /\ krunning \in KTasks
  /\ kirq \in [KTasks -> BOOLEAN]
  /\ kpc \in [KTasks -> Steps]
  /\ karea \in [KTasks -> AreaRec]
  /\ k_vmlist \in Seq(AreaRec) /\ Inside(k_vmlist) /\ Sorted(k_vmlist)
  /\ returned \subseteq ToSet(k_vmlist)
  /\ panicked \in BOOLEAN

\* Every address space has the tables made at boot.
SameTables == \A s \in kspaces : \A i \in Entries : page_dir[s][i] = <<KRoot, i>>

\* A task that another one has interrupted in a call had interrupts on.
IrqOn == \A t \in KTasks : kpc[t] # "out" /\ t # krunning => kirq[t]

LockHeld == \A t \in KTasks : kpc[t] \in {"find", "take"} => k_vmlist_lock = t

\* Where a task is in its call, and what is left of its area.
AreaOf(t) ==
  /\ kpc[t] \in {"alloc", "find"} => karea[t].end \in Sizes /\ ~TooLarge(karea[t].end)
  /\ kpc[t] \in {"free", "take"} => karea[t] \in ToSet(k_vmlist)
  /\ kpc[t] = "map" => /\ karea[t].start < karea[t].end
                       /\ \E a \in ToSet(k_vmlist) : a.end = karea[t].end /\ a.start <= karea[t].start
  /\ kpc[t] = "unmap" => /\ Start <= karea[t].start /\ karea[t].start < karea[t].end
                         /\ karea[t].end < End

\* No two tasks are at work on one area, and none on one that is given out.
OneOwner ==
  /\ \A t, u \in KTasks : t # u /\ Busy(t) /\ Busy(u) => karea[t].end # karea[u].end
  /\ \A t \in KTasks, a \in returned : Busy(t) => karea[t].end # a.end

\* Task t has still to map page p of area a.
ToMap(t, a, p) == kpc[t] = "map" /\ karea[t].end = a.end /\ karea[t].start <= p
ToUnmap(t, p) == kpc[t] = "unmap" /\ p \in KPagesOf(karea[t])

\* What is mapped: the areas on the list, but for what is still to be mapped, and
\* what vfree has still to unmap.
Present(p) ==
  \/ \E a \in ToSet(k_vmlist) : p \in KPagesOf(a) /\ \A t \in KTasks : ~ToMap(t, a, p)
  \/ \E t \in KTasks : ToUnmap(t, p)

PtesExact ==
  /\ \A pte \in ptes : \E p \in Start .. End - 1 : pte = SharedPte(p)
  /\ \A p \in Start .. End - 1 : SharedPte(p) \in ptes <=> Present(p)

\* The pages vfree has still to unmap may be given out again, but they are not
\* mapped again.
Windows ==
  /\ \A t, u \in KTasks, p \in Start .. End - 1 : ToUnmap(t, p) /\ ToUnmap(u, p) => t = u
  /\ \A t \in KTasks, p \in Start .. End - 1, a \in ToSet(k_vmlist) :
       ToUnmap(t, p) /\ p \in KPagesOf(a) => \E u \in KTasks : ToMap(u, a, p)

KvmInv ==
  /\ KvmType
  /\ ~panicked =>
       /\ SameTables /\ IrqOn /\ LockHeld /\ OneOwner /\ PtesExact /\ Windows
       /\ \A t \in KTasks : AreaOf(t)
  /\ PanicsInWindowOnly

-----------------------------------------------------------------------------
(* Lists.                                                                  *)

\* A set of numbers that is not empty has a least one.
LEMMA MinOf ==
  ASSUME NEW S \in SUBSET Nat, S # {}
  PROVE  Min(S) \in S /\ \A j \in S : Min(S) <= j
<1> DEFINE R == {p \in Nat \X Nat : p[1] < p[2]}
<1>1. IsWellFoundedOn(R, Nat)
  BY NatLessThanWellFounded DEF OpToRel
<1> HIDE DEF R
<1>2. PICK x \in S : \A y \in S : ~(<<y, x>> \in R)
  BY <1>1, WFMin
<1>3. \A y \in S : ~(y < x)
  BY <1>2 DEF R
<1>4. \E z \in S : \A y \in S : z <= y
  BY <1>2, <1>3
<1> QED BY <1>4 DEF Min

LEMMA Joined ==
  ASSUME NEW S, NEW u \in Seq(S), NEW v \in Seq(S)
  PROVE  u \o v \in Seq(S) /\ Len(u \o v) = Len(u) + Len(v)
OBVIOUS

\* t is the list with a behind position i.
Inserted(list, i, a, t) ==
  \A j \in 1 .. Len(list) + 1 :
    t[j] = IF j <= i THEN list[j] ELSE IF j = i + 1 THEN a ELSE list[j - 1]

\* A new area is put behind position i (mm_find_vm_area).
LEMMA AreaInserted ==
  ASSUME NEW S, NEW list \in Seq(S), NEW i \in 0 .. Len(list), NEW a \in S,
         NEW t, t = InsertAt(list, i + 1, a)
  PROVE  /\ t \in Seq(S) /\ Len(t) = Len(list) + 1 /\ DOMAIN t = 1 .. Len(list) + 1
         /\ Inserted(list, i, a, t)
         /\ ToSet(t) = ToSet(list) \union {a}
<1>1. PICK n \in Nat : n = Len(list)
  OBVIOUS
<1>2. PICK u, v : u = SubSeq(list, 1, i) /\ v = SubSeq(list, i + 1, n)
  OBVIOUS
<1>3. (i + 1) - 1 = i
  OBVIOUS
<1>4. t = u \o <<a>> \o v
  BY <1>1, <1>2, <1>3 DEF InsertAt
<1>5. /\ u \in Seq(S) /\ Len(u) = i /\ \A j \in 1 .. i : u[j] = list[j]
  BY <1>1, <1>2
<1>6. /\ v \in Seq(S) /\ Len(v) = n - i /\ \A j \in 1 .. n - i : v[j] = list[i + j]
  BY <1>1, <1>2
<1>7. t \in Seq(S) /\ Len(t) = n + 1
  <2>1. PICK w : w = u \o <<a>>
    OBVIOUS
  <2>2. w \in Seq(S) /\ Len(w) = i + 1
    BY <2>1, <1>5
  <2>3. t \in Seq(S) /\ Len(t) = Len(w) + Len(v)
    <3>1. t = w \o v /\ v \in Seq(S)
      BY <2>1, <1>4, <1>6
    <3> QED BY ONLY <3>1, <2>2, Joined
  <2> QED BY <2>2, <2>3, <1>1, <1>6
<1>8. \A j \in 1 .. n + 1 :
        t[j] = IF j <= i THEN list[j] ELSE IF j = i + 1 THEN a ELSE list[j - 1]
  <2>1. TAKE j \in 1 .. n + 1
  <2>2. PICK w : w = u \o <<a>>
    OBVIOUS
  <2>3. w \in Seq(S) /\ Len(w) = i + 1 /\ w[i + 1] = a /\ \A k \in 1 .. i : w[k] = list[k]
    BY <2>2, <1>5
  <2>4. CASE j <= i + 1
    <3>1. t[j] = w[j]
      BY <2>2, <2>3, <2>4, <1>4, <1>6
    <3> QED BY <3>1, <2>3, <2>4
  <2>5. CASE j > i + 1
    <3>1. PICK k \in 1 .. n - i : k = j - (i + 1)
      BY <2>5, <1>1
    <3>2. t[j] = v[k]
      BY <2>2, <2>3, <2>5, <3>1, <1>4, <1>6, <1>1
    <3>3. v[k] = list[i + k] /\ i + k = j - 1
      BY <3>1, <1>6
    <3> QED BY <3>2, <3>3, <2>5
  <2> QED BY <2>4, <2>5
<1>9. DOMAIN t = 1 .. n + 1 /\ DOMAIN list = 1 .. n
  BY <1>1, <1>7
<1>10. ToSet(t) = ToSet(list) \union {a}
  <2>1. ASSUME NEW x \in ToSet(t) PROVE x \in ToSet(list) \union {a}
    <3>1. PICK j \in 1 .. n + 1 : x = t[j]
      BY <1>9 DEF ToSet
    <3>2. CASE j <= i
      <4>1. t[j] = list[j] /\ j \in 1 .. n
        BY <3>1, <3>2, <1>1, <1>8
      <4> QED BY <4>1, <3>1, <1>9 DEF ToSet
    <3>3. CASE j = i + 1
      BY <3>1, <3>3, <1>8
    <3>4. CASE j > i + 1
      <4>1. t[j] = list[j - 1] /\ j - 1 \in 1 .. n
        BY <3>1, <3>4, <1>1, <1>8
      <4> QED BY <4>1, <3>1, <1>9 DEF ToSet
    <3> QED BY <3>2, <3>3, <3>4
  <2>2. ASSUME NEW x \in ToSet(list) \union {a} PROVE x \in ToSet(t)
    <3>1. CASE x = a
      <4>1. i + 1 \in 1 .. n + 1 /\ t[i + 1] = a
        BY <1>1, <1>8
      <4> QED BY <4>1, <3>1, <1>9 DEF ToSet
    <3>2. CASE x \in ToSet(list)
      <4>1. PICK j \in 1 .. n : x = list[j]
        BY <3>2, <1>9 DEF ToSet
      <4>2. CASE j <= i
        <5>1. j \in 1 .. n + 1 /\ t[j] = x
          BY <4>1, <4>2, <1>8
        <5> QED BY <5>1, <1>9 DEF ToSet
      <4>3. CASE j > i
        <5>1. j + 1 \in 1 .. n + 1 /\ (j + 1) - 1 = j /\ ~(j + 1 <= i) /\ j + 1 # i + 1
          BY <4>3
        <5>2. t[j + 1] = x
          BY <5>1, <4>1, <1>8
        <5> QED BY <5>1, <5>2, <1>9 DEF ToSet
      <4> QED BY <4>2, <4>3
    <3> QED BY <3>1, <3>2
  <2> QED BY <2>1, <2>2
<1> QED BY <1>1, <1>7, <1>8, <1>9, <1>10 DEF Inserted

\* The area at position i is taken off (mm_get_vm_area).
LEMMA AreaRemoved ==
  ASSUME NEW S, NEW list \in Seq(S), NEW i \in 1 .. Len(list), NEW t, t = RemoveAt(list, i)
  PROVE  /\ t \in Seq(S) /\ Len(t) = Len(list) - 1 /\ DOMAIN t = 1 .. Len(list) - 1
         /\ \A j \in 1 .. Len(list) - 1 : t[j] = IF j < i THEN list[j] ELSE list[j + 1]
         /\ \A x : x \in ToSet(t) <=> \E j \in 1 .. Len(list) : j # i /\ x = list[j]
<1>1. PICK n \in Nat : n = Len(list)
  OBVIOUS
<1>2. PICK u, v : u = SubSeq(list, 1, i - 1) /\ v = SubSeq(list, i + 1, n)
  OBVIOUS
<1>3. t = u \o v
  BY <1>1, <1>2 DEF RemoveAt
<1>4. /\ u \in Seq(S) /\ Len(u) = i - 1 /\ \A j \in 1 .. i - 1 : u[j] = list[j]
  BY <1>1, <1>2
<1>5. /\ v \in Seq(S) /\ Len(v) = n - i /\ \A j \in 1 .. n - i : v[j] = list[i + j]
  BY <1>1, <1>2
<1>6. t \in Seq(S) /\ Len(t) = n - 1
  <2>1. t \in Seq(S) /\ Len(t) = Len(u) + Len(v)
    <3>1. u \in Seq(S) /\ v \in Seq(S)
      BY <1>4, <1>5
    <3> QED BY ONLY <3>1, <1>3, Joined
  <2> QED BY <2>1, <1>1, <1>4, <1>5
<1>7. \A j \in 1 .. n - 1 : t[j] = IF j < i THEN list[j] ELSE list[j + 1]
  <2>1. TAKE j \in 1 .. n - 1
  <2>2. CASE j < i
    BY <2>2, <1>3, <1>4, <1>5
  <2>3. CASE j >= i
    <3>1. PICK k \in 1 .. n - i : k = j - (i - 1)
      BY <2>3, <1>1
    <3>2. t[j] = v[k]
      BY <2>3, <3>1, <1>1, <1>3, <1>4, <1>5
    <3>3. v[k] = list[i + k] /\ i + k = j + 1
      BY <3>1, <1>5
    <3> QED BY <3>2, <3>3, <2>3
  <2> QED BY <2>2, <2>3
<1>8. DOMAIN t = 1 .. n - 1
  BY <1>1, <1>6
<1>9. ASSUME NEW x PROVE x \in ToSet(t) <=> \E j \in 1 .. n : j # i /\ x = list[j]
  <2>1. ASSUME x \in ToSet(t) PROVE \E j \in 1 .. n : j # i /\ x = list[j]
    <3>1. PICK j \in 1 .. n - 1 : x = t[j]
      BY <2>1, <1>8 DEF ToSet
    <3>2. CASE j < i
      <4>1. j \in 1 .. n /\ j # i /\ x = list[j]
        BY <3>1, <3>2, <1>7
      <4> QED BY <4>1
    <3>3. CASE j >= i
      <4>1. j + 1 \in 1 .. n /\ j + 1 # i /\ x = list[j + 1]
        BY <3>1, <3>3, <1>7
      <4> QED BY <4>1
    <3> QED BY <3>2, <3>3
  <2>2. ASSUME NEW j \in 1 .. n, j # i, x = list[j] PROVE x \in ToSet(t)
    <3>1. CASE j < i
      <4>1. j \in 1 .. n - 1 /\ x = t[j]
        BY <2>2, <3>1, <1>1, <1>7
      <4> QED BY <4>1, <1>8 DEF ToSet
    <3>2. CASE j > i
      <4>1. j - 1 \in 1 .. n - 1 /\ (j - 1) + 1 = j /\ ~(j - 1 < i)
        BY <3>2
      <4>2. x = t[j - 1]
        BY <4>1, <2>2, <1>7
      <4> QED BY <4>1, <4>2, <1>8 DEF ToSet
    <3> QED BY <3>1, <3>2, <2>2
  <2> QED BY <2>1, <2>2
<1> QED BY <1>1, <1>6, <1>7, <1>8, <1>9

-----------------------------------------------------------------------------
(* mm_find_vm_area.                                                        *)

LEMMA AreaType ==
  /\ \A s, e \in Nat : Area(s, e) \in AreaRec /\ Area(s, e).start = s /\ Area(s, e).end = e
  /\ \A a \in AreaRec : a.start \in Nat /\ a.end \in Nat /\ a = Area(a.start, a.end)
BY DEF AreaRec, Area

LEMMA InList ==
  ASSUME NEW list \in Seq(AreaRec)
  PROVE  /\ DOMAIN list = 1 .. Len(list) /\ Len(list) \in Nat
         /\ \A i \in DOMAIN list : list[i] \in AreaRec /\ list[i].start \in Nat /\ list[i].end \in Nat
         /\ \A i \in DOMAIN list : list[i] \in ToSet(list)
         /\ \A a \in ToSet(list) : a \in AreaRec /\ \E i \in DOMAIN list : a = list[i]
<1>1. DOMAIN list = 1 .. Len(list) /\ Len(list) \in Nat
  OBVIOUS
<1>2. \A i \in DOMAIN list : list[i] \in AreaRec
  OBVIOUS
<1>3. \A i \in DOMAIN list : list[i].start \in Nat /\ list[i].end \in Nat
  BY <1>2, AreaType
<1>4. /\ \A i \in DOMAIN list : list[i] \in ToSet(list)
      /\ \A a \in ToSet(list) : a \in AreaRec /\ \E i \in DOMAIN list : a = list[i]
  BY <1>2 DEF ToSet
<1> QED BY <1>1, <1>2, <1>3, <1>4

LEMMA InsideWithin == ASSUME NEW list \in Seq(AreaRec), Inside(list) PROVE Within(list)
<1>1. \A i \in DOMAIN list : list[i].start \in Nat /\ list[i].end \in Nat
  BY InList
<1> QED BY <1>1 DEF Inside, Within

\* A size that is asked for.
LEMMA SizeType == ASSUME NEW size \in Sizes PROVE size \in Nat \ {0} /\ Start \in Nat /\ End \in Nat
BY VmAreaAssumption

\* uptr arithmetic.
LEMMA WrapFacts ==
  /\ \A x \in Int : 0 <= x /\ x < Wrap => x % Wrap = x
  /\ \A x \in Int : Wrap <= x /\ x < 2 * Wrap => x % Wrap = x - Wrap
  /\ \A x \in Int : -Wrap <= x /\ x < 0 => x % Wrap = x + Wrap
  /\ \A x \in Int : x % Wrap \in 0 .. Wrap - 1
<1>1. Wrap \in Nat \ {0}
  BY VmAreaAssumption
<1>2. \A x \in Int : 0 <= x /\ x < Wrap => x % Wrap = x
  BY <1>1
<1>3. \A x \in Int : Wrap <= x /\ x < 2 * Wrap => x % Wrap = x - Wrap
  BY <1>1
<1>4. \A x \in Int : -Wrap <= x /\ x < 0 => x % Wrap = x + Wrap
  BY <1>1
<1>5. \A x \in Int : x % Wrap \in 0 .. Wrap - 1
  BY <1>1
<1> QED BY <1>2, <1>3, <1>4, <1>5

\* The range that mm_find_vm_area picks lies in the space, behind the area at
\* which it stopped and before the next.
LEMMA Picked ==
  ASSUME NEW list \in Seq(AreaRec), Within(list), NEW size \in Nat, ~TooLarge(size),
         NEW i, i = FindFree(list, size), i # NoRoom, NEW a, a = Behind(list, i, size)
  PROVE  /\ i \in 0 .. Len(list) /\ a \in AreaRec /\ a.end = a.start + size
         /\ Start <= a.start /\ a.end < End
         /\ i # 0 => a.start = list[i].end
         /\ i < Len(list) => a.end <= list[i + 1].start
<1>1. /\ Start \in Nat /\ End \in Nat /\ Wrap \in Nat /\ size < Start
      /\ Start < End /\ End + Start <= Wrap
  BY VmAreaAssumption DEF TooLarge
<1>2. PICK n \in Nat : n = Len(list) /\ DOMAIN list = 1 .. n
  BY InList
<1>3. \A k \in 1 .. n : list[k].start \in Nat /\ list[k].end \in Nat
  BY <1>2, InList
<1>4. \A k \in 1 .. n : Start <= list[k].start /\ list[k].start <= list[k].end /\ list[k].end < End
  BY <1>2 DEF Within
<1>5. PICK caves : caves = Caves(list, size)
  OBVIOUS
<1>5a. \A e \in Nat : e < End => (e + size) % Wrap = e + size
  <2>1. \A e \in Nat : e < End => 0 <= e + size /\ e + size < Wrap /\ e + size \in Int
    BY <1>1
  <2> QED BY <2>1, WrapFacts
<1>6. CASE caves # {}
  <2>1. caves \in SUBSET Nat /\ \A k \in caves : k \in 1 .. n - 1
    BY <1>2, <1>5 DEF Caves
  <2>2. PICK k \in 1 .. n - 1 : k = Min(caves)
    BY <2>1, <1>6, MinOf
  <2>3. i = k /\ CaveHolds(list, k, size)
    BY <2>2, <1>5, <1>6 DEF FindFree
  <2>4. k \in 1 .. n /\ k + 1 \in 1 .. n /\ k # 0 /\ k \in 0 .. n
    BY <2>2
  <2>5. PICK e \in Nat : e = list[k].end /\ e < End
    BY <2>4, <1>3, <1>4
  <2>6. e + size <= list[k + 1].start
    BY <2>3, <2>5, <1>5a DEF CaveHolds
  <2>7. a = Area(e, e + size)
    BY <2>3, <2>4, <2>5, <1>5a DEF Behind
  <2>8. a.start = e /\ a.end = e + size /\ a \in AreaRec
    BY <2>7, <1>1, AreaType
  <2>9. Start <= e /\ e + size < End
    <3>1. Start <= list[k].start /\ list[k].start <= e /\ list[k].start \in Nat
      BY <2>4, <2>5, <1>3, <1>4
    <3>2. list[k + 1].start <= list[k + 1].end /\ list[k + 1].end < End
          /\ list[k + 1].start \in Nat /\ list[k + 1].end \in Nat
      BY <2>4, <1>3, <1>4
    <3> QED BY <3>1, <3>2, <2>6, <1>1
  <2> QED BY <2>3, <2>4, <2>5, <2>6, <2>8, <2>9, <1>2
<1>7. CASE caves = {}
  <2>1. i = n /\ ~BeyondEnd(Behind(list, n, size).end)
    BY <1>2, <1>5, <1>7 DEF FindFree, TailOf
  <2>2. PICK e \in Nat : /\ e = IF n = 0 THEN Start ELSE list[n].end
                         /\ Start <= e /\ e < End
    <3>1. CASE n = 0
      BY <3>1, <1>1
    <3>2. CASE n # 0
      <4>1. n \in 1 .. n
        BY <3>2
      <4>2. list[n].end \in Nat /\ list[n].start \in Nat /\ Start <= list[n].start
            /\ list[n].start <= list[n].end /\ list[n].end < End
        BY <4>1, <1>3, <1>4
      <4> QED BY <4>2, <3>2, <1>1
    <3> QED BY <3>1, <3>2
  <2>3. a = Area(e, e + size)
    BY <2>1, <2>2, <1>5a DEF Behind
  <2>4. a.start = e /\ a.end = e + size /\ a \in AreaRec
    BY <2>3, <1>1, AreaType
  <2>5. a.end < End
    BY <2>1, <2>4, <1>1 DEF BeyondEnd
  <2> QED BY <2>1, <2>2, <2>4, <2>5, <1>2
<1> QED BY <1>6, <1>7

\* In a sorted list a range between two neighbours lies between all areas.
LEMMA Gap ==
  ASSUME NEW list \in Seq(AreaRec), Within(list), Sorted(list), NEW i \in 0 .. Len(list),
         NEW a \in AreaRec, i # 0 => list[i].end <= a.start,
         i < Len(list) => a.end <= list[i + 1].start
  PROVE  \A k \in DOMAIN list : /\ k <= i => list[k].end <= a.start
                                /\ k > i => a.end <= list[k].start
<1>1. PICK n \in Nat : n = Len(list) /\ DOMAIN list = 1 .. n
  BY InList
<1>2. \A k \in 1 .. n : list[k].start \in Nat /\ list[k].end \in Nat
  BY <1>1, InList
<1>3. \A k \in 1 .. n : list[k].start <= list[k].end
  BY <1>1 DEF Within
<1>4. a.start \in Nat /\ a.end \in Nat
  BY AreaType
<1>5. \A k, l \in 1 .. n : k < l => list[k].end <= list[l].start
  BY <1>1 DEF Sorted
<1>6. ASSUME NEW k \in 1 .. n, k <= i PROVE list[k].end <= a.start
  <2>1. CASE k = i
    BY <2>1
  <2>2. CASE k < i
    <3>1. i \in 1 .. n /\ i # 0
      BY <2>2, <1>1
    <3>2. list[k].end <= list[i].start /\ list[i].start <= list[i].end /\ list[i].end <= a.start
      BY <3>1, <2>2, <1>3, <1>5
    <3> QED BY <3>1, <3>2, <1>2, <1>4
  <2> QED BY <2>1, <2>2, <1>6
<1>7. ASSUME NEW k \in 1 .. n, k > i PROVE a.end <= list[k].start
  <2>1. i + 1 \in 1 .. n /\ i < n
    BY <1>1, <1>7
  <2>2. CASE k = i + 1
    BY <2>1, <2>2, <1>1
  <2>3. CASE k > i + 1
    <3>1. /\ a.end <= list[i + 1].start /\ list[i + 1].start <= list[i + 1].end
          /\ list[i + 1].end <= list[k].start
      BY <2>1, <2>3, <1>1, <1>3, <1>5
    <3> QED BY <3>1, <2>1, <1>2, <1>4
  <2> QED BY <2>2, <2>3, <1>7
<1> QED BY <1>1, <1>6, <1>7

\* A list with a new area behind position i, in a gap that is large enough.
LEMMA Added ==
  ASSUME NEW list \in Seq(AreaRec), Within(list), NEW i \in 0 .. Len(list), NEW a \in AreaRec,
         Start <= a.start, a.start <= a.end, a.end < End,
         NEW t, t = InsertAt(list, i + 1, a)
  PROVE  /\ t \in Seq(AreaRec) /\ Within(t) /\ ToSet(t) = ToSet(list) \union {a}
         /\ Inside(list) /\ a.start < a.end => Inside(t)
         /\ Sorted(list) /\ (i # 0 => list[i].end <= a.start)
            /\ (i < Len(list) => a.end <= list[i + 1].start) => Sorted(t)
<1>1. PICK n \in Nat : n = Len(list) /\ DOMAIN list = 1 .. n
  BY InList
<1>2. \A k \in 1 .. n : list[k].start \in Nat /\ list[k].end \in Nat
  BY <1>1, InList
<1>3. \A k \in 1 .. n : Start <= list[k].start /\ list[k].start <= list[k].end /\ list[k].end < End
  BY <1>1 DEF Within
<1>4. /\ t \in Seq(AreaRec) /\ DOMAIN t = 1 .. n + 1 /\ ToSet(t) = ToSet(list) \union {a}
      /\ \A j \in 1 .. n + 1 :
           t[j] = IF j <= i THEN list[j] ELSE IF j = i + 1 THEN a ELSE list[j - 1]
  <2>1. t \in Seq(AreaRec) /\ DOMAIN t = 1 .. n + 1
    BY <1>1, AreaInserted
  <2>2. ToSet(t) = ToSet(list) \union {a}
    BY AreaInserted
  <2>3. \A j \in 1 .. n + 1 :
          t[j] = IF j <= i THEN list[j] ELSE IF j = i + 1 THEN a ELSE list[j - 1]
    <3>1. Inserted(list, i, a, t)
      BY AreaInserted
    <3> QED BY <3>1, <1>1 DEF Inserted
  <2> QED BY <2>1, <2>2, <2>3
<1>5. \A j \in 1 .. n + 1 :
        \/ j <= i /\ j \in 1 .. n /\ t[j] = list[j]
        \/ j = i + 1 /\ t[j] = a
        \/ j > i + 1 /\ j - 1 \in 1 .. n /\ t[j] = list[j - 1]
  BY <1>1, <1>4
<1>6. Within(t)
  BY <1>3, <1>4, <1>5 DEF Within
<1>6a. ASSUME Inside(list), a.start < a.end PROVE Inside(t)
  <2>1. \A k \in 1 .. n : Start <= list[k].start /\ list[k].start < list[k].end /\ list[k].end < End
    BY <1>1, <1>6a DEF Inside
  <2> QED BY <2>1, <1>4, <1>5, <1>6a DEF Inside
<1>7. ASSUME Sorted(list), i # 0 => list[i].end <= a.start,
             i < n => a.end <= list[i + 1].start
      PROVE  Sorted(t)
  <2>2. \A k, l \in 1 .. n : k < l => list[k].end <= list[l].start
    BY <1>1, <1>7 DEF Sorted
  <2>3. \A k \in 1 .. n : k <= i => list[k].end <= a.start
    BY <1>1, <1>7, Gap
  <2>4. \A k \in 1 .. n : k > i => a.end <= list[k].start
    BY <1>1, <1>7, Gap
  <2>5. ASSUME NEW k \in 1 .. n + 1, NEW l \in 1 .. n + 1, k < l PROVE t[k].end <= t[l].start
    <3>1. CASE k <= i /\ l <= i
      BY <3>1, <2>2, <2>5, <1>5
    <3>2. CASE k <= i /\ l = i + 1
      BY <3>2, <2>3, <1>5
    <3>3. CASE k <= i /\ l > i + 1
      <4>1. k \in 1 .. n /\ l - 1 \in 1 .. n /\ k < l - 1 /\ t[k] = list[k] /\ t[l] = list[l - 1]
        BY <3>3, <1>5
      <4> QED BY <4>1, <2>2
    <3>4. CASE k = i + 1
      <4>1. l - 1 \in 1 .. n /\ l - 1 > i /\ t[k] = a /\ t[l] = list[l - 1]
        BY <3>4, <2>5, <1>5
      <4> QED BY <4>1, <2>4
    <3>5. CASE k > i + 1
      <4>1. /\ k - 1 \in 1 .. n /\ l - 1 \in 1 .. n /\ k - 1 < l - 1
            /\ t[k] = list[k - 1] /\ t[l] = list[l - 1]
        BY <3>5, <2>5, <1>5
      <4> QED BY <4>1, <2>2
    <3> QED BY <3>1, <3>2, <3>3, <3>4, <3>5, <2>5
  <2> QED BY <2>5, <1>4 DEF Sorted
<1> QED BY <1>1, <1>4, <1>6, <1>6a, <1>7

Others(list, i) == {list[j] : j \in (1 .. Len(list)) \ {i}}

\* A list without the area at position i.
LEMMA Dropped ==
  ASSUME NEW list \in Seq(AreaRec), NEW i \in 1 .. Len(list),
         NEW t, t = RemoveAt(list, i)
  PROVE  /\ t \in Seq(AreaRec)
         /\ Within(list) => Within(t)
         /\ Inside(list) => Inside(t)
         /\ Sorted(list) => Sorted(t)
         /\ ToSet(t) = Others(list, i)
<1>1. PICK n \in Nat : n = Len(list) /\ DOMAIN list = 1 .. n
  BY InList
<1>2. /\ t \in Seq(AreaRec) /\ DOMAIN t = 1 .. n - 1
      /\ \A j \in 1 .. n - 1 : t[j] = IF j < i THEN list[j] ELSE list[j + 1]
  BY <1>1, AreaRemoved
<1>3. ToSet(t) = Others(list, i)
  <2>1. \A x : x \in ToSet(t) <=> \E j \in 1 .. Len(list) : j # i /\ x = list[j]
    BY AreaRemoved
  <2>2. \A x : x \in Others(list, i) <=> \E j \in (1 .. Len(list)) \ {i} : x = list[j]
    BY Zenon DEF Others
  <2>3. \A x : x \in ToSet(t) <=> x \in Others(list, i)
    BY <2>1, <2>2
  <2> QED BY ONLY <2>3, Zenon
<1>4. \A j \in 1 .. n - 1 :
        \/ j < i /\ j \in 1 .. n /\ t[j] = list[j]
        \/ ~(j < i) /\ j + 1 \in 1 .. n /\ t[j] = list[j + 1]
  BY <1>2
<1>5. \A j \in 1 .. n - 1 : \E k \in 1 .. n : t[j] = list[k]
  BY <1>4
<1>6. (Within(list) => Within(t)) /\ (Inside(list) => Inside(t))
  <2>1. ASSUME Within(list) PROVE Within(t)
    <3>1. \A k \in 1 .. n : Start <= list[k].start /\ list[k].start <= list[k].end /\ list[k].end < End
      BY <1>1, <2>1 DEF Within
    <3>2. \A j \in 1 .. n - 1 : Start <= t[j].start /\ t[j].start <= t[j].end /\ t[j].end < End
      BY <3>1, <1>5
    <3> QED BY <3>2, <1>2 DEF Within
  <2>2. ASSUME Inside(list) PROVE Inside(t)
    <3>1. \A k \in 1 .. n : Start <= list[k].start /\ list[k].start < list[k].end /\ list[k].end < End
      BY <1>1, <2>2 DEF Inside
    <3>2. \A j \in 1 .. n - 1 : Start <= t[j].start /\ t[j].start < t[j].end /\ t[j].end < End
      BY <3>1, <1>5
    <3> QED BY <3>2, <1>2 DEF Inside
  <2> QED BY <2>1, <2>2
<1>7. ASSUME NEW k \in 1 .. n - 1, NEW l \in 1 .. n - 1, k < l
      PROVE  \E u, v \in 1 .. n : u < v /\ t[k] = list[u] /\ t[l] = list[v]
  <2>1. CASE k < i /\ l < i
    BY <2>1, <1>4, <1>7
  <2>2. CASE k < i /\ ~(l < i)
    <3>1. k \in 1 .. n /\ l + 1 \in 1 .. n /\ k < l + 1
      BY <2>2, <1>4
    <3> QED BY <3>1, <2>2, <1>4
  <2>3. CASE ~(k < i)
    <3>1. ~(l < i) /\ k + 1 < l + 1
      BY <2>3, <1>7
    <3> QED BY <3>1, <2>3, <1>4
  <2> QED BY <2>1, <2>2, <2>3
<1>8. Sorted(list) => Sorted(t)
  <2>1. SUFFICES ASSUME Sorted(list), NEW k \in 1 .. n - 1, NEW l \in 1 .. n - 1, k < l
                 PROVE  t[k].end <= t[l].start
    BY <1>2 DEF Sorted
  <2>2. PICK u, v \in 1 .. n : u < v /\ t[k] = list[u] /\ t[l] = list[v]
    BY <2>1, <1>7
  <2> QED BY <2>1, <2>2, <1>1 DEF Sorted
<1> QED BY <1>1, <1>2, <1>3, <1>6, <1>8

\* A range at the tail of the list (mm_find_vm_area with an address).
LEMMA Appended ==
  ASSUME NEW S, NEW list \in Seq(S), NEW a \in S
  PROVE  Append(list, a) = InsertAt(list, Len(list) + 1, a)
<1>1. PICK n \in Nat : n = Len(list)
  OBVIOUS
<1>2. (n + 1) - 1 = n
  OBVIOUS
<1>3. SubSeq(list, 1, n) = list
  BY <1>1
<1>4. SubSeq(list, n + 1, n) = <<>>
  BY <1>1
<1>5. PICK t \in Seq(S) : t = Append(list, a)
  <2>1. Append(list, a) \in Seq(S)
    OBVIOUS
  <2> QED BY <2>1
<1>6. list \o <<a>> = t /\ t \o <<>> = t
  BY <1>5
<1> QED BY <1>1, <1>2, <1>3, <1>4, <1>5, <1>6 DEF InsertAt

\* Two ranges that share no page are apart.
LEMMA RangesApart ==
  ASSUME NEW a \in AreaRec, NEW b \in AreaRec, a.start < a.end, b.start < b.end
  PROVE  /\ KPagesOf(a) \cap KPagesOf(b) = {} => a.end <= b.start \/ b.end <= a.start
         /\ a.end <= b.start \/ b.end <= a.start => KPagesOf(a) \cap KPagesOf(b) = {}
<1>1. a.start \in Nat /\ a.end \in Nat /\ b.start \in Nat /\ b.end \in Nat
  BY AreaType
<1>2. ASSUME KPagesOf(a) \cap KPagesOf(b) = {} PROVE a.end <= b.start \/ b.end <= a.start
  <2>1. a.start \in KPagesOf(a) /\ b.start \in KPagesOf(b)
    BY <1>1 DEF KPagesOf
  <2>2. a.start \notin KPagesOf(b) /\ b.start \notin KPagesOf(a)
    BY <2>1, <1>2
  <2> QED BY <2>2, <1>1 DEF KPagesOf
<1>3. ASSUME a.end <= b.start \/ b.end <= a.start PROVE KPagesOf(a) \cap KPagesOf(b) = {}
  BY <1>1, <1>3 DEF KPagesOf
<1> QED BY <1>2, <1>3

-----------------------------------------------------------------------------
(* Areas of whole pages.                                                   *)

LEMMA Constants ==
  /\ PageSize \in Nat \ {0} /\ Start \in Nat \ {0} /\ End \in Nat /\ Wrap \in Nat \ {0}
  /\ Start < End /\ End + Start <= Wrap /\ Start < Wrap
  /\ \E w \in Nat : Wrap = w * PageSize
<1>1. /\ PageSize \in Nat \ {0} /\ Start \in Nat \ {0} /\ End \in Nat /\ Wrap \in Nat
      /\ Start < End /\ End + Start <= Wrap /\ Wrap % PageSize = 0
  BY VmAreaAssumption
<1>2. Wrap = PageSize * (Wrap \div PageSize) + (Wrap % PageSize) /\ Wrap \div PageSize \in Nat
  BY <1>1
<1>3. PICK w \in Nat : w = Wrap \div PageSize
  BY <1>2
<1>4. Wrap = w * PageSize
  BY <1>1, <1>2, <1>3
<1> QED BY <1>1, <1>4

LEMMA VmRecType ==
  ASSUME NEW a \in VmRec
  PROVE  /\ a \in AreaRec /\ a.start \in 0 .. Wrap - 1 /\ a.end \in 0 .. Wrap - 1
         /\ a = Area(a.start, a.end) /\ Sized(a)
BY Constants DEF VmRec, AreaRec, Area

\* What mm_find_vm_area creates for a size of whole pages.
LEMMA VmRecMade ==
  ASSUME NEW s \in 0 .. Wrap - 1, NEW n \in Nat, n * PageSize < Start
  PROVE  Area(s, (s + n * PageSize) % Wrap) \in VmRec
<1>1. PICK e : e = (s + n * PageSize) % Wrap
  OBVIOUS
<1>2. s + n * PageSize \in Int
  BY Constants
<1>3. e \in 0 .. Wrap - 1
  BY <1>1, <1>2, WrapFacts
<1>4. Area(s, e) \in [start : 0 .. Wrap - 1, end : 0 .. Wrap - 1] /\ Area(s, e).start = s
      /\ Area(s, e).end = e
  BY <1>3 DEF Area
<1>5. Sized(Area(s, e))
  BY <1>1, <1>4 DEF Sized
<1> QED BY <1>1, <1>4, <1>5 DEF VmRec

\* PAGE_ALIGN_UP_IF makes whole pages, also where it wraps, ...
LEMMA Rounded ==
  ASSUME NEW x \in Nat
  PROVE  \E n \in Nat : AlignUp(x) = n * PageSize
<1>1. PICK k \in Nat : k = (x + PageSize - 1) \div PageSize
  <2>1. PageSize \in Nat \ {0}
    BY Constants
  <2>2. (x + PageSize - 1) \div PageSize \in Nat
    BY <2>1
  <2> QED BY <2>2
<1>2. PICK w \in Nat : Wrap = w * PageSize
  BY Constants
<1>3. PageSize \in Nat \ {0} /\ Wrap \in Nat \ {0}
  BY Constants
<1>4. PICK y \in Nat : y = k * PageSize
  BY <1>3
<1>5. y = Wrap * (y \div Wrap) + (y % Wrap) /\ y \div Wrap \in Nat /\ y % Wrap \in Nat
  BY <1>3
<1>6. PICK q, r \in Nat : y = Wrap * q + r /\ r = y % Wrap
  BY <1>5
<1>7. r = (k - q * w) * PageSize
  BY <1>2, <1>3, <1>4, <1>6
<1>8. k - q * w \in Nat
  <2>1. PICK d \in Int : d = k - q * w
    OBVIOUS
  <2>2. r = d * PageSize
    BY <2>1, <1>7
  <2>3. ASSUME NEW p \in Nat \ {0}, NEW z \in Int, z < 0 PROVE z * p < 0
    BY <2>3
  <2>4. d < 0 => d * PageSize < 0
    BY <2>1, <2>3, <1>3
  <2>5. ~(d < 0)
    BY <2>2, <2>4, <1>6
  <2> QED BY <2>1, <2>5
<1>9. AlignUp(x) = r
  BY <1>1, <1>4, <1>6 DEF AlignUp
<1> QED BY <1>7, <1>8, <1>9

\* ... and leaves whole pages alone.
LEMMA RoundedTwice ==
  ASSUME NEW n \in Nat, n * PageSize < Start
  PROVE  AlignUp(n * PageSize) = n * PageSize
<1>1. PageSize \in Nat \ {0} /\ Start \in Nat /\ Wrap \in Nat /\ Start < Wrap
  BY Constants
<1>2. (n * PageSize + PageSize - 1) \div PageSize = n
  BY <1>1
<1>3. n * PageSize \in Int /\ 0 <= n * PageSize /\ n * PageSize < Wrap
  BY <1>1
<1>4. (n * PageSize) % Wrap = n * PageSize
  BY <1>3, WrapFacts
<1> QED BY <1>2, <1>4 DEF AlignUp

\* sz of mm_copy: vmalloc takes it for the child, and it ends where the parent's does.
LEMMA SizeAgain ==
  ASSUME NEW a \in VmRec, NEW size, size = (a.end - a.start) % Wrap
  PROVE  /\ \E n \in Nat : size = n * PageSize /\ n * PageSize < Start
         /\ AlignUp(size) = size /\ ~TooLarge(size) /\ (a.start + size) % Wrap = a.end
         /\ a.start < a.end => size = a.end - a.start
<1>1. PICK n \in Nat : n * PageSize < Start /\ a.end = (a.start + n * PageSize) % Wrap
  BY VmRecType DEF Sized
<1>2. PICK y \in Nat : y = n * PageSize
  BY Constants
<1>3. PICK s, e \in 0 .. Wrap - 1 : s = a.start /\ e = a.end
  BY VmRecType
<1>4. y < Wrap /\ y < Start /\ Wrap \in Nat /\ Start \in Nat
  BY <1>1, <1>2, Constants
<1>5. e = (s + y) % Wrap
  BY <1>1, <1>2, <1>3
<1>6. /\ s + y < Wrap => e = s + y
      /\ s + y >= Wrap => e = s + y - Wrap
  <2>1. PICK z \in Int : z = s + y /\ 0 <= z /\ z < 2 * Wrap
    BY <1>4
  <2>2. (z < Wrap => z % Wrap = z) /\ (z >= Wrap => z % Wrap = z - Wrap)
    BY <2>1, WrapFacts
  <2> QED BY <2>1, <2>2, <1>4, <1>5
<1>7. (e - s) % Wrap = y
  <2>1. CASE s + y < Wrap
    <3>1. e - s = y /\ y \in Int /\ 0 <= y
      BY <2>1, <1>4, <1>6
    <3> QED BY <3>1, <1>4, WrapFacts
  <2>2. CASE s + y >= Wrap
    <3>1. e - s = y - Wrap /\ y - Wrap \in Int /\ -Wrap <= y - Wrap /\ y - Wrap < 0
      BY <2>2, <1>4, <1>6
    <3>2. (y - Wrap) % Wrap = (y - Wrap) + Wrap
      BY <3>1, WrapFacts
    <3> QED BY <3>1, <3>2, <1>4
  <2> QED BY <2>1, <2>2, <1>4
<1>8. size = y
  BY <1>3, <1>7
<1>9. AlignUp(size) = size
  BY <1>1, <1>2, <1>8, RoundedTwice
<1>10. ~TooLarge(size) /\ (a.start + size) % Wrap = a.end
  BY <1>3, <1>4, <1>5, <1>8 DEF TooLarge
<1>11. s < e => y = e - s
  BY <1>4, <1>6
<1> QED BY <1>1, <1>2, <1>3, <1>8, <1>9, <1>10, <1>11

\* The pages of an area that starts at a page, and does not wrap.
LEMMA AlignedPages ==
  ASSUME NEW a \in VmRec, Aligned(a)
  PROVE  /\ Reached(a) = PagesOf(a)
         /\ a.start < a.end =>
              \E q, n \in Nat : /\ a.start = q * PageSize /\ a.end = (q + n) * PageSize
                                /\ n # 0 /\ PagesOf(a) = q .. q + n - 1
<1>1. PICK n \in Nat : n * PageSize < Start /\ a.end = (a.start + n * PageSize) % Wrap
  BY VmRecType DEF Sized
<1>2. PICK s, e \in 0 .. Wrap - 1 : s = a.start /\ e = a.end
  BY VmRecType
<1>3. PageSize \in Nat \ {0} /\ Wrap \in Nat \ {0} /\ Start \in Nat /\ Start < Wrap
  BY Constants
<1>4. PICK q \in Nat : s = q * PageSize
  <2>1. s = PageSize * (s \div PageSize) + (s % PageSize) /\ s % PageSize = 0
        /\ s \div PageSize \in Nat
    BY <1>2, <1>3 DEF Aligned
  <2>2. PICK q \in Nat : q = s \div PageSize
    BY <2>1
  <2>3. s = q * PageSize
    BY <2>1, <2>2, <1>3
  <2> QED BY <2>3
<1>5. PICK y \in Nat : y = n * PageSize
  BY <1>3
<1>6. e = (s + y) % Wrap /\ y < Start
  BY <1>1, <1>2, <1>5
<1>7. /\ s + y < Wrap => e = s + y
      /\ s + y >= Wrap => e = s + y - Wrap
  <2>1. PICK z \in Int : z = s + y /\ 0 <= z /\ z < 2 * Wrap
    BY <1>3, <1>6
  <2>2. (z < Wrap => z % Wrap = z) /\ (z >= Wrap => z % Wrap = z - Wrap)
    BY <2>1, WrapFacts
  <2> QED BY <2>1, <2>2, <1>3, <1>6
<1>8. PageOf(s) = q
  BY <1>3, <1>4 DEF PageOf
<1>9. CASE s < e
  <2>1. e = s + y /\ e = (q + n) * PageSize /\ y # 0
    BY <1>3, <1>4, <1>5, <1>6, <1>7, <1>9
  <2>2. n # 0
    BY <2>1, <1>3, <1>5
  <2>3. (e - s) \div PageSize = n
    <3>1. e - s = n * PageSize
      BY <2>1, <1>5
    <3> QED BY <3>1, <1>3
  <2>4. PageOf(e - 1) = q + n - 1
    <3>1. PICK k \in Nat : k = q + n
      OBVIOUS
    <3>2. (k * PageSize - 1) \div PageSize = k - 1
      BY <1>3
    <3> QED BY <3>1, <3>2, <2>1 DEF PageOf
  <2>5. PagesOf(a) = q .. q + n - 1
    BY <2>3, <1>2, <1>8 DEF PagesOf
  <2>6. Reached(a) = q .. q + n - 1
    BY <2>4, <1>2, <1>8, <1>9 DEF Reached
  <2> QED BY <2>1, <2>2, <2>5, <2>6, <1>2, <1>4
<1>10. CASE ~(s < e)
  <2>1. e - s \in Int /\ e - s <= 0
    BY <1>10
  <2>2. (e - s) \div PageSize \in Int /\ (e - s) \div PageSize <= 0
    BY <2>1, <1>3
  <2>3. PagesOf(a) = {}
    <3>1. PICK d \in Int : d = (e - s) \div PageSize /\ d <= 0
      BY <2>2
    <3>2. q .. q + d - 1 = {}
      BY <3>1
    <3> QED BY <3>1, <3>2, <1>2, <1>8 DEF PagesOf
  <2>4. Reached(a) = {}
    BY <1>2, <1>10 DEF Reached
  <2> QED BY <2>3, <2>4, <1>2, <1>10
<1> QED BY <1>9, <1>10

\* Two such areas that share no page are apart.
LEMMA AlignedApart ==
  ASSUME NEW a \in VmRec, NEW b \in VmRec, Aligned(a), Aligned(b), a.start < a.end, b.start < b.end,
         PagesOf(a) \cap PagesOf(b) = {}
  PROVE  a.end <= b.start \/ b.end <= a.start
<1>1. PICK q, n \in Nat : /\ a.start = q * PageSize /\ a.end = (q + n) * PageSize
                          /\ n # 0 /\ PagesOf(a) = q .. q + n - 1
  BY AlignedPages
<1>2. PICK r, k \in Nat : /\ b.start = r * PageSize /\ b.end = (r + k) * PageSize
                          /\ k # 0 /\ PagesOf(b) = r .. r + k - 1
  BY AlignedPages
<1>3. q \in PagesOf(a) /\ r \in PagesOf(b)
  BY <1>1, <1>2
<1>4. q \notin PagesOf(b) /\ r \notin PagesOf(a)
  BY <1>3
<1>5. q + n <= r \/ r + k <= q
  BY <1>1, <1>2, <1>4
<1>6. PageSize \in Nat \ {0}
  BY Constants
<1>7. \A x, y \in Nat : x <= y => x * PageSize <= y * PageSize
  BY <1>6
<1> QED BY <1>1, <1>2, <1>5, <1>7

LEMMA ListType ==
  ASSUME NEW list \in Seq(VmRec)
  PROVE  /\ list \in Seq(AreaRec) /\ DOMAIN list = 1 .. Len(list) /\ Len(list) \in Nat
         /\ \A i \in DOMAIN list : list[i] \in VmRec /\ list[i] \in ToSet(list)
         /\ \A a \in ToSet(list) : a \in VmRec /\ \E i \in DOMAIN list : a = list[i]
         /\ PagesIn(list) \subseteq Int
<1>1. DOMAIN list = 1 .. Len(list) /\ Len(list) \in Nat
  OBVIOUS
<1>2. \A i \in DOMAIN list : list[i] \in VmRec
  OBVIOUS
<1>3. \A i \in DOMAIN list : list[i] \in AreaRec
  BY <1>2, VmRecType
<1>4. list \in Seq(AreaRec)
  BY <1>1, <1>3
<1>5. /\ \A i \in DOMAIN list : list[i] \in ToSet(list)
      /\ \A a \in ToSet(list) : a \in VmRec /\ \E i \in DOMAIN list : a = list[i]
  BY <1>2 DEF ToSet
<1>6. PagesIn(list) \subseteq Int
  BY DEF PagesIn, PagesOf
<1> QED BY <1>1, <1>2, <1>4, <1>5, <1>6

\* Where mm_find_vm_area puts a new area of whole pages.
LEMMA Found ==
  ASSUME NEW list \in Seq(VmRec), NEW ptr \in 0 .. Wrap - 1, NEW n \in Nat, NEW size,
         size = n * PageSize, ~TooLarge(size), NEW i, i = Position(list, ptr, size), i # NoRoom,
         NEW a, a = NewArea(list, i, ptr, size)
  PROVE  /\ i \in 0 .. Len(list) /\ a \in VmRec
         /\ ptr # 0 => i = Len(list) /\ a = Area(ptr, (ptr + size) % Wrap)
<1>1. PICK k \in Nat : k = Len(list) /\ DOMAIN list = 1 .. k
  BY ListType
<1>2. PageSize \in Nat \ {0} /\ Start \in 0 .. Wrap - 1 /\ Wrap \in Nat
  BY Constants
<1>3. n * PageSize < Start
  <2>1. PICK y \in Nat : y = n * PageSize
    BY <1>2
  <2> QED BY <2>1, <1>2 DEF TooLarge
<1>4. CASE ptr # 0
  <2>1. i = Len(list)
    BY <1>4 DEF Position, FindFixed
  <2>2. a = Area(ptr, (ptr + size) % Wrap)
    BY <1>4 DEF NewArea
  <2>3. a \in VmRec
    BY <2>2, <1>3, VmRecMade
  <2> QED BY <2>1, <2>2, <2>3, <1>1
<1>5. CASE ptr = 0
  <2>1. i = FindFree(list, size) /\ a = Behind(list, i, size)
    BY <1>5 DEF Position, NewArea
  <2>2. i \in 0 .. k
    <3>1. CASE Caves(list, size) # {}
      <4>1. Caves(list, size) \in SUBSET Nat /\ Caves(list, size) \subseteq 1 .. k - 1
        BY <1>1 DEF Caves
      <4>2. Min(Caves(list, size)) \in 1 .. k - 1
        BY <4>1, <3>1, MinOf
      <4>3. i = Min(Caves(list, size))
        BY <2>1, <3>1 DEF FindFree
      <4> QED BY <4>2, <4>3
    <3>2. CASE Caves(list, size) = {}
      BY <2>1, <3>2, <1>1 DEF FindFree, TailOf
    <3> QED BY <3>1, <3>2
  <2>3. PICK s \in 0 .. Wrap - 1 : s = (IF i = 0 THEN Start ELSE list[i].end)
    <3>1. CASE i = 0
      BY <3>1, <1>2
    <3>2. CASE i # 0
      <4>1. list[i] \in VmRec
        BY <3>2, <2>2, <1>1, ListType
      <4> QED BY <4>1, <3>2, VmRecType
    <3> QED BY <3>1, <3>2
  <2>4. a = Area(s, (s + size) % Wrap)
    BY <2>1, <2>3 DEF Behind
  <2>5. a \in VmRec
    BY <2>4, <1>3, VmRecMade
  <2> QED BY <2>2, <2>5, <1>1, <1>5
<1> QED BY <1>4, <1>5

\* A list with one more area.
LEMMA OneMore ==
  ASSUME NEW list \in Seq(VmRec), NEW i \in 0 .. Len(list), NEW a \in VmRec,
         NEW t, t = InsertAt(list, i + 1, a)
  PROVE  /\ t \in Seq(VmRec) /\ PagesIn(t) = PagesIn(list) \union PagesOf(a)
         /\ PagesApart(list) /\ PagesOf(a) \cap PagesIn(list) = {} => PagesApart(t)
<1>1. PICK n \in Nat : n = Len(list) /\ DOMAIN list = 1 .. n
  BY ListType
<1>2. t \in Seq(VmRec) /\ DOMAIN t = 1 .. n + 1
  BY <1>1, AreaInserted
<1>3. ToSet(t) = ToSet(list) \union {a}
  BY AreaInserted
<1>4. PagesIn(t) = PagesIn(list) \union PagesOf(a)
  BY <1>3 DEF PagesIn
<1>5. Inserted(list, i, a, t)
  BY AreaInserted
<1>6. \A j \in 1 .. n + 1 :
        \/ j <= i /\ j \in 1 .. n /\ t[j] = list[j]
        \/ j = i + 1 /\ t[j] = a
        \/ j > i + 1 /\ j - 1 \in 1 .. n /\ t[j] = list[j - 1]
  BY <1>1, <1>5 DEF Inserted
<1>7. ASSUME PagesApart(list), PagesOf(a) \cap PagesIn(list) = {} PROVE PagesApart(t)
  <2>1. \A k \in 1 .. n : PagesOf(a) \cap PagesOf(list[k]) = {}
    <3>1. \A k \in 1 .. n : list[k] \in ToSet(list)
      BY <1>1, ListType
    <3> QED BY <3>1, <1>7 DEF PagesIn
  <2>2. \A k, l \in 1 .. n : k # l => PagesOf(list[k]) \cap PagesOf(list[l]) = {}
    BY <1>1, <1>7 DEF PagesApart
  <2>3. ASSUME NEW k \in 1 .. n + 1, NEW l \in 1 .. n + 1, k # l
        PROVE  PagesOf(t[k]) \cap PagesOf(t[l]) = {}
    <3>1. CASE k = i + 1
      <4>1. \E v \in 1 .. n : t[l] = list[v]
        BY <3>1, <2>3, <1>6
      <4>2. t[k] = a
        BY <3>1, <1>6
      <4> QED BY <4>1, <4>2, <2>1
    <3>2. CASE l = i + 1
      <4>1. \E v \in 1 .. n : t[k] = list[v]
        BY <3>2, <2>3, <1>6
      <4>2. t[l] = a
        BY <3>2, <1>6
      <4> QED BY <4>1, <4>2, <2>1
    <3>3. CASE k # i + 1 /\ l # i + 1
      <4>1. PICK u \in 1 .. n : t[k] = list[u] /\ u = (IF k <= i THEN k ELSE k - 1)
        BY <3>3, <1>6
      <4>2. PICK v \in 1 .. n : t[l] = list[v] /\ v = (IF l <= i THEN l ELSE l - 1)
        BY <3>3, <1>6
      <4>3. u # v
        BY <4>1, <4>2, <3>3, <2>3
      <4> QED BY <4>1, <4>2, <4>3, <2>2
    <3> QED BY <3>1, <3>2, <3>3
  <2> QED BY <2>3, <1>2 DEF PagesApart
<1> QED BY <1>2, <1>4, <1>7

\* A list with one area less.
LEMMA OneLess ==
  ASSUME NEW list \in Seq(VmRec), NEW i \in 1 .. Len(list), NEW t, t = RemoveAt(list, i)
  PROVE  /\ t \in Seq(VmRec)
         /\ PagesApart(list) => PagesApart(t) /\ PagesIn(t) = PagesIn(list) \ PagesOf(list[i])
<1>1. PICK n \in Nat : n = Len(list) /\ DOMAIN list = 1 .. n
  BY ListType
<1>2. /\ t \in Seq(VmRec) /\ DOMAIN t = 1 .. n - 1
      /\ \A j \in 1 .. n - 1 : t[j] = IF j < i THEN list[j] ELSE list[j + 1]
  BY <1>1, AreaRemoved
<1>3. \A x : x \in ToSet(t) <=> \E j \in 1 .. n : j # i /\ x = list[j]
  BY <1>1, AreaRemoved
<1>4. ASSUME PagesApart(list) PROVE PagesApart(t) /\ PagesIn(t) = PagesIn(list) \ PagesOf(list[i])
  <2>1. \A k, l \in 1 .. n : k # l => PagesOf(list[k]) \cap PagesOf(list[l]) = {}
    BY <1>1, <1>4 DEF PagesApart
  <2>2. ASSUME NEW k \in 1 .. n - 1, NEW l \in 1 .. n - 1, k # l
        PROVE  PagesOf(t[k]) \cap PagesOf(t[l]) = {}
    <3>1. PICK u \in 1 .. n : t[k] = list[u] /\ u = (IF k < i THEN k ELSE k + 1)
      BY <1>2
    <3>2. PICK v \in 1 .. n : t[l] = list[v] /\ v = (IF l < i THEN l ELSE l + 1)
      BY <1>2
    <3>3. u # v
      BY <3>1, <3>2, <2>2
    <3> QED BY <3>1, <3>2, <3>3, <2>1
  <2>3. PagesApart(t)
    BY <2>2, <1>2 DEF PagesApart
  <2>4. \A x : x \in ToSet(list) <=> x = list[i] \/ x \in ToSet(t)
    <3>1. \A x : x \in ToSet(list) <=> \E j \in 1 .. n : x = list[j]
      BY <1>1 DEF ToSet
    <3> QED BY <3>1, <1>1, <1>3
  <2>5. \A x \in ToSet(t) : PagesOf(x) \cap PagesOf(list[i]) = {}
    BY <2>1, <1>1, <1>3
  <2> QED BY <2>3, <2>4, <2>5 DEF PagesIn
<1> QED BY <1>2, <1>4

-----------------------------------------------------------------------------
(* mm_copy.                                                                *)

Whys == {"no", "null", "pte exists", "page fault"}
CopyRec == [list : Seq(VmRec), why : Whys]
Nothing == [list |-> <<>>, why |-> "no"]

\* What the loop computes over the first n areas of the list, area by area.
IsCopy(h, m, list, n) ==
  h = [k \in 0 .. n |-> IF k = 0 THEN Nothing ELSE CopyArea(m, list[k], h[k - 1])]

LEMMA IsCopyFacts ==
  ASSUME NEW h, NEW m, NEW list, NEW n \in Nat
  PROVE  IsCopy(h, m, list, n) <=>
           /\ h = [k \in 0 .. n |-> h[k]] /\ h[0] = Nothing
           /\ \A k \in 1 .. n : h[k] = CopyArea(m, list[k], h[k - 1])
<1>1. ASSUME IsCopy(h, m, list, n)
      PROVE  /\ h = [k \in 0 .. n |-> h[k]] /\ h[0] = Nothing
             /\ \A k \in 1 .. n : h[k] = CopyArea(m, list[k], h[k - 1])
  <2>1. \A k \in 0 .. n : h[k] = IF k = 0 THEN Nothing ELSE CopyArea(m, list[k], h[k - 1])
    BY <1>1 DEF IsCopy
  <2>2. h = [k \in 0 .. n |-> h[k]]
    BY <1>1 DEF IsCopy
  <2>3. 0 \in 0 .. n /\ \A k \in 1 .. n : k \in 0 .. n /\ k # 0
    OBVIOUS
  <2> QED BY <2>1, <2>2, <2>3
<1>2. ASSUME h = [k \in 0 .. n |-> h[k]], h[0] = Nothing,
             \A k \in 1 .. n : h[k] = CopyArea(m, list[k], h[k - 1])
      PROVE  IsCopy(h, m, list, n)
  <2>1. ASSUME NEW k \in 0 .. n
        PROVE  h[k] = IF k = 0 THEN Nothing ELSE CopyArea(m, list[k], h[k - 1])
    <3>1. CASE k = 0
      BY <3>1, <1>2
    <3>2. CASE k # 0
      <4>1. k \in 1 .. n
        BY <3>2
      <4> QED BY <4>1, <3>2, <1>2
    <3> QED BY <3>1, <3>2
  <2>2. [k \in 0 .. n |-> h[k]]
          = [k \in 0 .. n |-> IF k = 0 THEN Nothing ELSE CopyArea(m, list[k], h[k - 1])]
    BY <2>1
  <2> QED BY <2>2, <1>2, Zenon DEF IsCopy
<1> QED BY <1>1, <1>2

\* The loop is defined for every list: by induction over its length.
LEMMA CopyExists ==
  ASSUME NEW m, NEW list, NEW n \in Nat
  PROVE  \E h : IsCopy(h, m, list, n)
<1> DEFINE D == {k \in Nat : ~\E h : IsCopy(h, m, list, k)}
<1>1. SUFFICES ASSUME D # {} PROVE FALSE
  OBVIOUS
<1>2. D \in SUBSET Nat
  OBVIOUS
<1>3. PICK k \in D : \A j \in D : k <= j
  <2> HIDE DEF D
  <2> QED BY <1>1, <1>2, MinOf
<1>4. CASE k = 0
  <2>1. PICK h : h = [j \in 0 .. k |-> Nothing]
    OBVIOUS
  <2>2. \A j \in 0 .. k : j = 0
    BY <1>4
  <2>3. [j \in 0 .. k |-> Nothing]
          = [j \in 0 .. k |-> IF j = 0 THEN Nothing ELSE CopyArea(m, list[j], h[j - 1])]
    BY <2>2
  <2>4. IsCopy(h, m, list, k)
    BY <2>1, <2>3, Zenon DEF IsCopy
  <2> QED BY <2>4
<1>5. CASE k # 0
  <2>1. PICK p \in Nat : p = k - 1 /\ k = p + 1
    BY <1>5
  <2>2. p \notin D
    BY <2>1, <1>3
  <2>3. PICK g : IsCopy(g, m, list, p)
    BY <2>1, <2>2
  <2>4. g[0] = Nothing /\ \A j \in 1 .. p : g[j] = CopyArea(m, list[j], g[j - 1])
    BY <2>3, IsCopyFacts
  <2>5. PICK h : h = [j \in 0 .. k |-> IF j = k THEN CopyArea(m, list[k], g[p]) ELSE g[j]]
    OBVIOUS
  <2>6. h[k] = CopyArea(m, list[k], g[p]) /\ \A j \in 0 .. p : h[j] = g[j]
    BY <2>1, <2>5
  <2>7. ASSUME NEW j \in 1 .. k PROVE h[j] = CopyArea(m, list[j], h[j - 1])
    <3>1. CASE j = k
      BY <3>1, <2>1, <2>6
    <3>2. CASE j # k
      <4>1. j \in 1 .. p /\ j \in 0 .. p /\ j - 1 \in 0 .. p
        BY <3>2, <2>1
      <4> QED BY <4>1, <2>4, <2>6
    <3> QED BY <3>1, <3>2
  <2>8. h = [j \in 0 .. k |-> h[j]] /\ h[0] = Nothing
    BY <2>1, <2>4, <2>5, <2>6
  <2>9. IsCopy(h, m, list, k)
    BY <2>7, <2>8, IsCopyFacts
  <2> QED BY <2>9
<1> QED BY <1>4, <1>5

\* The copy of the space m is what the loop has at its end.
LEMMA CopyMade ==
  ASSUME NEW m \in Spaces, NEW n \in Nat, n = Len(areas[m])
  PROVE  \E h : IsCopy(h, m, areas[m], n) /\ CopyAreas(m) = h[n]
<1>1. \E h : IsCopy(h, m, areas[m], n)
  BY CopyExists
<1> QED BY <1>1 DEF CopyAreas, IsCopy, Nothing

\* One round: the child's list stays one of areas that share no page, and gets the
\* parent's area at its end, unless the kernel stops.
LEMMA CopyStep ==
  ASSUME NEW m, NEW a \in VmRec, NEW done \in CopyRec, PagesApart(done.list),
         NEW r, r = CopyArea(m, a, done)
  PROVE  /\ r \in CopyRec /\ PagesApart(r.list)
         /\ a.start # 0 /\ r.why = "no" => done.why = "no" /\ r.list = Append(done.list, a)
<1>1. PICK size : size = (a.end - a.start) % Wrap
  OBVIOUS
<1>2. /\ \E k \in Nat : size = k * PageSize /\ k * PageSize < Start
      /\ AlignUp(size) = size /\ ~TooLarge(size) /\ (a.start + size) % Wrap = a.end
  BY <1>1, SizeAgain
<1>3. a.start \in 0 .. Wrap - 1 /\ a = Area(a.start, a.end)
  BY VmRecType
<1>4. done.list \in Seq(VmRec) /\ done.why \in Whys
  BY DEF CopyRec
<1>5. PICK i : i = Position(done.list, a.start, size)
  OBVIOUS
<1>6. PICK new : new = NewArea(done.list, i, a.start, size)
  OBVIOUS
<1>7. PICK t : t = InsertAt(done.list, i + 1, new)
  OBVIOUS
<1>8. \/ r = done /\ done.why # "no"
      \/ \E w \in Whys \ {"no"} : r = [done EXCEPT !.why = w]
      \/ /\ done.why = "no" /\ i # NoRoom /\ PagesOf(new) \cap PagesIn(done.list) = {}
         /\ r = [list |-> t, why |-> "no"]
  <2>1. r = IF done.why # "no" THEN done
            ELSE IF size = 0 \/ TooLarge(size) \/ i = NoRoom THEN [done EXCEPT !.why = "null"]
            ELSE IF PagesOf(new) \cap PagesIn(done.list) # {}
                 THEN [done EXCEPT !.why = "pte exists"]
            ELSE IF ~(Reached(a) \subseteq mapped[m] \cap PagesIn(t))
                 THEN [done EXCEPT !.why = "page fault"]
            ELSE [list |-> t, why |-> "no"]
    BY <1>1, <1>2, <1>5, <1>6, <1>7 DEF CopyArea
  <2>2. "null" \in Whys \ {"no"} /\ "pte exists" \in Whys \ {"no"} /\ "page fault" \in Whys \ {"no"}
    BY DEF Whys
  <2> QED BY <2>1, <2>2, Zenon
<1>9. CASE r = done /\ done.why # "no"
  BY <1>9
<1>10. ASSUME NEW w \in Whys \ {"no"}, r = [done EXCEPT !.why = w]
       PROVE  r \in CopyRec /\ PagesApart(r.list) /\ r.why # "no"
  <2>1. r \in CopyRec /\ r.list = done.list /\ r.why = w
    BY <1>10 DEF CopyRec
  <2> QED BY <2>1
<1>11. ASSUME done.why = "no", i # NoRoom, PagesOf(new) \cap PagesIn(done.list) = {},
              r = [list |-> t, why |-> "no"]
       PROVE  /\ r \in CopyRec /\ PagesApart(r.list)
              /\ a.start # 0 => r.list = Append(done.list, a)
  <2>1. /\ i \in 0 .. Len(done.list) /\ new \in VmRec
        /\ a.start # 0 => i = Len(done.list) /\ new = Area(a.start, (a.start + size) % Wrap)
    BY <1>2, <1>3, <1>4, <1>5, <1>6, <1>11, Found
  <2>2. t \in Seq(VmRec) /\ PagesApart(t)
    BY <2>1, <1>4, <1>7, <1>11, OneMore
  <2>3. r \in CopyRec /\ r.list = t
    <3>1. "no" \in Whys
      BY DEF Whys
    <3> QED BY <3>1, <2>2, <1>11 DEF CopyRec
  <2>4. ASSUME a.start # 0 PROVE t = Append(done.list, a)
    <3>1. i = Len(done.list) /\ new = a
      BY <2>1, <2>4, <1>2, <1>3
    <3> QED BY <3>1, <1>4, <1>7, Appended
  <2> QED BY <2>2, <2>3, <2>4
<1> QED BY <1>8, <1>9, <1>10, <1>11

LEMMA NextPrefix ==
  ASSUME NEW S, NEW list \in Seq(S), NEW k \in 1 .. Len(list)
  PROVE  Append(SubSeq(list, 1, k - 1), list[k]) = SubSeq(list, 1, k)
<1>1. PICK n \in Nat : n = Len(list) /\ DOMAIN list = 1 .. n
  OBVIOUS
<1>2. PICK a \in S : a = list[k]
  BY <1>1
<1>3. PICK done : done = SubSeq(list, 1, k - 1)
  OBVIOUS
<1>4. done \in Seq(S) /\ Len(done) = k - 1 /\ \A j \in 1 .. k - 1 : done[j] = list[j]
  BY <1>1, <1>3
<1>5. PICK t : t = SubSeq(list, 1, k)
  OBVIOUS
<1>6. t \in Seq(S) /\ Len(t) = k /\ \A j \in 1 .. k : t[j] = list[j]
  BY <1>1, <1>5
<1>7. PICK u : u = Append(done, a)
  OBVIOUS
<1>8. u \in Seq(S) /\ Len(u) = k /\ \A j \in 1 .. k : u[j] = list[j]
  <2>1. u \in Seq(S) /\ Len(u) = Len(done) + 1
    BY <1>4, <1>7
  <2>2. \A j \in 1 .. Len(done) : u[j] = done[j]
    BY <1>4, <1>7
  <2>3. u[Len(done) + 1] = a
    BY <1>4, <1>7
  <2>4. Len(done) + 1 = k
    BY <1>4
  <2>5. ASSUME NEW j \in 1 .. k PROVE u[j] = list[j]
    <3>1. CASE j = k
      BY <3>1, <2>3, <2>4, <1>2
    <3>2. CASE j # k
      BY <3>2, <2>2, <1>4
    <3> QED BY <3>1, <3>2
  <2> QED BY <2>1, <2>4, <2>5
<1>9. u = t
  BY <1>6, <1>8
<1> QED BY <1>2, <1>3, <1>5, <1>7, <1>9

\* What the loop has after k rounds.
CopiedSoFar(c, list, k) ==
  /\ c \in CopyRec /\ PagesApart(c.list)
  /\ (\A i \in DOMAIN list : list[i].start # 0) /\ c.why = "no" => c.list = SubSeq(list, 1, k)

\* The copy is a list of areas that share no page; where no area starts at 0, it is
\* the parent's, unless the kernel stops or the fork fails.
LEMMA CopyResult ==
  ASSUME NEW m \in Spaces, areas[m] \in Seq(VmRec), NEW c, c = CopyAreas(m)
  PROVE  /\ c \in CopyRec /\ PagesApart(c.list)
         /\ (\A i \in DOMAIN areas[m] : areas[m][i].start # 0) /\ c.why = "no"
              => c.list = areas[m]
<1>1. PICK list \in Seq(VmRec) : list = areas[m]
  OBVIOUS
<1>2. PICK n \in Nat : n = Len(list) /\ DOMAIN list = 1 .. n
  BY ListType
<1>3. PICK h : IsCopy(h, m, list, n) /\ c = h[n]
  BY <1>1, <1>2, CopyMade
<1>4. h[0] = Nothing /\ \A k \in 1 .. n : h[k] = CopyArea(m, list[k], h[k - 1])
  BY <1>3, IsCopyFacts
<1>5. \A k \in 0 .. n : CopiedSoFar(h[k], list, k)
  <2> DEFINE D == {k \in 0 .. n : ~CopiedSoFar(h[k], list, k)}
  <2>1. SUFFICES ASSUME D # {} PROVE FALSE
    OBVIOUS
  <2>2. D \in SUBSET Nat
    OBVIOUS
  <2>3. PICK k \in D : \A j \in D : k <= j
    <3> HIDE DEF D
    <3> QED BY <2>1, <2>2, MinOf
  <2>4. CASE k = 0
    <3>1. <<>> \in Seq(VmRec) /\ DOMAIN <<>> = {} /\ SubSeq(list, 1, 0) = <<>>
      BY <1>2
    <3>2. Nothing \in CopyRec /\ Nothing.list = <<>>
      BY <3>1 DEF Nothing, CopyRec, Whys
    <3>3. PagesApart(Nothing.list)
      BY <3>1, <3>2 DEF PagesApart
    <3>4. CopiedSoFar(h[0], list, 0)
      BY <3>1, <3>2, <3>3, <1>4 DEF CopiedSoFar
    <3> QED BY <3>4, <2>4
  <2>5. CASE k # 0
    <3>1. k \in 1 .. n /\ k - 1 \in 0 .. n /\ k - 1 \notin D
      BY <2>3, <2>5
    <3>2. PICK done : done = h[k - 1] /\ CopiedSoFar(done, list, k - 1)
      BY <3>1
    <3>3. PICK a \in VmRec : a = list[k]
      BY <3>1, <1>2, ListType
    <3>4. h[k] = CopyArea(m, a, done)
      BY <3>1, <3>2, <3>3, <1>4
    <3>5. /\ h[k] \in CopyRec /\ PagesApart(h[k].list)
          /\ a.start # 0 /\ h[k].why = "no" => done.why = "no" /\ h[k].list = Append(done.list, a)
      <4>1. done \in CopyRec /\ PagesApart(done.list)
        BY <3>2 DEF CopiedSoFar
      <4> QED BY <4>1, <3>4, CopyStep
    <3>6. ASSUME \A i \in DOMAIN list : list[i].start # 0, h[k].why = "no"
          PROVE  h[k].list = SubSeq(list, 1, k)
      <4>1. a.start # 0
        BY <3>1, <3>3, <3>6, <1>2
      <4>2. done.list = SubSeq(list, 1, k - 1) /\ h[k].list = Append(done.list, a)
        BY <4>1, <3>2, <3>5, <3>6 DEF CopiedSoFar
      <4>3. Append(SubSeq(list, 1, k - 1), list[k]) = SubSeq(list, 1, k)
        BY <3>1, <1>2, NextPrefix
      <4> QED BY <4>2, <4>3, <3>3
    <3>7. CopiedSoFar(h[k], list, k)
      BY <3>5, <3>6 DEF CopiedSoFar
    <3> QED BY <3>7
  <2> QED BY <2>4, <2>5
<1>6. CopiedSoFar(c, list, n)
  BY <1>2, <1>3, <1>5
<1>7. SubSeq(list, 1, n) = list
  BY <1>2
<1> QED BY <1>1, <1>6, <1>7 DEF CopiedSoFar

\* The child gets the next area where its parent has it, if both areas and the
\* pages are as usual.
CopyableArea(a) == Aligned(a) /\ 0 < a.start /\ a.start < a.end /\ a.end < End

LEMMA CopyNext ==
  ASSUME NEW m, NEW list \in Seq(VmRec), PagesApart(list), mapped[m] = PagesIn(list),
         \A a \in ToSet(list) : CopyableArea(a), NEW k \in 1 .. Len(list)
  PROVE  CopyArea(m, list[k], [list |-> SubSeq(list, 1, k - 1), why |-> "no"])
           = [list |-> SubSeq(list, 1, k), why |-> "no"]
<1>1. PICK n \in Nat : n = Len(list) /\ DOMAIN list = 1 .. n
  BY ListType
<1>2. PICK a \in VmRec : a = list[k] /\ a \in ToSet(list)
  BY <1>1, ListType
<1>3. a.start \in Nat /\ a.end \in Nat /\ a = Area(a.start, a.end)
  BY VmRecType, AreaType
<1>4. Aligned(a) /\ 0 < a.start /\ a.start < a.end /\ a.end < End
  BY <1>2 DEF CopyableArea
<1>5. PICK done : done = SubSeq(list, 1, k - 1)
  OBVIOUS
<1>6. done \in Seq(VmRec) /\ Len(done) = k - 1 /\ \A j \in 1 .. k - 1 : done[j] = list[j]
  BY <1>1, <1>5
<1>7. ASSUME NEW b \in ToSet(done)
      PROVE  ~Overlaps(b, a.start, a.end) /\ PagesOf(a) \cap PagesOf(b) = {}
  <2>1. PICK j \in 1 .. k - 1 : b = list[j]
    BY <1>6 DEF ToSet
  <2>2. j \in DOMAIN list /\ k \in DOMAIN list /\ j # k
    BY <2>1, <1>1
  <2>3. PagesOf(a) \cap PagesOf(b) = {}
    BY <2>1, <2>2, <1>2 DEF PagesApart
  <2>4. b \in VmRec /\ b \in ToSet(list)
    BY <2>1, <2>2, ListType
  <2>5. Aligned(b) /\ b.start < b.end
    BY <2>4 DEF CopyableArea
  <2>6. a.end <= b.start \/ b.end <= a.start
    BY <2>3, <2>4, <2>5, <1>4, AlignedApart
  <2>7. b.start \in Nat /\ b.end \in Nat
    BY <2>4, VmRecType, AreaType
  <2> QED BY <2>3, <2>5, <2>6, <2>7, <1>3, <1>4 DEF Overlaps
<1>8. PICK size : size = (a.end - a.start) % Wrap
  OBVIOUS
<1>9. /\ AlignUp(size) = size /\ ~TooLarge(size) /\ (a.start + size) % Wrap = a.end
      /\ size = a.end - a.start
  BY <1>4, <1>8, SizeAgain
<1>10. size # 0
  BY <1>3, <1>4, <1>9
<1>11. Position(done, a.start, size) = k - 1
  <2>1. ~BeyondEnd(a.end)
    BY <1>3, <1>4, Constants DEF BeyondEnd
  <2>2. a.start # 0
    BY <1>3, <1>4
  <2>3. FindFixed(done, a.start, size) = Len(done)
    BY <2>1, <1>7, <1>9 DEF FindFixed
  <2> QED BY <2>2, <2>3, <1>6 DEF Position
<1>12. NewArea(done, k - 1, a.start, size) = a
  <2>1. a.start # 0
    BY <1>3, <1>4
  <2> QED BY <2>1, <1>3, <1>9 DEF NewArea
<1>13. PICK t : t = SubSeq(list, 1, k)
  OBVIOUS
<1>14. InsertAt(done, (k - 1) + 1, a) = t
  <2>1. Append(done, a) = t
    BY <1>1, <1>2, <1>5, <1>13, NextPrefix
  <2> QED BY <2>1, <1>6, Appended
<1>15. PagesOf(a) \cap PagesIn(done) = {}
  BY <1>7 DEF PagesIn
<1>16. Reached(a) \subseteq mapped[m] \cap PagesIn(t)
  <2>1. Reached(a) = PagesOf(a)
    BY <1>4, AlignedPages
  <2>2. PagesOf(a) \subseteq PagesIn(list)
    BY <1>2 DEF PagesIn
  <2>3. k - 1 \in 0 .. Len(done)
    BY <1>6
  <2>4. PagesIn(t) = PagesIn(done) \union PagesOf(a)
    BY <2>3, <1>6, <1>14, OneMore
  <2> QED BY <2>1, <2>2, <2>4
<1>17. k - 1 # NoRoom
  BY DEF NoRoom
<1>18. PICK c : c = [list |-> done, why |-> "no"]
  OBVIOUS
<1>18a. c.list = done /\ c.why = "no"
  BY <1>18
<1>19. CopyArea(m, a, c) = [list |-> t, why |-> "no"]
  BY <1>8, <1>9, <1>10, <1>11, <1>12, <1>14, <1>15, <1>16, <1>17, <1>18a DEF CopyArea
<1> QED BY <1>2, <1>5, <1>13, <1>18, <1>19

\* Such a space is copied as a whole: by induction over its list.
LEMMA CopyWhole ==
  ASSUME NEW m \in Spaces, areas[m] \in Seq(VmRec), PagesApart(areas[m]),
         mapped[m] = PagesIn(areas[m]), \A a \in ToSet(areas[m]) : CopyableArea(a)
  PROVE  CopyAreas(m) = [list |-> areas[m], why |-> "no"]
<1>1. PICK list \in Seq(VmRec) : list = areas[m]
  OBVIOUS
<1>2. PICK n \in Nat : n = Len(list) /\ DOMAIN list = 1 .. n
  BY ListType
<1>3. PICK h : IsCopy(h, m, list, n) /\ CopyAreas(m) = h[n]
  BY <1>1, <1>2, CopyMade
<1>4. h[0] = Nothing /\ \A k \in 1 .. n : h[k] = CopyArea(m, list[k], h[k - 1])
  BY <1>3, IsCopyFacts
<1>5. \A k \in 0 .. n : h[k] = [list |-> SubSeq(list, 1, k), why |-> "no"]
  <2> DEFINE D == {k \in 0 .. n : h[k] # [list |-> SubSeq(list, 1, k), why |-> "no"]}
  <2>1. SUFFICES ASSUME D # {} PROVE FALSE
    OBVIOUS
  <2>2. D \in SUBSET Nat
    OBVIOUS
  <2>3. PICK k \in D : \A j \in D : k <= j
    <3> HIDE DEF D
    <3> QED BY <2>1, <2>2, MinOf
  <2>4. CASE k = 0
    <3>1. SubSeq(list, 1, 0) = <<>>
      BY <1>2
    <3> QED BY <3>1, <2>4, <1>4 DEF Nothing
  <2>5. CASE k # 0
    <3>1. k \in 1 .. n /\ k - 1 \in 0 .. n /\ k - 1 \notin D
      BY <2>3, <2>5
    <3>2. h[k - 1] = [list |-> SubSeq(list, 1, k - 1), why |-> "no"]
      BY <3>1
    <3>3. CopyArea(m, list[k], [list |-> SubSeq(list, 1, k - 1), why |-> "no"])
            = [list |-> SubSeq(list, 1, k), why |-> "no"]
      <4>1. PagesApart(list) /\ mapped[m] = PagesIn(list) /\ \A a \in ToSet(list) : CopyableArea(a)
        BY <1>1
      <4> QED BY <4>1, <3>1, <1>2, CopyNext
    <3>4. h[k] = CopyArea(m, list[k], h[k - 1])
      BY <3>1, <1>4
    <3> QED BY <3>2, <3>3, <3>4
  <2> QED BY <2>4, <2>5
<1>6. SubSeq(list, 1, n) = list
  BY <1>2
<1>7. n \in 0 .. n
  OBVIOUS
<1> QED BY <1>1, <1>3, <1>5, <1>6, <1>7

-----------------------------------------------------------------------------
(* The steps of VmArea.                                                    *)

\* What a step leaves to show when the list of one space becomes t, and its pages.
LEMMA ListStep ==
  ASSUME VmInv, Live, NEW m \in Spaces, NEW t \in Seq(VmRec), NEW P \in SUBSET Int,
         areas' = [areas EXCEPT ![m] = t], mapped' = [mapped EXCEPT ![m] = P],
         live' \subseteq Spaces, halted' \in {"no", "pte exists"},
         fixed \subseteq fixed' \union {m}, m \notin fixed' => Within(t) /\ Sorted(t),
         halted' = "no" => PagesApart(t) /\ P = PagesIn(t)
  PROVE  VmInv'
<1>1. /\ areas \in [Spaces -> Seq(VmRec)] /\ mapped \in [Spaces -> SUBSET Int]
      /\ \A n \in Spaces \ fixed : Within(areas[n]) /\ Sorted(areas[n])
      /\ \A n \in Spaces : PagesApart(areas[n]) /\ mapped[n] = PagesIn(areas[n])
  BY DEF VmInv
<1>2. /\ areas' \in [Spaces -> Seq(VmRec)] /\ areas'[m] = t
      /\ \A n \in Spaces : n # m => areas'[n] = areas[n]
  BY <1>1
<1>3. /\ mapped' \in [Spaces -> SUBSET Int] /\ mapped'[m] = P
      /\ \A n \in Spaces : n # m => mapped'[n] = mapped[n]
  BY <1>1
<1>4. \A n \in Spaces \ fixed' : Within(areas'[n]) /\ Sorted(areas'[n])
  BY <1>1, <1>2
<1>5. halted' = "no" => \A n \in Spaces : PagesApart(areas'[n]) /\ mapped'[n] = PagesIn(areas'[n])
  BY <1>1, <1>2, <1>3
<1> QED BY <1>2, <1>3, <1>4, <1>5 DEF VmInv, Live

LEMMA VmallocInv ==
  ASSUME VmInv, NEW m \in Spaces, NEW ptr \in FixedPtrs \union {0}, NEW asked \in Sizes,
         vmalloc(m, ptr, asked)
  PROVE  VmInv'
<1>0. PICK list : list = areas[m]
  OBVIOUS
<1>1. PICK size : size = AlignUp(asked)
  OBVIOUS
<1>2. PICK i : i = Position(list, ptr, size)
  OBVIOUS
<1>3. PICK a : a = NewArea(list, i, ptr, size)
  OBVIOUS
<1>4. PICK t : t = InsertAt(list, i + 1, a)
  OBVIOUS
<1>5. /\ Live /\ ~TooLarge(size) /\ i # NoRoom /\ live' = live
      /\ areas' = [areas EXCEPT ![m] = t]
      /\ mapped' = [mapped EXCEPT ![m] = mapped[m] \union PagesOf(a)]
      /\ halted' = (IF PagesOf(a) \cap mapped[m] # {} THEN "pte exists" ELSE "no")
      /\ fixed' = (IF ptr = 0 THEN fixed ELSE fixed \union {m})
  BY <1>0, <1>1, <1>2, <1>3, <1>4 DEF vmalloc
<1>6. asked \in Nat /\ ptr \in 0 .. Wrap - 1
  BY Constants, VmAreaAssumption
<1>7. PICK n \in Nat : size = n * PageSize
  BY <1>1, <1>6, Rounded
<1>8. list \in Seq(VmRec) /\ PagesApart(list) /\ mapped[m] = PagesIn(list)
  BY <1>0, <1>5 DEF VmInv
<1>9. i \in 0 .. Len(list) /\ a \in VmRec
  BY <1>2, <1>3, <1>5, <1>6, <1>7, <1>8, Found
<1>10. /\ t \in Seq(VmRec) /\ PagesIn(t) = PagesIn(list) \union PagesOf(a)
       /\ PagesOf(a) \cap PagesIn(list) = {} => PagesApart(t)
  BY ONLY <1>4, <1>8, <1>9, OneMore
<1>11. ASSUME m \notin fixed' PROVE Within(t) /\ Sorted(t)
  <2>1. ptr = 0 /\ m \notin fixed
    BY <1>5, <1>11
  <2>2. list \in Seq(AreaRec) /\ Within(list) /\ Sorted(list)
    BY <2>1, <1>0, <1>8, ListType DEF VmInv
  <2>3. i = FindFree(list, size) /\ a = Behind(list, i, size)
    BY <2>1, <1>2, <1>3 DEF Position, NewArea
  <2>4. size \in Nat /\ ~TooLarge(size) /\ i # NoRoom
    <3>1. size \in Nat
      BY <1>7, Constants
    <3> QED BY <3>1, <1>5
  <2>5. /\ a \in AreaRec /\ a.end = a.start + size
        /\ Start <= a.start /\ a.end < End
        /\ i # 0 => a.start = list[i].end
        /\ i < Len(list) => a.end <= list[i + 1].start
    <3>1. a \in AreaRec /\ a.end = a.start + size /\ Start <= a.start /\ a.end < End
      BY ONLY <2>2, <2>3, <2>4, Picked
    <3>2. i # 0 => a.start = list[i].end
      BY ONLY <2>2, <2>3, <2>4, Picked
    <3>3. i < Len(list) => a.end <= list[i + 1].start
      BY ONLY <2>2, <2>3, <2>4, Picked
    <3> QED BY <3>1, <3>2, <3>3
  <2>6. a.start \in Nat /\ a.end \in Nat
    BY <2>5, AreaType
  <2>7. a.start <= a.end /\ (i # 0 => list[i].end <= a.start)
    BY <2>4, <2>5, <2>6
  <2> QED BY <2>2, <2>5, <2>7, <1>4, <1>9, Added
<1>12. mapped[m] \union PagesOf(a) \in SUBSET Int
  BY <1>8, <1>10, ListType
<1>13. halted' \in {"no", "pte exists"} /\ live' \subseteq Spaces /\ fixed \subseteq fixed' \union {m}
  BY <1>5 DEF VmInv
<1>14. halted' = "no" => PagesApart(t) /\ mapped[m] \union PagesOf(a) = PagesIn(t)
  BY <1>5, <1>8, <1>10
<1> QED BY <1>5, <1>10, <1>11, <1>12, <1>13, <1>14, ListStep

LEMMA VfreeInv ==
  ASSUME VmInv, NEW m \in Spaces, NEW ptr, vfree(m, ptr)
  PROVE  VmInv'
<1>1. Live /\ live' = live /\ fixed' = fixed
  BY DEF vfree
<1>2. CASE halted' = "null area" /\ UNCHANGED <<areas, mapped>>
  <2>1. ~Live'
    BY <1>2 DEF Live
  <2> QED BY <2>1, <1>1, <1>2 DEF VmInv
<1>3. ASSUME NEW i \in DOMAIN areas[m],
             areas' = [areas EXCEPT ![m] = RemoveAt(@, i)],
             mapped' = [mapped EXCEPT ![m] = @ \ Unmapped(areas[m][i])],
             halted' = (IF PagesOf(areas[m][i]) \subseteq mapped[m] THEN "no" ELSE "no pte")
      PROVE  VmInv'
  <2>1. areas[m] \in Seq(VmRec) /\ PagesApart(areas[m]) /\ mapped[m] = PagesIn(areas[m])
    BY <1>1 DEF VmInv
  <2>2. i \in 1 .. Len(areas[m])
    BY <2>1, ListType
  <2>3. PICK t : t = RemoveAt(areas[m], i)
    OBVIOUS
  <2>4. t \in Seq(VmRec) /\ PagesApart(t) /\ PagesIn(t) = PagesIn(areas[m]) \ PagesOf(areas[m][i])
    BY <2>1, <2>2, <2>3, OneLess
  <2>5. PagesOf(areas[m][i]) \subseteq mapped[m]
    <3>1. areas[m][i] \in ToSet(areas[m])
      BY <2>1, ListType
    <3> QED BY <3>1, <2>1 DEF PagesIn
  <2>6. m \notin fixed' => Within(t) /\ Sorted(t)
    <3>1. areas[m] \in Seq(AreaRec)
      BY <2>1, ListType
    <3>2. m \notin fixed => Within(areas[m]) /\ Sorted(areas[m])
      BY DEF VmInv
    <3> QED BY <3>1, <3>2, <2>2, <2>3, <1>1, Dropped
  <2>7. areas' = [areas EXCEPT ![m] = t] /\ mapped' = [mapped EXCEPT ![m] = PagesIn(t)]
    BY <2>1, <2>3, <2>4, <1>3 DEF Unmapped
  <2>8. PagesIn(t) \in SUBSET Int
    BY <2>4, ListType
  <2>9. halted' = "no" /\ live' \subseteq Spaces /\ fixed \subseteq fixed' \union {m}
    BY <2>5, <1>1, <1>3 DEF VmInv
  <2> QED BY <2>4, <2>6, <2>7, <2>8, <2>9, <1>1, ListStep
<1> QED BY <1>2, <1>3 DEF vfree

LEMMA MmCopyInv ==
  ASSUME VmInv, NEW m \in Spaces, NEW n \in Spaces, mm_copy(m, n)
  PROVE  VmInv'
<1>1. PICK c : c = CopyAreas(m)
  OBVIOUS
<1>2. Live /\ areas[m] \in Seq(VmRec)
  BY DEF mm_copy, VmInv
<1>3. /\ c \in CopyRec /\ PagesApart(c.list)
      /\ (\A i \in DOMAIN areas[m] : areas[m][i].start # 0) /\ c.why = "no" => c.list = areas[m]
  BY <1>1, <1>2, CopyResult
<1>4. CASE c.why = "no"
  <2>1. /\ live' = live \union {n} /\ halted' = halted
        /\ areas' = [areas EXCEPT ![n] = c.list]
        /\ mapped' = [mapped EXCEPT ![n] = PagesIn(c.list)]
        /\ fixed' = (IF m \in fixed THEN fixed \union {n} ELSE fixed)
    BY <1>1, <1>4 DEF mm_copy
  <2>2. c.list \in Seq(VmRec)
    BY <1>3 DEF CopyRec
  <2>3. PagesIn(c.list) \in SUBSET Int
    BY <2>2, ListType
  <2>4. ASSUME n \notin fixed' PROVE Within(c.list) /\ Sorted(c.list)
    <3>1. m \notin fixed
      BY <2>1, <2>4
    <3>2. Within(areas[m]) /\ Sorted(areas[m])
      BY <3>1 DEF VmInv
    <3>3. \A i \in DOMAIN areas[m] : areas[m][i].start \in Nat
      BY <1>2, ListType, InList
    <3>4. \A i \in DOMAIN areas[m] : areas[m][i].start # 0
      BY <3>2, <3>3, Constants DEF Within
    <3> QED BY <3>2, <3>4, <1>3, <1>4
  <2>5. halted' = "no" /\ live' \subseteq Spaces /\ fixed \subseteq fixed' \union {n}
    BY <2>1, <1>2 DEF VmInv, Live
  <2> QED BY <2>1, <2>2, <2>3, <2>4, <2>5, <1>2, <1>3, ListStep
<1>5. CASE c.why \in {"pte exists", "page fault"}
  <2>1. halted' = c.why /\ UNCHANGED <<live, areas, mapped, fixed>>
    BY <1>1, <1>5 DEF mm_copy
  <2>2. ~Live' /\ halted' \in {"no", "pte exists", "null area", "page fault"}
    BY <2>1, <1>5 DEF Live
  <2> QED BY <2>1, <2>2 DEF VmInv
<1> QED BY <1>1, <1>4, <1>5 DEF mm_copy

LEMMA Empty == <<>> \in Seq(VmRec) /\ PagesIn(<<>>) = {} /\ PagesApart(<<>>)
               /\ Within(<<>>) /\ Sorted(<<>>)
<1>1. <<>> \in Seq(VmRec) /\ DOMAIN <<>> = {}
  OBVIOUS
<1>2. PagesIn(<<>>) = {}
  BY <1>1 DEF PagesIn, ToSet
<1>3. PICK e : e = <<>> /\ DOMAIN e = {}
  BY <1>1
<1>4. PagesApart(e) /\ Within(e) /\ Sorted(e)
  BY <1>3 DEF PagesApart, Within, Sorted
<1> QED BY <1>1, <1>2, <1>3, <1>4

LEMMA DropAllInv ==
  ASSUME VmInv, Live, NEW m \in Spaces, DropAll(m), live' \subseteq live
  PROVE  VmInv'
<1>1. mapped[m] = PagesIn(areas[m])
  BY DEF VmInv
<1>2. /\ areas' = [areas EXCEPT ![m] = <<>>]
      /\ fixed' = fixed \ {m}
      /\ mapped' = [mapped EXCEPT ![m] = @ \ PagesIn(areas[m])]
      /\ halted' = (IF PagesIn(areas[m]) \subseteq mapped[m] THEN "no" ELSE "no pte")
  BY DEF DropAll, PagesIn, Unmapped
<1>3. halted' = "no" /\ live' \subseteq Spaces /\ fixed \subseteq fixed' \union {m}
  BY <1>1, <1>2 DEF VmInv
<1>4. mapped' = [mapped EXCEPT ![m] = {}]
  BY <1>1, <1>2
<1>5. PICK e \in Seq(VmRec) : e = <<>> /\ PagesIn(e) = {} /\ PagesApart(e) /\ Within(e) /\ Sorted(e)
  BY Empty
<1> QED BY <1>2, <1>3, <1>4, <1>5, ListStep

\* The invariant of the address spaces of tasks: lists are inside the space and
\* sorted where no address was asked for; as long as the kernel runs, no two areas
\* share a page and exactly the pages that vmm_vmap mapped are mapped
\* (mm_find_vm_area, vmalloc, vfree, mm_copy, mm_replace, mm_free).
THEOREM VmInvariant == Spec => []VmInv
<1>1. Init => VmInv
  <2> SUFFICES ASSUME Init PROVE VmInv
    OBVIOUS
  <2>1. PICK e \in Seq(VmRec) : e = <<>> /\ PagesIn(e) = {} /\ PagesApart(e) /\ Within(e) /\ Sorted(e)
    BY Empty
  <2>2. areas = [m \in Spaces |-> e] /\ mapped = [m \in Spaces |-> {}]
    BY <2>1 DEF Init
  <2>3. areas \in [Spaces -> Seq(VmRec)] /\ mapped \in [Spaces -> SUBSET Int]
    BY <2>1, <2>2
  <2>4. live \subseteq Spaces /\ halted = "no"
    BY VmAreaAssumption DEF Init
  <2> QED BY <2>1, <2>2, <2>3, <2>4 DEF VmInv
<1>2. ASSUME VmInv, [Next]_vars PROVE VmInv'
  <2>1. ASSUME NEW m \in Spaces, NEW p \in FixedPtrs \union {0}, NEW n \in Sizes, vmalloc(m, p, n)
        PROVE  VmInv'
    BY <1>2, <2>1, VmallocInv
  <2>2. ASSUME NEW m \in Spaces, NEW p \in 0 .. Wrap - 1, vfree(m, p) PROVE VmInv'
    BY <1>2, <2>2, VfreeInv
  <2>3. ASSUME NEW m \in Spaces, NEW n \in Spaces, mm_copy(m, n) PROVE VmInv'
    BY <1>2, <2>3, MmCopyInv
  <2>4. ASSUME NEW m \in Spaces, mm_replace(m) PROVE VmInv'
    <3>1. live' \subseteq live /\ Live /\ DropAll(m)
      BY <2>4 DEF mm_replace
    <3> QED BY <3>1, <1>2, DropAllInv
  <2>5. ASSUME NEW m \in Spaces, mm_free(m) PROVE VmInv'
    <3>1. live' \subseteq live /\ Live /\ DropAll(m)
      BY <2>5 DEF mm_free
    <3> QED BY <3>1, <1>2, DropAllInv
  <2>6. CASE UNCHANGED vars
    BY <1>2, <2>6 DEF vars, VmInv, Live
  <2> QED BY <1>2, <2>1, <2>2, <2>3, <2>4, <2>5, <2>6 DEF Next
<1> QED BY <1>1, <1>2, PTL DEF Spec

\* mm_find_vm_area gives out no range twice, and keeps the list sorted, as long as
\* nobody asks for an address.
THEOREM VmAreasDisjoint == Spec => []AreasDisjoint
<1>1. ASSUME VmInv PROVE AreasDisjoint
  <2>1. ASSUME NEW m \in Spaces \ fixed
        PROVE  areas[m] \in Seq(VmRec) /\ Within(areas[m]) /\ Sorted(areas[m])
    BY <1>1 DEF VmInv
  <2>2. ASSUME NEW m \in Spaces \ fixed, NEW a \in ToSet(areas[m])
        PROVE  Start <= a.start /\ a.start <= a.end /\ a.end < End
    BY <2>1, ListType DEF Within
  <2> QED BY <2>1, <2>2 DEF AreasDisjoint, Sorted
<1> QED BY <1>1, VmInvariant, PTL

\* Exactly the pages that were mapped for the areas are mapped, and ptm_unmap_pages
\* never misses a pte; where every area starts at a page, these are the pages the
\* areas reach, of whatever page size and with ends that wrap.
THEOREM VmMappedExactly == Spec => []MappedExactly
<1>1. ASSUME VmInv PROVE MappedExactly
  <2>1. halted # "no pte"
    BY <1>1 DEF VmInv
  <2>2. ASSUME Live, NEW m \in Spaces PROVE mapped[m] = PagesIn(areas[m])
    BY <1>1, <2>2 DEF VmInv
  <2>3. ASSUME Live, NEW m \in Spaces, \A a \in ToSet(areas[m]) : Aligned(a)
        PROVE  mapped[m] = UNION {Reached(a) : a \in ToSet(areas[m])}
    <3>1. areas[m] \in Seq(VmRec)
      BY <1>1 DEF VmInv
    <3>2. \A a \in ToSet(areas[m]) : Reached(a) = PagesOf(a)
      BY <3>1, <2>3, ListType, AlignedPages
    <3> QED BY <3>2, <2>2, <2>3 DEF PagesIn
  <2> QED BY <2>1, <2>2, <2>3 DEF MappedExactly
<1> QED BY <1>1, VmInvariant, PTL

\* mm_copy of a space whose areas start at pages, lie below the end and are not
\* empty never fails and never faults, and the child's list is its parent's: by
\* induction over the list.
THEOREM VmForkCopies == Spec => []ForkCopies
<1>1. ASSUME VmInv PROVE ForkCopies
  <2>1. SUFFICES ASSUME Live, NEW m \in live, \A a \in ToSet(areas[m]) : CopyableArea(a)
                 PROVE  CopyAreas(m) = [list |-> areas[m], why |-> "no"]
    BY DEF ForkCopies, CopyableArea
  <2>2. m \in Spaces
    BY <1>1 DEF VmInv
  <2>3. areas[m] \in Seq(VmRec) /\ PagesApart(areas[m]) /\ mapped[m] = PagesIn(areas[m])
    BY <2>1, <2>2, <1>1 DEF VmInv
  <2> QED BY <2>1, <2>2, <2>3, CopyWhole
<1> QED BY <1>1, VmInvariant, PTL


-----------------------------------------------------------------------------
(* The kernel's areas: the list and the tables.                            *)

\* A page, or an end, says which area of a sorted list it belongs to.
LEMMA ListFacts ==
  ASSUME NEW list \in Seq(AreaRec), Inside(list), Sorted(list)
  PROVE  /\ \A a \in ToSet(list) :
              /\ a \in AreaRec /\ a.start \in Nat /\ a.end \in Nat
              /\ Start <= a.start /\ a.start < a.end /\ a.end < End
         /\ \A a, b \in ToSet(list) : a.end = b.end => a = b
         /\ \A a, b \in ToSet(list) : KPagesOf(a) \cap KPagesOf(b) # {} => a = b
<1>1. \A i \in DOMAIN list : list[i].start \in Nat /\ list[i].end \in Nat
  BY InList
<1>2. \A i \in DOMAIN list : Start <= list[i].start /\ list[i].start < list[i].end /\ list[i].end < End
  BY DEF Inside
<1>3. ASSUME NEW a \in ToSet(list)
      PROVE  /\ a \in AreaRec /\ a.start \in Nat /\ a.end \in Nat
             /\ Start <= a.start /\ a.start < a.end /\ a.end < End
  <2>1. PICK i \in DOMAIN list : a = list[i]
    BY InList
  <2> QED BY <2>1, <1>1, <1>2, InList
<1>4. ASSUME NEW a \in ToSet(list), NEW b \in ToSet(list), a # b
      PROVE  a.end <= b.start \/ b.end <= a.start
  <2>1. PICK i \in DOMAIN list : a = list[i]
    BY InList
  <2>2. PICK j \in DOMAIN list : b = list[j]
    BY InList
  <2>3. i < j \/ j < i
    <3>1. i # j
      BY <2>1, <2>2, <1>4
    <3>2. i \in Nat /\ j \in Nat
      BY InList
    <3> QED BY <3>1, <3>2
  <2> QED BY <2>1, <2>2, <2>3 DEF Sorted
<1>5. ASSUME NEW a \in ToSet(list), NEW b \in ToSet(list), a.end = b.end PROVE a = b
  <2>1. SUFFICES ASSUME a # b PROVE FALSE
    OBVIOUS
  <2>2. a.end <= b.start \/ b.end <= a.start
    BY <2>1, <1>4
  <2> QED BY <2>2, <1>3, <1>5
<1>6. ASSUME NEW a \in ToSet(list), NEW b \in ToSet(list), KPagesOf(a) \cap KPagesOf(b) # {}
      PROVE  a = b
  <2>1. SUFFICES ASSUME a # b PROVE FALSE
    OBVIOUS
  <2>2. a.end <= b.start \/ b.end <= a.start
    BY <2>1, <1>4
  <2>3. KPagesOf(a) \cap KPagesOf(b) = {}
    BY <2>2, <1>3, RangesApart
  <2> QED BY <2>3, <1>6
<1> QED BY <1>3, <1>5, <1>6

LEMMA KvmList ==
  ASSUME KvmInv
  PROVE  /\ k_vmlist \in Seq(AreaRec) /\ Inside(k_vmlist) /\ Sorted(k_vmlist)
         /\ \A a \in ToSet(k_vmlist) :
              /\ a \in AreaRec /\ a.start \in Nat /\ a.end \in Nat
              /\ Start <= a.start /\ a.start < a.end /\ a.end < End
              /\ KPagesOf(a) \subseteq Start .. End - 1
         /\ \A a, b \in ToSet(k_vmlist) : a.end = b.end => a = b
         /\ \A a, b \in ToSet(k_vmlist) : \A p : p \in KPagesOf(a) /\ p \in KPagesOf(b) => a = b
<1>1. k_vmlist \in Seq(AreaRec) /\ Inside(k_vmlist) /\ Sorted(k_vmlist)
  BY DEF KvmInv, KvmType
<1>2. \A a \in ToSet(k_vmlist) :
        /\ a \in AreaRec /\ a.start \in Nat /\ a.end \in Nat
        /\ Start <= a.start /\ a.start < a.end /\ a.end < End
  BY <1>1, ListFacts
<1>3. \A a \in ToSet(k_vmlist) : KPagesOf(a) \subseteq Start .. End - 1
  BY <1>2, VmAreaAssumption DEF KPagesOf
<1>4. \A a, b \in ToSet(k_vmlist) : a.end = b.end => a = b
  BY <1>1, ListFacts
<1>5. \A a, b \in ToSet(k_vmlist) : \A p : p \in KPagesOf(a) /\ p \in KPagesOf(b) => a = b
  BY <1>1, ListFacts
<1> QED BY <1>1, <1>2, <1>3, <1>4, <1>5

\* Every page has its entry in the table that all address spaces share.
LEMMA Tables ==
  ASSUME KvmInv, ~panicked, NEW p \in Start .. End - 1
  PROVE  /\ \A s \in kspaces : Pte(s, p) = SharedPte(p)
         /\ \A s \in kspaces : ptm_alloc_pml4es(s, p) = page_dir[s]
         /\ p \div PerEntry \in Entries
<1>1. Start \in Nat /\ End \in Nat /\ PerEntry \in Nat \ {0}
  BY VmAreaAssumption, KernelVmAssumption
<1>2. p \div PerEntry \in Entries
  BY <1>1 DEF Entries
<1>3. \A s \in kspaces : Pte(s, p) = SharedPte(p)
  BY <1>2 DEF Pte, SharedPte, KvmInv, SameTables
<1>4. Entries \subseteq Int
  BY <1>1 DEF Entries
<1>5. ASSUME NEW s \in kspaces, NEW i \in Entries PROVE page_dir[s][i] # None
  <2>1. page_dir[s][i] = <<KRoot, i>>
    BY DEF KvmInv, SameTables
  <2>2. <<KRoot, i>> \in (KTasks \union {KRoot}) \X Int
    BY <1>4
  <2> QED BY <2>1, <2>2, KernelVmAssumption
<1>6. ASSUME NEW s \in kspaces PROVE ptm_alloc_pml4es(s, p) = page_dir[s]
  <2>1. page_dir[s] = [i \in Entries |-> page_dir[s][i]]
    BY DEF KvmInv, KvmType
  <2>2. ptm_alloc_pml4es(s, p) = [i \in Entries |-> page_dir[s][i]]
    BY <1>5 DEF ptm_alloc_pml4es
  <2> QED BY <2>1, <2>2
<1> QED BY <1>2, <1>3, <1>6

LEMMA SharedPteApart ==
  \A p, q : SharedPte(p) = SharedPte(q) => p = q
BY DEF SharedPte

LEMMA KvmInitInv == KvmInit => KvmInv
<1> SUFFICES ASSUME KvmInit PROVE KvmInv
  OBVIOUS
<1> USE DEF KvmInit
<1>1. k_vmlist = <<>> /\ k_vmlist \in Seq(AreaRec) /\ DOMAIN k_vmlist = {} /\ ToSet(k_vmlist) = {}
  BY DEF ToSet
<1>2. Inside(k_vmlist) /\ Sorted(k_vmlist)
  BY <1>1 DEF Inside, Sorted
<1>3. NoArea \in AreaRec
  BY AreaType DEF NoArea
<1>4. KvmType
  <2>1. kspaces \subseteq KTasks \union {KRoot} /\ KRoot \in kspaces /\ krunning \in KTasks
    BY KernelVmAssumption
  <2>2. /\ kirq \in [KTasks -> BOOLEAN] /\ kpc \in [KTasks -> Steps] /\ karea \in [KTasks -> AreaRec]
    BY <1>3 DEF Steps
  <2>3. page_dir \in [KTasks \union {KRoot} ->
                        [Entries -> ((KTasks \union {KRoot}) \X Entries) \union {None}]]
    BY DEF prepare_hh_init
  <2>4. returned \subseteq ToSet(k_vmlist) /\ panicked \in BOOLEAN
    OBVIOUS
  <2> QED BY <2>1, <2>2, <2>3, <2>4, <1>1, <1>2 DEF KvmType
<1>5. \A t \in KTasks : kpc[t] = "out"
  OBVIOUS
<1>6. SameTables
  <2>1. ASSUME NEW s \in kspaces, NEW i \in Entries PROVE page_dir[s][i] = <<KRoot, i>>
    <3>1. s \in {KRoot, KFirst} /\ s \in KTasks \union {KRoot}
      BY KernelVmAssumption
    <3>2. page_dir[s] = [j \in Entries |-> IF s \in {KRoot, KFirst} THEN prepare_hh_init(j) ELSE None]
      BY <3>1
    <3>3. page_dir[s][i] = prepare_hh_init(i)
      BY <3>1, <3>2
    <3> QED BY <3>3 DEF prepare_hh_init
  <2> QED BY <2>1 DEF SameTables
<1>7. IrqOn /\ LockHeld /\ OneOwner
  BY <1>5 DEF IrqOn, LockHeld, OneOwner, Busy
<1>8. PtesExact
  BY <1>1, <1>5 DEF PtesExact, Present, ToUnmap
<1>9. Windows
  BY <1>1, <1>5 DEF Windows, ToUnmap
<1>10. \A t \in KTasks : AreaOf(t)
  BY <1>5 DEF AreaOf
<1>11. PanicsInWindowOnly
  BY DEF PanicsInWindowOnly
<1> QED BY <1>4, <1>6, <1>7, <1>8, <1>9, <1>10, <1>11 DEF KvmInv

\* A step that maps and unmaps nothing leaves the pages as they are.
LEMMA QuietStep ==
  ASSUME KvmInv, ~panicked, k_vmlist' = k_vmlist, ptes' = ptes,
         \A t \in KTasks : /\ kpc'[t] = "map" <=> kpc[t] = "map"
                           /\ kpc'[t] = "unmap" <=> kpc[t] = "unmap"
                           /\ kpc[t] \in {"map", "unmap"} => karea'[t] = karea[t]
  PROVE  PtesExact' /\ Windows'
<1>1. \A t \in KTasks : \A a, p : ToMap(t, a, p)' <=> ToMap(t, a, p)
  BY DEF ToMap
<1>2. \A t \in KTasks : \A p : ToUnmap(t, p)' <=> ToUnmap(t, p)
  BY DEF ToUnmap
<1>3. \A p : Present(p)' <=> Present(p)
  BY <1>1, <1>2 DEF Present
<1>4. PtesExact'
  BY <1>3 DEF KvmInv, PtesExact
<1>5. Windows'
  BY <1>1, <1>2 DEF KvmInv, Windows
<1> QED BY <1>4, <1>5

-----------------------------------------------------------------------------
(* The steps of KernelVm.                                                  *)

\* Going on in a call: what follows for the invariant from where t is next.
LEMMA KvmMoves ==
  ASSUME KvmInv, NEW t \in KTasks, NEW where, At(t, where), NEW next \in Steps,
         Goto(t, next), karea' \in [KTasks -> AreaRec],
         \A u \in KTasks : u # t => karea'[u] = karea[u],
         kirq' \in [KTasks -> BOOLEAN], \A u \in KTasks : u # t => kirq'[u] = kirq[u],
         krunning' = krunning
  PROVE  /\ ~panicked /\ krunning = t /\ t \in kspaces /\ kpc[t] = where
         /\ kpc' \in [KTasks -> Steps] /\ kpc'[t] = next
         /\ \A u \in KTasks : u # t => kpc'[u] = kpc[u] /\ karea'[u] = karea[u]
         /\ IrqOn'
<1>1. ~panicked /\ krunning = t /\ t \in kspaces /\ kpc[t] = where
  BY DEF At
<1>2. kpc \in [KTasks -> Steps]
  BY DEF KvmInv, KvmType
<1>3. kpc' \in [KTasks -> Steps] /\ kpc'[t] = next /\ \A u \in KTasks : u # t => kpc'[u] = kpc[u]
  BY <1>2 DEF Goto
<1>4. IrqOn
  BY <1>1 DEF KvmInv
<1>5. IrqOn'
  <2>1. ASSUME NEW u \in KTasks, kpc'[u] # "out", u # krunning' PROVE kirq'[u]
    BY <2>1, <1>1, <1>3, <1>4 DEF IrqOn
  <2> QED BY <2>1 DEF IrqOn
<1> QED BY <1>1, <1>3, <1>5

LEMMA KvmallocInv ==
  ASSUME KvmInv, NEW t \in KTasks, NEW size \in Sizes, NEW on \in BOOLEAN, kvmalloc(t, size, on)
  PROVE  KvmInv'
<1>1. /\ At(t, "out") /\ Goto(t, "alloc") /\ karea' = [karea EXCEPT ![t] = Area(0, size)]
      /\ kirq' = [kirq EXCEPT ![t] = on] /\ "alloc" \in Steps /\ ~TooLarge(size)
      /\ UNCHANGED <<kspaces, page_dir, ptes, k_vmlist, k_vmlist_lock, krunning, returned, panicked>>
  BY DEF kvmalloc, Steps
<1>2. KvmType /\ Area(0, size) \in AreaRec /\ Area(0, size).end = size
  BY SizeType, AreaType DEF KvmInv
<1>3. /\ karea' \in [KTasks -> AreaRec] /\ karea'[t].end = size
      /\ \A u \in KTasks : u # t => karea'[u] = karea[u]
  BY <1>1, <1>2 DEF KvmType
<1>4. /\ kirq' \in [KTasks -> BOOLEAN] /\ \A u \in KTasks : u # t => kirq'[u] = kirq[u]
  BY <1>1, <1>2 DEF KvmType
<1>5. /\ ~panicked /\ krunning = t /\ t \in kspaces /\ kpc[t] = "out"
      /\ kpc' \in [KTasks -> Steps] /\ kpc'[t] = "alloc"
      /\ \A u \in KTasks : u # t => kpc'[u] = kpc[u] /\ karea'[u] = karea[u]
      /\ IrqOn'
  BY <1>1, <1>3, <1>4, KvmMoves
<1>6. /\ SameTables /\ LockHeld /\ OneOwner /\ \A u \in KTasks : AreaOf(u)
  BY <1>5 DEF KvmInv
<1>7. KvmType'
  BY <1>1, <1>2, <1>3, <1>4, <1>5 DEF KvmType
<1>8. SameTables' /\ LockHeld'
  BY <1>1, <1>5, <1>6 DEF SameTables, LockHeld
<1>9. OneOwner'
  BY <1>1, <1>5, <1>6 DEF OneOwner, Busy
<1>10. \A u \in KTasks : AreaOf(u)'
  BY <1>1, <1>3, <1>5, <1>6 DEF AreaOf
<1>11. PtesExact' /\ Windows'
  BY <1>1, <1>5, QuietStep
<1>12. PanicsInWindowOnly'
  BY <1>1, <1>5 DEF PanicsInWindowOnly
<1> QED BY <1>5, <1>7, <1>8, <1>9, <1>10, <1>11, <1>12 DEF KvmInv

LEMMA KvfreeInv ==
  ASSUME KvmInv, NEW t \in KTasks, NEW a \in returned, NEW on \in BOOLEAN, kvfree(t, a, on)
  PROVE  KvmInv'
<1>1. /\ At(t, "out") /\ Goto(t, "free") /\ karea' = [karea EXCEPT ![t] = a]
      /\ kirq' = [kirq EXCEPT ![t] = on] /\ "free" \in Steps
      /\ returned' = returned \ {a}
      /\ UNCHANGED <<kspaces, page_dir, ptes, k_vmlist, k_vmlist_lock, krunning, panicked>>
  BY DEF kvfree, Steps
<1>2. KvmType /\ a \in ToSet(k_vmlist) /\ a \in AreaRec
  BY KvmList DEF KvmInv, KvmType
<1>3. /\ karea' \in [KTasks -> AreaRec] /\ karea'[t] = a
      /\ \A u \in KTasks : u # t => karea'[u] = karea[u]
  BY <1>1, <1>2 DEF KvmType
<1>4. /\ kirq' \in [KTasks -> BOOLEAN] /\ \A u \in KTasks : u # t => kirq'[u] = kirq[u]
  BY <1>1, <1>2 DEF KvmType
<1>5. /\ ~panicked /\ krunning = t /\ t \in kspaces /\ kpc[t] = "out"
      /\ kpc' \in [KTasks -> Steps] /\ kpc'[t] = "free"
      /\ \A u \in KTasks : u # t => kpc'[u] = kpc[u] /\ karea'[u] = karea[u]
      /\ IrqOn'
  BY <1>1, <1>3, <1>4, KvmMoves
<1>6. /\ SameTables /\ LockHeld /\ OneOwner /\ \A u \in KTasks : AreaOf(u)
  BY <1>5 DEF KvmInv
<1>7. KvmType'
  BY <1>1, <1>2, <1>3, <1>4, <1>5 DEF KvmType
<1>8. SameTables' /\ LockHeld'
  BY <1>1, <1>5, <1>6 DEF SameTables, LockHeld
<1>9. OneOwner'
  <2>1. \A u, v \in KTasks : u # v /\ Busy(u)' /\ Busy(v)' => karea'[u].end # karea'[v].end
    BY <1>3, <1>5, <1>6 DEF OneOwner, Busy
  <2>2. ASSUME NEW b \in returned' PROVE b.end # a.end
    <3>1. b # a /\ b \in ToSet(k_vmlist)
      BY <1>1, <1>2 DEF KvmType
    <3> QED BY <3>1, <1>2, KvmList
  <2>3. \A u \in KTasks, b \in returned' : Busy(u)' => karea'[u].end # b.end
    BY <2>2, <1>1, <1>3, <1>5, <1>6 DEF OneOwner, Busy
  <2> QED BY <2>1, <2>3 DEF OneOwner
<1>10. \A u \in KTasks : AreaOf(u)'
  BY <1>1, <1>2, <1>3, <1>5, <1>6 DEF AreaOf
<1>11. PtesExact' /\ Windows'
  BY <1>1, <1>5, QuietStep
<1>12. PanicsInWindowOnly'
  BY <1>1, <1>5 DEF PanicsInWindowOnly
<1> QED BY <1>5, <1>7, <1>8, <1>9, <1>10, <1>11, <1>12 DEF KvmInv

LEMMA SpinLockInv ==
  ASSUME KvmInv, NEW t \in KTasks, spin_lock(t)
  PROVE  KvmInv'
<1>1. PICK where \in {"alloc", "free"}, next \in Steps :
        /\ next = (IF where = "alloc" THEN "find" ELSE "take")
        /\ At(t, where) /\ Goto(t, next)
  BY DEF spin_lock, At, Steps
<1>2. /\ k_vmlist_lock = None /\ k_vmlist_lock' = t
      /\ UNCHANGED <<kspaces, page_dir, ptes, k_vmlist, krunning, kirq, karea, returned, panicked>>
  BY DEF spin_lock
<1>3. KvmType
  BY DEF KvmInv
<1>4. karea' \in [KTasks -> AreaRec] /\ kirq' \in [KTasks -> BOOLEAN]
  BY <1>2, <1>3 DEF KvmType
<1>5. /\ ~panicked /\ krunning = t /\ t \in kspaces /\ kpc[t] = where
      /\ kpc' \in [KTasks -> Steps] /\ kpc'[t] = next
      /\ \A u \in KTasks : u # t => kpc'[u] = kpc[u] /\ karea'[u] = karea[u]
      /\ IrqOn'
  BY <1>1, <1>2, <1>4, KvmMoves
<1>6. /\ SameTables /\ LockHeld /\ OneOwner /\ \A u \in KTasks : AreaOf(u)
  BY <1>5 DEF KvmInv
<1>7. KvmType'
  BY <1>2, <1>3, <1>5 DEF KvmType
<1>8. LockHeld'
  <2>1. \A u \in KTasks : kpc[u] \notin {"find", "take"}
    BY <1>2, <1>6, KernelVmAssumption DEF LockHeld
  <2> QED BY <2>1, <1>2, <1>5 DEF LockHeld
<1>9. SameTables'
  BY <1>2, <1>6 DEF SameTables
<1>10. \A u \in KTasks : Busy(u)' <=> Busy(u)
  BY <1>1, <1>5 DEF Busy
<1>11. OneOwner'
  BY <1>2, <1>6, <1>10 DEF OneOwner
<1>12. \A u \in KTasks : AreaOf(u)'
  <2>1. AreaOf(t)'
    BY <1>1, <1>2, <1>5, <1>6 DEF AreaOf
  <2>2. ASSUME NEW u \in KTasks, u # t PROVE AreaOf(u)'
    BY <2>2, <1>2, <1>5, <1>6 DEF AreaOf
  <2> QED BY <2>1, <2>2
<1>13. PtesExact' /\ Windows'
  <2>1. \A u \in KTasks : /\ kpc'[u] = "map" <=> kpc[u] = "map"
                          /\ kpc'[u] = "unmap" <=> kpc[u] = "unmap"
    BY <1>1, <1>5
  <2> QED BY <2>1, <1>2, <1>5, QuietStep
<1>14. PanicsInWindowOnly'
  BY <1>2, <1>5 DEF PanicsInWindowOnly
<1> QED BY <1>5, <1>7, <1>8, <1>9, <1>11, <1>12, <1>13, <1>14 DEF KvmInv

\* Address spaces come and go, and tasks are interrupted.
LEMMA SpacesInv ==
  ASSUME KvmInv, NEW t \in KTasks, NEW n \in KTasks,
         new_space(t, n) \/ drop_space(t, n) \/ preempt(n)
  PROVE  KvmInv'
<1>1. /\ ~panicked
      /\ UNCHANGED <<ptes, k_vmlist, k_vmlist_lock, kirq, kpc, karea, returned, panicked>>
  BY DEF new_space, drop_space, preempt, At
<1>2. KvmType /\ SameTables /\ IrqOn /\ LockHeld /\ OneOwner /\ \A u \in KTasks : AreaOf(u)
  BY <1>1 DEF KvmInv
<1>3. PtesExact' /\ Windows'
  BY <1>1, QuietStep
<1>4. LockHeld' /\ OneOwner' /\ \A u \in KTasks : AreaOf(u)'
  BY <1>1, <1>2 DEF LockHeld, OneOwner, Busy, AreaOf
<1>5. PanicsInWindowOnly'
  BY <1>1 DEF PanicsInWindowOnly
<1>6. CASE new_space(t, n)
  <2>1. /\ kspaces' = kspaces \union {n} /\ krunning' = krunning
        /\ page_dir' = [page_dir EXCEPT ![n] = page_dir[KRoot]]
    BY <1>6 DEF new_space, mm_create
  <2>2. KRoot \in kspaces /\ page_dir[KRoot] \in
          [Entries -> ((KTasks \union {KRoot}) \X Entries) \union {None}]
    BY <1>2 DEF KvmType
  <2>3. KvmType'
    BY <2>1, <2>2, <1>1, <1>2 DEF KvmType
  <2>4. SameTables'
    <3>1. \A i \in Entries : page_dir[KRoot][i] = <<KRoot, i>>
      BY <2>2, <1>2 DEF SameTables
    <3>2. page_dir'[n] = page_dir[KRoot]
      BY <2>1, <1>2 DEF KvmType
    <3>3. \A s \in kspaces : s # n => page_dir'[s] = page_dir[s]
      BY <2>1, <1>2 DEF KvmType
    <3> QED BY <3>1, <3>2, <3>3, <2>1, <1>2 DEF SameTables
  <2>5. IrqOn'
    BY <2>1, <1>1, <1>2 DEF IrqOn
  <2> QED BY <2>3, <2>4, <2>5, <1>3, <1>4, <1>5 DEF KvmInv
<1>7. CASE drop_space(t, n)
  <2>1. /\ kspaces' = kspaces \ {n} /\ krunning' = krunning /\ n # KRoot
        /\ page_dir' = [page_dir EXCEPT ![n] = [i \in Entries |-> None]]
    BY <1>7 DEF drop_space
  <2>2. KvmType'
    <3>1. [i \in Entries |-> None] \in [Entries -> ((KTasks \union {KRoot}) \X Entries) \union {None}]
      OBVIOUS
    <3>2. page_dir' \in [KTasks \union {KRoot} ->
                           [Entries -> ((KTasks \union {KRoot}) \X Entries) \union {None}]]
      BY <3>1, <2>1, <1>2 DEF KvmType
    <3>3. kspaces' \subseteq KTasks \union {KRoot} /\ KRoot \in kspaces'
      BY <2>1, <1>2 DEF KvmType
    <3> QED BY <3>2, <3>3, <2>1, <1>1, <1>2 DEF KvmType
  <2>3. SameTables'
    <3>1. \A s \in kspaces : s # n => page_dir'[s] = page_dir[s]
      BY <2>1, <1>2 DEF KvmType
    <3> QED BY <3>1, <2>1, <1>2 DEF SameTables
  <2>4. IrqOn'
    BY <2>1, <1>1, <1>2 DEF IrqOn
  <2> QED BY <2>2, <2>3, <2>4, <1>3, <1>4, <1>5 DEF KvmInv
<1>8. CASE preempt(n)
  <2>1. kirq[krunning] /\ krunning' = n /\ UNCHANGED <<kspaces, page_dir>>
    BY <1>8 DEF preempt
  <2>2. KvmType'
    BY <2>1, <1>1, <1>2 DEF KvmType
  <2>3. SameTables'
    BY <2>1, <1>2 DEF SameTables
  <2>4. IrqOn'
    <3>1. ASSUME NEW u \in KTasks, kpc[u] # "out" PROVE kirq[u]
      BY <3>1, <2>1, <1>2 DEF IrqOn
    <3> QED BY <3>1, <1>1 DEF IrqOn
  <2> QED BY <2>2, <2>3, <2>4, <1>3, <1>4, <1>5 DEF KvmInv
<1> QED BY <1>6, <1>7, <1>8

\* The lock is given up, and the task that had it is not at the list any more.
LEMMA Unlocked ==
  ASSUME KvmInv, ~panicked, NEW t \in KTasks, kpc[t] \in {"find", "take"},
         kpc'[t] \notin {"find", "take"}, \A u \in KTasks : u # t => kpc'[u] = kpc[u]
  PROVE  LockHeld'
<1>1. LockHeld
  BY DEF KvmInv
<1>2. \A u \in KTasks : kpc'[u] \notin {"find", "take"}
  BY <1>1 DEF LockHeld
<1> QED BY <1>2 DEF LockHeld

LEMMA FindAreaInv ==
  ASSUME KvmInv, NEW t \in KTasks, find_area(t)
  PROVE  KvmInv'
<1>1. PICK size, i, a : /\ size = karea[t].end /\ i = FindFree(k_vmlist, size)
                        /\ a = Behind(k_vmlist, i, size)
  OBVIOUS
<1>2. /\ At(t, "find") /\ k_vmlist_lock' = None
      /\ UNCHANGED <<kspaces, page_dir, ptes, krunning, returned, panicked>>
  BY DEF find_area
<1>3. KvmType /\ ~panicked /\ kpc[t] = "find" /\ "out" \in Steps /\ "map" \in Steps
  BY <1>2 DEF KvmInv, At, Steps
<1>4. SameTables /\ LockHeld /\ OneOwner /\ PtesExact /\ Windows /\ \A u \in KTasks : AreaOf(u)
  BY <1>3 DEF KvmInv
<1>5. SameTables' /\ PanicsInWindowOnly' /\ ~panicked'
  BY <1>2, <1>3, <1>4 DEF SameTables, PanicsInWindowOnly
<1>6. CASE i = NoRoom
  <2>1. /\ Goto(t, "out") /\ kirq' = [kirq EXCEPT ![t] = TRUE]
        /\ karea' = [karea EXCEPT ![t] = NoArea] /\ k_vmlist' = k_vmlist
    BY <1>1, <1>6 DEF find_area, Back
  <2>2. NoArea \in AreaRec
    BY AreaType DEF NoArea
  <2>3. /\ karea' \in [KTasks -> AreaRec] /\ \A u \in KTasks : u # t => karea'[u] = karea[u]
    BY <2>1, <2>2, <1>3 DEF KvmType
  <2>4. /\ kirq' \in [KTasks -> BOOLEAN] /\ \A u \in KTasks : u # t => kirq'[u] = kirq[u]
    BY <2>1, <1>3 DEF KvmType
  <2>5. /\ kpc' \in [KTasks -> Steps] /\ kpc'[t] = "out"
        /\ \A u \in KTasks : u # t => kpc'[u] = kpc[u] /\ karea'[u] = karea[u]
        /\ IrqOn'
    BY <2>1, <2>3, <2>4, <1>2, <1>3, KvmMoves
  <2>6. KvmType'
    BY <2>1, <2>3, <2>4, <2>5, <1>2, <1>3 DEF KvmType
  <2>7. LockHeld'
    BY <2>5, <1>3, Unlocked
  <2>8. OneOwner'
    BY <2>5, <1>2, <1>4 DEF OneOwner, Busy
  <2>9. \A u \in KTasks : AreaOf(u)'
    BY <2>1, <2>5, <1>4 DEF AreaOf
  <2>10. PtesExact' /\ Windows'
    BY <2>1, <2>5, <1>2, <1>3, QuietStep
  <2> QED BY <2>5, <2>6, <2>7, <2>8, <2>9, <2>10, <1>5 DEF KvmInv
<1>7. CASE i # NoRoom
  <2>1. /\ Goto(t, "map") /\ kirq' = kirq /\ karea' = [karea EXCEPT ![t] = a]
        /\ k_vmlist' = InsertAt(k_vmlist, i + 1, a)
    BY <1>1, <1>7 DEF find_area
  <2>2. /\ k_vmlist \in Seq(AreaRec) /\ Inside(k_vmlist) /\ Sorted(k_vmlist)
        /\ Within(k_vmlist) /\ size \in Sizes /\ size \in Nat \ {0} /\ ~TooLarge(size)
    <3>1. size \in Sizes /\ ~TooLarge(size)
      BY <1>1, <1>3, <1>4 DEF AreaOf
    <3>2. k_vmlist \in Seq(AreaRec) /\ Inside(k_vmlist) /\ Sorted(k_vmlist)
      BY <1>3 DEF KvmType
    <3> QED BY <3>1, <3>2, SizeType, InsideWithin
  <2>3. PICK list \in Seq(AreaRec) : list = k_vmlist
    BY <2>2
  <2>4. /\ i \in 0 .. Len(list) /\ a \in AreaRec /\ a.end = a.start + size
        /\ Start <= a.start /\ a.end < End
        /\ (i # 0 => a.start = list[i].end)
        /\ (i < Len(list) => a.end <= list[i + 1].start)
    BY <2>2, <2>3, <1>1, <1>7, Picked
  <2>5. a.start \in Nat /\ a.end \in Nat /\ a.start < a.end
    BY <2>2, <2>4, AreaType
  <2>6. i # 0 => list[i].end <= a.start
    BY <2>4, <2>5
  <2>7. PICK next : next = InsertAt(list, i + 1, a)
    OBVIOUS
  <2>8. /\ next \in Seq(AreaRec) /\ Inside(next) /\ ToSet(next) = ToSet(list) \union {a}
        /\ Sorted(next)
    <3>1. Inside(list) /\ Sorted(list) /\ Within(list)
      BY <2>2, <2>3
    <3>2. i \in 0 .. Len(list) /\ a \in AreaRec /\ Start <= a.start /\ a.start <= a.end /\ a.end < End
      BY <2>4, <2>5
    <3>3. i < Len(list) => a.end <= list[i + 1].start
      BY <2>4
    <3>4. next \in Seq(AreaRec) /\ Inside(next) /\ ToSet(next) = ToSet(list) \union {a}
      <4>1. Inside(list) /\ a.start < a.end => Inside(next)
        BY <3>1, <3>2, <2>7, Added
      <4>2. next \in Seq(AreaRec) /\ ToSet(next) = ToSet(list) \union {a}
        BY <3>1, <3>2, <2>7, Added
      <4> QED BY <4>1, <4>2, <3>1, <2>5
    <3>5. Sorted(next)
      BY <3>1, <3>2, <3>3, <2>5, <2>6, <2>7, Added
    <3> QED BY <3>4, <3>5
  <2>9. /\ k_vmlist' \in Seq(AreaRec) /\ Inside(k_vmlist)' /\ Sorted(k_vmlist)'
        /\ ToSet(k_vmlist') = ToSet(k_vmlist) \union {a}
    <3>1. k_vmlist' = next
      BY <2>1, <2>3, <2>7
    <3>2. Inside(k_vmlist)' /\ Sorted(k_vmlist)'
      BY <3>1, <2>8 DEF Inside, Sorted
    <3> QED BY <3>1, <3>2, <2>3, <2>8
  <2>10. ASSUME NEW b \in ToSet(k_vmlist)
         PROVE  b.end # a.end /\ \A p : ~(p \in KPagesOf(a) /\ p \in KPagesOf(b))
    <3>1. PICK k \in DOMAIN list : b = list[k]
      BY <2>3, InList
    <3>2. list[k].end <= a.start \/ a.end <= list[k].start
      <4>1. /\ k <= i => list[k].end <= a.start
            /\ k > i => a.end <= list[k].start
        BY <2>2, <2>3, <2>4, <2>6, Gap
      <4>2. i \in Nat /\ k \in Nat
        BY <2>4, InList
      <4> QED BY <4>1, <4>2
    <3>3. b.end <= a.start \/ a.end <= b.start
      BY <3>1, <3>2
    <3>4. b \in AreaRec /\ b.start \in Nat /\ b.end \in Nat /\ b.start < b.end
      BY KvmList
    <3>5. b.end # a.end
      BY <3>3, <3>4, <2>5
    <3>6. KPagesOf(a) \cap KPagesOf(b) = {}
      BY <3>3, <3>4, <2>4, <2>5, RangesApart
    <3> QED BY <3>5, <3>6
  <2>11. /\ karea' \in [KTasks -> AreaRec] /\ karea'[t] = a
         /\ \A u \in KTasks : u # t => karea'[u] = karea[u]
    BY <2>1, <2>4, <1>3 DEF KvmType
  <2>12. /\ kpc' \in [KTasks -> Steps] /\ kpc'[t] = "map"
         /\ \A u \in KTasks : u # t => kpc'[u] = kpc[u] /\ karea'[u] = karea[u]
         /\ IrqOn'
    <3>1. kirq' \in [KTasks -> BOOLEAN] /\ \A u \in KTasks : u # t => kirq'[u] = kirq[u]
      BY <2>1, <1>3 DEF KvmType
    <3> QED BY <3>1, <2>1, <2>11, <1>2, <1>3, KvmMoves
  <2>13. KvmType'
    BY <2>1, <2>9, <2>11, <2>12, <1>2, <1>3 DEF KvmType
  <2>14. LockHeld'
    BY <2>12, <1>3, Unlocked
  <2>15. ASSUME NEW u \in KTasks, u # t, Busy(u) PROVE karea[u].end # a.end
    <3>1. \E b \in ToSet(k_vmlist) : b.end = karea[u].end
      BY <2>15, <1>4 DEF Busy, AreaOf
    <3> QED BY <3>1, <2>10
  <2>16. OneOwner'
    <3>1. \A u, v \in KTasks : u # v /\ Busy(u)' /\ Busy(v)' => karea'[u].end # karea'[v].end
      BY <2>11, <2>12, <2>15, <1>4 DEF OneOwner, Busy
    <3>2. \A u \in KTasks, b \in returned : Busy(u)' => karea'[u].end # b.end
      BY <2>10, <2>11, <2>12, <1>3, <1>4 DEF OneOwner, Busy, KvmType
    <3> QED BY <3>1, <3>2, <1>2 DEF OneOwner
  <2>17. \A u \in KTasks : AreaOf(u)'
    <3>1. AreaOf(t)'
      <4>1. a.start < a.end /\ a.start <= a.start /\ a \in ToSet(k_vmlist')
        BY <2>5, <2>9
      <4> QED BY <4>1, <2>11, <2>12 DEF AreaOf
    <3>2. ASSUME NEW u \in KTasks, u # t PROVE AreaOf(u)'
      BY <3>2, <2>9, <2>12, <1>4 DEF AreaOf
    <3> QED BY <3>1, <3>2
  <2>18. \A b \in ToSet(k_vmlist) : \A u \in KTasks : \A p : ToMap(u, b, p)' <=> ToMap(u, b, p)
    BY <2>10, <2>11, <2>12, <1>3 DEF ToMap
  <2>19. \A p \in KPagesOf(a) : ToMap(t, a, p)'
    BY <2>5, <2>11, <2>12 DEF ToMap, KPagesOf
  <2>20. \A u \in KTasks : \A p : ToUnmap(u, p)' <=> ToUnmap(u, p)
    BY <2>12, <1>3 DEF ToUnmap
  <2>21. \A p : Present(p)' <=> Present(p)
    BY <2>9, <2>18, <2>19, <2>20 DEF Present
  <2>22. PtesExact'
    BY <2>21, <1>2, <1>4 DEF PtesExact
  <2>23. Windows'
    BY <2>9, <2>18, <2>19, <2>20, <1>4 DEF Windows
  <2> QED BY <2>12, <2>13, <2>14, <2>16, <2>17, <2>22, <2>23, <1>5 DEF KvmInv
<1> QED BY <1>6, <1>7

LEMMA TakeAreaInv ==
  ASSUME KvmInv, NEW t \in KTasks, take_area(t)
  PROVE  KvmInv'
<1>1. PICK hits, a : /\ hits = {i \in DOMAIN k_vmlist : k_vmlist[i].start = karea[t].start}
                     /\ a = karea[t]
  OBVIOUS
<1>2. /\ At(t, "take") /\ k_vmlist_lock' = None /\ k_vmlist' = RemoveAt(k_vmlist, Min(hits))
      /\ Goto(t, "unmap")
      /\ UNCHANGED <<kspaces, page_dir, ptes, krunning, kirq, karea, returned, panicked>>
  BY <1>1 DEF take_area
<1>3. KvmType /\ ~panicked /\ kpc[t] = "take" /\ "unmap" \in Steps
  BY <1>2 DEF KvmInv, At, Steps
<1>4. SameTables /\ LockHeld /\ OneOwner /\ PtesExact /\ Windows /\ \A u \in KTasks : AreaOf(u)
  BY <1>3 DEF KvmInv
<1>5. SameTables' /\ PanicsInWindowOnly' /\ ~panicked'
  BY <1>2, <1>3, <1>4 DEF SameTables, PanicsInWindowOnly
<1>6. PICK list \in Seq(AreaRec) : list = k_vmlist /\ Inside(list) /\ Sorted(list)
  BY <1>3 DEF KvmType
<1>7. /\ a \in ToSet(k_vmlist) /\ a \in AreaRec /\ a.start \in Nat /\ a.end \in Nat
      /\ Start <= a.start /\ a.start < a.end /\ a.end < End
  <2>1. a \in ToSet(k_vmlist)
    BY <1>1, <1>3, <1>4 DEF AreaOf
  <2> QED BY <2>1, KvmList
<1>8. DOMAIN list = 1 .. Len(list) /\ Len(list) \in Nat
  BY InList
<1>9. \A k, l \in DOMAIN list : list[k].start = list[l].start => k = l
  <2>1. SUFFICES ASSUME NEW k \in DOMAIN list, NEW l \in DOMAIN list, k < l,
                        list[k].start = list[l].start
                 PROVE  FALSE
    BY <1>8
  <2>2. list[k].end <= list[l].start
    BY <2>1, <1>6 DEF Sorted
  <2>3. list[k].start < list[k].end
    BY <1>6 DEF Inside
  <2>4. list[k].start \in Nat /\ list[k].end \in Nat
    BY InList
  <2> QED BY <2>1, <2>2, <2>3, <2>4
<1>10. PICK k \in 1 .. Len(list) : a = list[k] /\ Min(hits) = k
  <2>1. PICK k \in DOMAIN list : a = list[k]
    BY <1>6, <1>7, InList
  <2>2. k \in hits /\ hits \subseteq DOMAIN list
    BY <2>1, <1>1, <1>6
  <2>3. \A l \in hits : l = k
    BY <2>1, <1>1, <1>6, <1>9
  <2>4. hits \in SUBSET Nat
    BY <2>2, <1>8
  <2>5. Min(hits) \in hits
    BY <2>2, <2>4, MinOf
  <2> QED BY <2>1, <2>3, <2>5, <1>8
<1>11. PICK next : next = RemoveAt(list, k)
  OBVIOUS
<1>12. /\ next \in Seq(AreaRec) /\ Inside(next) /\ Sorted(next) /\ ToSet(next) = Others(list, k)
  BY <1>6, <1>10, <1>11, Dropped
<1>13. Others(list, k) = ToSet(list) \ {a}
  <2>1. \A l \in DOMAIN list : l # k => list[l] # a
    BY <1>8, <1>9, <1>10
  <2>2. \A b \in ToSet(list) : \E l \in DOMAIN list : b = list[l]
    BY InList
  <2>3. \A l \in DOMAIN list : list[l] \in ToSet(list)
    BY InList
  <2> QED BY <2>1, <2>2, <2>3, <1>8, <1>10 DEF Others
<1>14. /\ k_vmlist' \in Seq(AreaRec) /\ Inside(k_vmlist)' /\ Sorted(k_vmlist)'
       /\ ToSet(k_vmlist') = ToSet(k_vmlist) \ {a}
  <2>1. k_vmlist' = next
    BY <1>2, <1>6, <1>10, <1>11
  <2>2. Inside(k_vmlist)' /\ Sorted(k_vmlist)'
    BY <2>1, <1>12 DEF Inside, Sorted
  <2> QED BY <2>1, <2>2, <1>6, <1>12, <1>13
<1>15. /\ kpc' \in [KTasks -> Steps] /\ kpc'[t] = "unmap"
       /\ \A u \in KTasks : u # t => kpc'[u] = kpc[u] /\ karea'[u] = karea[u]
       /\ IrqOn'
  <2>1. kirq' \in [KTasks -> BOOLEAN] /\ karea' \in [KTasks -> AreaRec]
    BY <1>2, <1>3 DEF KvmType
  <2> QED BY <2>1, <1>2, <1>3, KvmMoves
<1>16. \A b \in ToSet(k_vmlist) : b # a => b.end # a.end
  BY <1>7, KvmList
<1>17. \A u \in KTasks : u # t /\ Busy(u) => karea[u].end # a.end
  BY <1>1, <1>3, <1>4 DEF OneOwner, Busy
<1>18. returned \subseteq ToSet(k_vmlist')
  <2>1. a \notin returned
    BY <1>1, <1>3, <1>4 DEF OneOwner, Busy
  <2> QED BY <2>1, <1>3, <1>14 DEF KvmType
<1>19. KvmType'
  BY <1>2, <1>3, <1>14, <1>15, <1>18 DEF KvmType
<1>20. LockHeld'
  BY <1>3, <1>15, Unlocked
<1>21. OneOwner'
  BY <1>2, <1>4, <1>15 DEF OneOwner, Busy
<1>22. \A u \in KTasks : AreaOf(u)'
  <2>1. AreaOf(t)'
    BY <1>1, <1>2, <1>7, <1>15 DEF AreaOf
  <2>2. ASSUME NEW u \in KTasks, u # t PROVE AreaOf(u)'
    <3>1. kpc'[u] = kpc[u] /\ karea'[u] = karea[u] /\ AreaOf(u)
      BY <2>2, <1>4, <1>15
    <3>2. CASE kpc[u] \in {"free", "take"}
      <4>1. karea[u] \in ToSet(k_vmlist) /\ karea[u] # a
        BY <3>1, <3>2, <2>2, <1>17 DEF AreaOf, Busy
      <4> QED BY <4>1, <3>1, <3>2, <1>14 DEF AreaOf
    <3>3. CASE kpc[u] = "map"
      <4>1. PICK b \in ToSet(k_vmlist) : b.end = karea[u].end /\ b.start <= karea[u].start
        BY <3>1, <3>3 DEF AreaOf
      <4>2. b # a
        BY <4>1, <3>3, <2>2, <1>17 DEF Busy
      <4> QED BY <4>1, <4>2, <3>1, <3>3, <1>14 DEF AreaOf
    <3>4. CASE kpc[u] \notin {"free", "take", "map"}
      BY <3>1, <3>4 DEF AreaOf
    <3> QED BY <3>2, <3>3, <3>4
  <2> QED BY <2>1, <2>2
<1>23. \A u \in KTasks : \A b, p : ToMap(u, b, p)' <=> ToMap(u, b, p)
  BY <1>2, <1>3, <1>15 DEF ToMap
<1>24. \A u \in KTasks : \A p : ~ToMap(u, a, p)
  BY <1>3, <1>17 DEF ToMap, Busy
<1>25. \A p : ToUnmap(t, p)' <=> p \in KPagesOf(a)
  BY <1>1, <1>2, <1>15 DEF ToUnmap
<1>26. \A u \in KTasks : u # t => \A p : ToUnmap(u, p)' <=> ToUnmap(u, p)
  BY <1>15 DEF ToUnmap
<1>27. \A p : ~ToUnmap(t, p)
  BY <1>3 DEF ToUnmap
<1>28. \A p : Present(p)' <=> Present(p)
  <2>1. ASSUME NEW p, Present(p) PROVE Present(p)'
    BY <2>1, <1>14, <1>23, <1>25, <1>26, <1>27 DEF Present
  <2>2. ASSUME NEW p, Present(p)' PROVE Present(p)
    <3>1. CASE p \in KPagesOf(a)
      BY <3>1, <1>7, <1>24 DEF Present
    <3>2. CASE p \notin KPagesOf(a)
      BY <3>2, <2>2, <1>14, <1>23, <1>25, <1>26 DEF Present
    <3> QED BY <3>1, <3>2
  <2> QED BY <2>1, <2>2
<1>29. PtesExact'
  BY <1>2, <1>4, <1>28 DEF PtesExact
<1>30. Windows'
  <2>1. \A u \in KTasks, p \in Start .. End - 1 : ~(ToUnmap(u, p) /\ p \in KPagesOf(a))
    BY <1>4, <1>7, <1>24 DEF Windows
  <2>2. \A u, v \in KTasks, p \in Start .. End - 1 : ToUnmap(u, p)' /\ ToUnmap(v, p)' => u = v
    BY <2>1, <1>4, <1>25, <1>26 DEF Windows
  <2>3. ASSUME NEW u \in KTasks, NEW p \in Start .. End - 1, NEW b \in ToSet(k_vmlist'),
               ToUnmap(u, p)', p \in KPagesOf(b)
        PROVE  \E v \in KTasks : ToMap(v, b, p)'
    <3>1. b \in ToSet(k_vmlist) /\ b # a
      BY <1>14
    <3>2. u # t
      <4>1. p \in KPagesOf(a) => b = a
        BY <3>1, <2>3, <1>7, KvmList
      <4> QED BY <4>1, <3>1, <2>3, <1>25
    <3>3. ToUnmap(u, p)
      BY <3>2, <2>3, <1>26
    <3> QED BY <3>1, <3>3, <2>3, <1>4, <1>23 DEF Windows
  <2> QED BY <2>2, <2>3 DEF Windows
<1> QED BY <1>5, <1>15, <1>19, <1>20, <1>21, <1>22, <1>29, <1>30 DEF KvmInv

\* One turn of the loop over the pages of an area.
LEMMA PageDone ==
  ASSUME KvmInv, NEW t \in KTasks, NEW where \in {"map", "unmap"}, At(t, where),
         NEW last \in BOOLEAN, last <=> karea[t].start + 1 = karea[t].end,
         karea[t].start < karea[t].end,
         karea' = [karea EXCEPT ![t] = IF last THEN NoArea ELSE Area(@.start + 1, @.end)],
         (last /\ Back(t)) \/ (~last /\ UNCHANGED <<kpc, kirq>>), krunning' = krunning
  PROVE  /\ ~panicked /\ krunning = t /\ t \in kspaces /\ kpc[t] = where
         /\ karea[t].start \in Nat /\ karea[t].end \in Nat
         /\ karea' \in [KTasks -> AreaRec] /\ kirq' \in [KTasks -> BOOLEAN]
         /\ kpc' \in [KTasks -> Steps] /\ kpc'[t] = IF last THEN "out" ELSE where
         /\ \A u \in KTasks : u # t => kpc'[u] = kpc[u] /\ karea'[u] = karea[u] /\ kirq'[u] = kirq[u]
         /\ ~last => /\ karea'[t].start = karea[t].start + 1 /\ karea'[t].end = karea[t].end
                     /\ karea[t].start + 1 < karea[t].end
         /\ IrqOn'
<1>1. KvmType /\ ~panicked /\ krunning = t /\ t \in kspaces /\ kpc[t] = where
  BY DEF KvmInv, At
<1>2. PICK s, e \in Nat : s = karea[t].start /\ e = karea[t].end
  BY <1>1, AreaType DEF KvmType
<1>3. Area(s + 1, e) \in AreaRec /\ Area(s + 1, e).start = s + 1 /\ Area(s + 1, e).end = e
      /\ NoArea \in AreaRec
  BY AreaType DEF NoArea
<1>4. karea' = [karea EXCEPT ![t] = IF last THEN NoArea ELSE Area(s + 1, e)]
  BY <1>1, <1>2 DEF KvmType
<1>5. /\ karea' \in [KTasks -> AreaRec] /\ \A u \in KTasks : u # t => karea'[u] = karea[u]
      /\ ~last => karea'[t] = Area(s + 1, e)
  BY <1>1, <1>3, <1>4 DEF KvmType
<1>6. /\ kirq' \in [KTasks -> BOOLEAN] /\ \A u \in KTasks : u # t => kirq'[u] = kirq[u]
  BY <1>1 DEF KvmType, Back
<1>7. PICK next \in Steps : next = (IF last THEN "out" ELSE where) /\ Goto(t, next)
  <2>1. CASE last
    BY <2>1 DEF Back, Steps
  <2>2. CASE ~last
    <3>1. kpc' = kpc /\ kpc \in [KTasks -> Steps] /\ kpc[t] = where /\ where \in Steps
      BY <2>2, <1>1 DEF KvmType, Steps
    <3>2. kpc' = [kpc EXCEPT ![t] = where]
      BY <3>1
    <3> QED BY <3>1, <3>2, <2>2 DEF Goto
  <2> QED BY <2>1, <2>2
<1>8. /\ kpc' \in [KTasks -> Steps] /\ kpc'[t] = next
      /\ \A u \in KTasks : u # t => kpc'[u] = kpc[u] /\ karea'[u] = karea[u]
      /\ IrqOn'
  BY <1>5, <1>6, <1>7, KvmMoves
<1>9. ~last => s + 1 < e
  BY <1>2
<1> QED BY <1>1, <1>2, <1>3, <1>5, <1>6, <1>7, <1>8, <1>9

LEMMA VunmapPageInv ==
  ASSUME KvmInv, NEW t \in KTasks, vunmap_page(t)
  PROVE  KvmInv'
<1>1. PICK last \in BOOLEAN : last <=> karea[t].start + 1 = karea[t].end
  OBVIOUS
<1>2. /\ At(t, "unmap") /\ ptm_unmap_page(t, karea[t].start)
      /\ karea' = [karea EXCEPT ![t] = IF last THEN NoArea ELSE Area(@.start + 1, @.end)]
      /\ (last /\ Back(t)) \/ (~last /\ UNCHANGED <<kpc, kirq>>)
      /\ UNCHANGED <<kspaces, k_vmlist, k_vmlist_lock, krunning, returned>>
  BY <1>1 DEF vunmap_page
<1>3. KvmType /\ ~panicked /\ kpc[t] = "unmap" /\ t \in kspaces
  BY <1>2 DEF KvmInv, At
<1>4. SameTables /\ LockHeld /\ OneOwner /\ PtesExact /\ Windows /\ \A u \in KTasks : AreaOf(u)
  BY <1>3 DEF KvmInv
<1>5. Start <= karea[t].start /\ karea[t].start < karea[t].end /\ karea[t].end < End
  BY <1>3, <1>4 DEF AreaOf
<1>6. /\ karea[t].start \in Nat /\ karea[t].end \in Nat
      /\ karea' \in [KTasks -> AreaRec] /\ kirq' \in [KTasks -> BOOLEAN]
      /\ kpc' \in [KTasks -> Steps] /\ kpc'[t] = (IF last THEN "out" ELSE "unmap")
      /\ \A u \in KTasks : u # t => kpc'[u] = kpc[u] /\ karea'[u] = karea[u] /\ kirq'[u] = kirq[u]
      /\ ~last => /\ karea'[t].start = karea[t].start + 1 /\ karea'[t].end = karea[t].end
                  /\ karea[t].start + 1 < karea[t].end
      /\ IrqOn'
  BY <1>1, <1>2, <1>5, PageDone
<1>7. Start \in Nat /\ End \in Nat
  BY VmAreaAssumption
<1>8. PICK p, e \in Nat : p = karea[t].start /\ e = karea[t].end
  BY <1>6
<1>9. p \in Start .. End - 1 /\ ToUnmap(t, p)
  BY <1>3, <1>5, <1>7, <1>8 DEF ToUnmap, KPagesOf
<1>10. SharedPte(p) \in ptes
  BY <1>4, <1>9 DEF PtesExact, Present
<1>11. ptes' = ptes \ {SharedPte(p)} /\ ~panicked' /\ page_dir' = page_dir
  <2>1. Pte(t, p) = SharedPte(p)
    BY <1>3, <1>9, Tables
  <2> QED BY <2>1, <1>2, <1>8, <1>10 DEF ptm_unmap_page
<1>12. SameTables' /\ PanicsInWindowOnly'
  BY <1>2, <1>4, <1>11 DEF SameTables, PanicsInWindowOnly
<1>13. LockHeld'
  BY <1>2, <1>4, <1>6 DEF LockHeld
<1>14. OneOwner'
  BY <1>2, <1>3, <1>4, <1>6 DEF OneOwner, Busy
<1>15. KvmType'
  <2>1. panicked' \in BOOLEAN
    BY <1>2 DEF ptm_unmap_page
  <2> QED BY <2>1, <1>2, <1>3, <1>6, <1>11 DEF KvmType
<1>16. \A u \in KTasks : AreaOf(u)'
  <2>1. AreaOf(t)'
    <3>1. CASE last
      BY <3>1, <1>6 DEF AreaOf
    <3>2. CASE ~last
      <4>1. Start <= p + 1 /\ p + 1 < e /\ e < End
        BY <3>2, <1>5, <1>6, <1>7, <1>8
      <4> QED BY <4>1, <3>2, <1>6, <1>8 DEF AreaOf
    <3> QED BY <3>1, <3>2
  <2>2. ASSUME NEW u \in KTasks, u # t PROVE AreaOf(u)'
    BY <2>2, <1>2, <1>4, <1>6 DEF AreaOf
  <2> QED BY <2>1, <2>2
<1>17. \A u \in KTasks : \A b, q : ToMap(u, b, q)' <=> ToMap(u, b, q)
  BY <1>3, <1>6 DEF ToMap
<1>18. \A u \in KTasks : u # t => \A q : ToUnmap(u, q)' <=> ToUnmap(u, q)
  BY <1>6 DEF ToUnmap
<1>19. ASSUME NEW q \in Start .. End - 1 PROVE ToUnmap(t, q)' <=> ToUnmap(t, q) /\ q # p
  <2>1. CASE last
    <3>1. KPagesOf(karea[t]) = p .. e - 1 /\ p + 1 = e
      BY <2>1, <1>1, <1>8 DEF KPagesOf
    <3> QED BY <3>1, <2>1, <1>6, <1>7, <1>8 DEF ToUnmap
  <2>2. CASE ~last
    <3>1. KPagesOf(karea[t]) = p .. e - 1 /\ KPagesOf(karea'[t]) = p + 1 .. e - 1
      BY <2>2, <1>6, <1>8 DEF KPagesOf
    <3>2. q \in KPagesOf(karea'[t]) <=> q \in KPagesOf(karea[t]) /\ q # p
      BY <3>1, <1>7, <1>8
    <3> QED BY <3>2, <2>2, <1>3, <1>6 DEF ToUnmap
  <2> QED BY <2>1, <2>2
<1>20. \A q \in Start .. End - 1 : Present(q)' <=> Present(q) /\ q # p
  <2>1. ASSUME NEW q \in Start .. End - 1, q # p PROVE Present(q)' <=> Present(q)
    <3>1. \A u \in KTasks : ToUnmap(u, q)' <=> ToUnmap(u, q)
      BY <2>1, <1>18, <1>19
    <3> QED BY <3>1, <1>2, <1>17 DEF Present
  <2>2. ~Present(p)'
    <3>1. \A u \in KTasks : ~ToUnmap(u, p)'
      BY <1>4, <1>9, <1>18, <1>19 DEF Windows
    <3>2. \A b \in ToSet(k_vmlist) : p \in KPagesOf(b) => \E u \in KTasks : ToMap(u, b, p)
      BY <1>4, <1>9 DEF Windows
    <3> QED BY <3>1, <3>2, <1>2, <1>17 DEF Present
  <2> QED BY <2>1, <2>2
<1>21. PtesExact'
  BY <1>4, <1>11, <1>20, SharedPteApart DEF PtesExact
<1>22. Windows'
  BY <1>2, <1>4, <1>17, <1>18, <1>19 DEF Windows
<1> QED BY <1>6, <1>12, <1>13, <1>14, <1>15, <1>16, <1>21, <1>22 DEF KvmInv

LEMMA VmapPageInv ==
  ASSUME KvmInv, NEW t \in KTasks, vmap_page(t)
  PROVE  KvmInv'
<1>1. PICK last \in BOOLEAN : last <=> karea[t].start + 1 = karea[t].end
  OBVIOUS
<1>2. PICK whole : whole = CHOOSE a \in ToSet(k_vmlist) : a.end = karea[t].end
  OBVIOUS
<1>3. /\ At(t, "map") /\ ptm_map_page(t, karea[t].start)
      /\ karea' = [karea EXCEPT ![t] = IF last THEN NoArea ELSE Area(@.start + 1, @.end)]
      /\ (last /\ Back(t)) \/ (~last /\ UNCHANGED <<kpc, kirq>>)
      /\ returned' = IF last THEN returned \union {whole} ELSE returned
      /\ UNCHANGED <<kspaces, k_vmlist, k_vmlist_lock, krunning>>
  BY <1>1, <1>2 DEF vmap_page
<1>4. KvmType /\ ~panicked /\ krunning = t /\ kpc[t] = "map" /\ t \in kspaces
  BY <1>3 DEF KvmInv, At
<1>5. /\ SameTables /\ IrqOn /\ LockHeld /\ OneOwner /\ PtesExact /\ Windows
      /\ \A u \in KTasks : AreaOf(u)
  BY <1>4 DEF KvmInv
<1>6. /\ karea[t].start < karea[t].end
      /\ \E b \in ToSet(k_vmlist) : b.end = karea[t].end /\ b.start <= karea[t].start
  BY <1>4, <1>5 DEF AreaOf
<1>7. /\ karea[t].start \in Nat /\ karea[t].end \in Nat
      /\ karea' \in [KTasks -> AreaRec] /\ kirq' \in [KTasks -> BOOLEAN]
      /\ kpc' \in [KTasks -> Steps] /\ kpc'[t] = (IF last THEN "out" ELSE "map")
      /\ \A u \in KTasks : u # t => kpc'[u] = kpc[u] /\ karea'[u] = karea[u] /\ kirq'[u] = kirq[u]
      /\ ~last => /\ karea'[t].start = karea[t].start + 1 /\ karea'[t].end = karea[t].end
                  /\ karea[t].start + 1 < karea[t].end
      /\ IrqOn'
  BY <1>1, <1>3, <1>6, PageDone
<1>8. Start \in Nat /\ End \in Nat
  BY VmAreaAssumption
<1>9. PICK p, e \in Nat : p = karea[t].start /\ e = karea[t].end
  BY <1>7
<1>10. PICK w \in ToSet(k_vmlist) : w.end = e /\ w.start <= p
  BY <1>6, <1>9
<1>11. whole = w
  <2>1. whole \in ToSet(k_vmlist) /\ whole.end = e
    BY <1>2, <1>9, <1>10
  <2> QED BY <2>1, <1>10, KvmList
<1>12. p < e /\ w.start \in Nat /\ w.end < End /\ Start <= w.start
  BY <1>6, <1>9, KvmList
<1>13. p \in KPagesOf(w) /\ p \in Start .. End - 1
  BY <1>8, <1>10, <1>12 DEF KPagesOf
<1>14. /\ ptes' = ptes \union {SharedPte(p)} /\ panicked' = (SharedPte(p) \in ptes)
       /\ page_dir' = page_dir
  <2>1. /\ ptm_alloc_pml4es(t, p) = page_dir[t] /\ Pte(t, p) = SharedPte(p)
    BY <1>4, <1>13, Tables
  <2>2. PICK dir, pte : dir = page_dir[t] /\ pte = <<dir[p \div PerEntry], p>>
    OBVIOUS
  <2>3. pte = SharedPte(p)
    BY <2>1, <2>2 DEF Pte
  <2>4. /\ page_dir' = [page_dir EXCEPT ![t] = dir]
        /\ ptes' = ptes \union {pte} /\ panicked' = (pte \in ptes)
    BY <2>1, <2>2, <1>3, <1>9 DEF ptm_map_page
  <2>5. page_dir' = page_dir
    BY <2>2, <2>4, <1>4 DEF KvmType
  <2> QED BY <2>3, <2>4, <2>5
<1>15. KvmType'
  <2>1. returned' \subseteq ToSet(k_vmlist)
    BY <1>3, <1>4, <1>10, <1>11 DEF KvmType
  <2>2. panicked' \in BOOLEAN
    BY <1>14
  <2> QED BY <2>1, <2>2, <1>3, <1>4, <1>7, <1>14 DEF KvmType
<1>16. ToMap(t, w, p)
  BY <1>4, <1>9, <1>10 DEF ToMap
<1>17. PanicsInWindowOnly'
  <2>1. SUFFICES ASSUME panicked' PROVE PanicsInWindowOnly'
    BY DEF PanicsInWindowOnly
  <2>2. Present(p)
    BY <2>1, <1>5, <1>13, <1>14 DEF PtesExact
  <2>3. \A b \in ToSet(k_vmlist) : p \in KPagesOf(b) => b = w
    BY <1>10, <1>13, KvmList
  <2>4. PICK u \in KTasks : ToUnmap(u, p)
    BY <2>2, <2>3, <1>16 DEF Present
  <2>5. kpc[u] = "unmap" /\ u # t /\ p \in KPagesOf(karea[u])
    BY <2>4, <1>4 DEF ToUnmap
  <2>6. kirq[u]
    BY <2>5, <1>4, <1>5 DEF IrqOn
  <2>7. kpc'[u] = "unmap" /\ kirq'[u] /\ karea'[u] = karea[u]
    BY <2>5, <2>6, <1>7
  <2>8. KPagesOf(w) \cap KPagesOf(karea'[u]) # {}
    BY <2>5, <2>7, <1>13
  <2>9. u \in KTasks \ {krunning'} /\ w \in ToSet(k_vmlist')
    BY <2>5, <1>3, <1>4, <1>10
  <2> QED BY <2>7, <2>8, <2>9 DEF PanicsInWindowOnly
<1>18. CASE ~panicked'
  <2>1. SharedPte(p) \notin ptes /\ ~Present(p)
    BY <1>5, <1>13, <1>14, <1>18 DEF PtesExact
  <2>2. SameTables' /\ LockHeld'
    BY <1>3, <1>4, <1>5, <1>7, <1>14 DEF SameTables, LockHeld
  <2>3. \A u \in KTasks : u # t /\ Busy(u) => karea[u].end # e
    BY <1>4, <1>5, <1>9 DEF OneOwner, Busy
  <2>4. OneOwner'
    <3>1. \A u \in KTasks : u # t => (Busy(u)' <=> Busy(u)) /\ karea'[u] = karea[u]
      BY <1>7 DEF Busy
    <3>2. CASE last
      <4>1. ~Busy(t)' /\ returned' = returned \union {w}
        BY <3>2, <1>3, <1>7, <1>11 DEF Busy
      <4> QED BY <4>1, <3>1, <2>3, <1>5, <1>10 DEF OneOwner
    <3>3. CASE ~last
      <4>1. Busy(t) /\ karea'[t].end = karea[t].end /\ returned' = returned
        BY <3>3, <1>3, <1>4, <1>7 DEF Busy
      <4> QED BY <4>1, <3>1, <1>5 DEF OneOwner
    <3> QED BY <3>2, <3>3
  <2>5. \A u \in KTasks : AreaOf(u)'
    <3>1. AreaOf(t)'
      <4>1. CASE last
        BY <4>1, <1>7 DEF AreaOf
      <4>2. CASE ~last
        <5>1. p + 1 < e /\ w.start <= p + 1
          BY <4>2, <1>7, <1>9, <1>10, <1>12
        <5>2. w \in ToSet(k_vmlist') /\ w.end = karea'[t].end /\ karea'[t].start = p + 1
          BY <4>2, <1>3, <1>7, <1>9, <1>10
        <5>3. karea'[t].start < karea'[t].end /\ w.start <= karea'[t].start
          BY <5>1, <5>2, <1>10
        <5> QED BY <5>2, <5>3, <4>2, <1>7 DEF AreaOf
      <4> QED BY <4>1, <4>2
    <3>2. ASSUME NEW u \in KTasks, u # t PROVE AreaOf(u)'
      BY <3>2, <1>3, <1>5, <1>7 DEF AreaOf
    <3> QED BY <3>1, <3>2
  <2>6. \A u \in KTasks : \A q : ToUnmap(u, q)' <=> ToUnmap(u, q)
    BY <1>4, <1>7 DEF ToUnmap
  <2>7. \A u \in KTasks : u # t => \A b, q : ToMap(u, b, q)' <=> ToMap(u, b, q)
    BY <1>7 DEF ToMap
  <2>8. ASSUME NEW b \in ToSet(k_vmlist), NEW q \in KPagesOf(b)
        PROVE  ToMap(t, b, q)' <=> ToMap(t, b, q) /\ q # p
    <3>1. b.start \in Nat /\ b.end \in Nat
      BY KvmList
    <3>2. q \in Int /\ q < b.end
      BY <3>1 DEF KPagesOf
    <3>3. CASE last
      <4>1. ToMap(t, b, q) => q = p
        BY <3>2, <3>3, <1>1, <1>9 DEF ToMap
      <4> QED BY <4>1, <3>3, <1>7 DEF ToMap
    <3>4. CASE ~last
      <4>1. karea'[t].start = p + 1 /\ karea'[t].end = e /\ kpc'[t] = "map"
        BY <3>4, <1>7, <1>9
      <4>2. ToMap(t, b, q)' <=> e = b.end /\ p + 1 <= q
        BY <4>1 DEF ToMap
      <4>3. ToMap(t, b, q) <=> e = b.end /\ p <= q
        BY <1>4, <1>9 DEF ToMap
      <4> QED BY <4>2, <4>3, <3>2
    <3> QED BY <3>3, <3>4
  <2>9. ASSUME NEW q \in Start .. End - 1, q # p PROVE Present(q)' <=> Present(q)
    <3>1. \A b \in ToSet(k_vmlist) : q \in KPagesOf(b) =>
            \A u \in KTasks : ToMap(u, b, q)' <=> ToMap(u, b, q)
      BY <2>7, <2>8, <2>9
    <3> QED BY <3>1, <2>6, <1>3 DEF Present
  <2>10. Present(p)'
    <3>1. \A u \in KTasks : ~ToMap(u, w, p)'
      <4>1. \A u \in KTasks : u # t => ~ToMap(u, w, p)
        BY <2>3, <1>10 DEF ToMap, Busy
      <4> QED BY <4>1, <2>7, <2>8, <1>10, <1>13
    <3> QED BY <3>1, <1>3, <1>10, <1>13 DEF Present
  <2>11. PtesExact'
    <3>1. \A pte \in ptes' : \E q \in Start .. End - 1 : pte = SharedPte(q)
      BY <1>5, <1>13, <1>14 DEF PtesExact
    <3>2. ASSUME NEW q \in Start .. End - 1 PROVE SharedPte(q) \in ptes' <=> Present(q)'
      <4>1. CASE q = p
        BY <4>1, <2>10, <1>14
      <4>2. CASE q # p
        <5>1. SharedPte(q) \in ptes' <=> SharedPte(q) \in ptes
          BY <4>2, <1>14, SharedPteApart
        <5> QED BY <5>1, <4>2, <2>9, <1>5 DEF PtesExact
      <4> QED BY <4>1, <4>2
    <3> QED BY <3>1, <3>2 DEF PtesExact
  <2>12. Windows'
    <3>1. \A u \in KTasks : ~ToUnmap(u, p)
      BY <2>1 DEF Present
    <3>2. ASSUME NEW u \in KTasks, NEW q \in Start .. End - 1, NEW b \in ToSet(k_vmlist),
                 ToUnmap(u, q), q \in KPagesOf(b)
          PROVE  \E v \in KTasks : ToMap(v, b, q)'
      <4>1. PICK v \in KTasks : ToMap(v, b, q)
        BY <3>2, <1>5 DEF Windows
      <4>2. q # p
        BY <3>1, <3>2
      <4> QED BY <4>1, <4>2, <3>2, <2>7, <2>8
    <3> QED BY <3>2, <2>6, <1>3, <1>5 DEF Windows
  <2> QED BY <2>2, <2>4, <2>5, <2>11, <2>12, <1>7, <1>15, <1>17 DEF KvmInv
<1> QED BY <1>15, <1>17, <1>18 DEF KvmInv

\* KvmInv holds in every state of KernelVm: every address space has the tables
\* made at boot, no two calls are at work on one area, and exactly the pages of
\* the areas on k_vmlist and of what vfree has still to unmap are mapped, but for
\* what vmalloc has still to map.
THEOREM KvmInvariant == KvmSpec => []KvmInv
<1>1. KvmInit => KvmInv
  BY KvmInitInv
<1>2. KvmInv /\ [KvmNext]_kvmVars => KvmInv'
  <2> SUFFICES ASSUME KvmInv, [KvmNext]_kvmVars PROVE KvmInv'
    OBVIOUS
  <2>1. ASSUME NEW t \in KTasks, NEW on \in BOOLEAN, NEW size \in Sizes, kvmalloc(t, size, on)
        PROVE  KvmInv'
    BY <2>1, KvmallocInv
  <2>2. ASSUME NEW t \in KTasks, NEW on \in BOOLEAN, NEW a \in returned, kvfree(t, a, on)
        PROVE  KvmInv'
    BY <2>2, KvfreeInv
  <2>3. ASSUME NEW t \in KTasks, spin_lock(t) PROVE KvmInv'
    BY <2>3, SpinLockInv
  <2>4. ASSUME NEW t \in KTasks, find_area(t) PROVE KvmInv'
    BY <2>4, FindAreaInv
  <2>5. ASSUME NEW t \in KTasks, take_area(t) PROVE KvmInv'
    BY <2>5, TakeAreaInv
  <2>6. ASSUME NEW t \in KTasks, vmap_page(t) PROVE KvmInv'
    BY <2>6, VmapPageInv
  <2>7. ASSUME NEW t \in KTasks, vunmap_page(t) PROVE KvmInv'
    BY <2>7, VunmapPageInv
  <2>8. ASSUME NEW t \in KTasks, NEW n \in KTasks, new_space(t, n) \/ drop_space(t, n) \/ preempt(n)
        PROVE  KvmInv'
    BY <2>8, SpacesInv
  <2>9. CASE UNCHANGED kvmVars
    BY <2>9 DEF kvmVars, KvmInv, KvmType, Inside, Sorted, SameTables, IrqOn, LockHeld, OneOwner,
       Busy,
                PtesExact, Present, ToMap, ToUnmap, Windows, AreaOf, PanicsInWindowOnly
  <2> QED BY <2>1, <2>2, <2>3, <2>4, <2>5, <2>6, <2>7, <2>8, <2>9 DEF KvmNext
<1> QED BY <1>1, <1>2, PTL DEF KvmSpec

\* An area that vmalloc(null, ...) has returned is on the list and mapped in every
\* address space, those made later too, and no page stays mapped behind an area
\* that vfree(null, ...) has given up.
THEOREM KvmKernelAreasSeen == KvmSpec => []KernelAreasSeen
<1>1. KvmInv => KernelAreasSeen
  <2> SUFFICES ASSUME KvmInv, ~panicked PROVE KernelAreasSeen
    BY DEF KernelAreasSeen
  <2>1. KvmType /\ OneOwner /\ PtesExact
    BY DEF KvmInv
  <2>2. ASSUME NEW a \in returned
        PROVE  a \in ToSet(k_vmlist) /\ \A s \in kspaces, p \in KPagesOf(a) : Pte(s, p) \in ptes
    <3>1. a \in ToSet(k_vmlist)
      BY <2>1 DEF KvmType
    <3>2. KPagesOf(a) \subseteq Start .. End - 1
      BY <3>1, KvmList
    <3>3. \A t \in KTasks : \A p : ~ToMap(t, a, p)
      BY <2>1 DEF OneOwner, Busy, ToMap
    <3>4. ASSUME NEW s \in kspaces, NEW p \in KPagesOf(a) PROVE Pte(s, p) \in ptes
      <4>1. p \in Start .. End - 1
        BY <3>2
      <4>2. Pte(s, p) = SharedPte(p)
        BY <4>1, Tables
      <4>3. Present(p)
        BY <3>1, <3>3 DEF Present
      <4> QED BY <4>1, <4>2, <4>3, <2>1 DEF PtesExact
    <3> QED BY <3>1, <3>4
  <2>3. ASSUME NEW pte \in ptes
        PROVE  \/ \E a \in ToSet(k_vmlist) : pte[2] \in KPagesOf(a)
               \/ \E t \in KTasks : kpc[t] = "unmap" /\ pte[2] \in KPagesOf(karea[t])
    <3>1. PICK p \in Start .. End - 1 : pte = SharedPte(p)
      BY <2>1 DEF PtesExact
    <3>2. pte[2] = p
      BY <3>1 DEF SharedPte
    <3>3. Present(p)
      BY <3>1, <2>1 DEF PtesExact
    <3> QED BY <3>2, <3>3 DEF Present, ToUnmap
  <2> QED BY <2>2, <2>3 DEF KernelAreasSeen
<1> QED BY <1>1, KvmInvariant, PTL

\* ptm_map_pages and ptm_unmap_pages panic at a page of the kernel's areas only
\* when a vfree was interrupted between taking its area off the list and
\* unmapping it, and the range was given out again.
THEOREM KvmPanicsInWindowOnly == KvmSpec => []PanicsInWindowOnly
<1>1. KvmInv => PanicsInWindowOnly
  BY DEF KvmInv
<1> QED BY <1>1, KvmInvariant, PTL

=============================================================================
