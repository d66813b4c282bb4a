---------------------------- MODULE BuddyProofs ----------------------------
(***************************************************************************)
(* Proofs about Buddy, for every number of frames, orders and callers.     *)
(***************************************************************************)
EXTENDS BuddyRefines, WellFoundedInduction, TLAPS

(***************************************************************************)
(* The list operations, seen through membership, length and distinctness.  *)
(***************************************************************************)

\* dlist_remove_entry unlinks exactly p (linkedlist.c:5).
LEMMA RemoveEntry ==
  ASSUME NEW S, NEW s \in Seq(S), NEW p, InList(s, p), IsDistinct(s)
  PROVE  /\ dlist_remove_entry(s, p) \in Seq(S)
         /\ Len(dlist_remove_entry(s, p)) = Len(s) - 1
         /\ IsDistinct(dlist_remove_entry(s, p))
         /\ \A x : InList(dlist_remove_entry(s, p), x) <=> InList(s, x) /\ x # p
<1> DEFINE at == CHOOSE i \in 1 .. Len(s) : s[i] = p
           t == [i \in 1 .. Len(s) - 1 |-> IF i < at THEN s[i] ELSE s[i + 1]]
<1>1. at \in 1 .. Len(s) /\ s[at] = p
  BY DEF InList
<1>2. dlist_remove_entry(s, p) = t
  BY DEF dlist_remove_entry
<1> HIDE DEF at
<1>3. Len(s) \in Nat /\ \A i \in 1 .. Len(s) : s[i] \in S
  OBVIOUS
<1>4. t \in Seq(S) /\ Len(t) = Len(s) - 1
  BY <1>1, <1>3
<1>5. \A i \in 1 .. Len(t) : t[i] = IF i < at THEN s[i] ELSE s[i + 1]
  BY <1>4
<1> HIDE DEF t
<1>6. IsDistinct(t)
  BY <1>1, <1>3, <1>4, <1>5 DEF IsDistinct
<1>7. \A x : InList(t, x) => InList(s, x) /\ x # p
  BY <1>1, <1>3, <1>4, <1>5 DEF InList, IsDistinct
<1>8. ASSUME NEW x, InList(s, x), x # p PROVE InList(t, x)
  <2>1. PICK i \in 1 .. Len(s) : s[i] = x
    BY <1>8 DEF InList
  <2>2. CASE i < at
    BY <2>1, <2>2, <1>1, <1>3, <1>4, <1>5 DEF InList
  <2>3. CASE i > at
    <3>1. i - 1 \in 1 .. Len(t) /\ ~(i - 1 < at) /\ (i - 1) + 1 = i
      BY <2>3, <1>1, <1>3, <1>4
    <3>2. t[i - 1] = s[i]
      BY <3>1, <1>5
    <3> QED BY <3>1, <3>2, <2>1 DEF InList
  <2> QED BY <2>1, <2>2, <2>3, <1>1, <1>3, <1>8
<1> QED BY <1>2, <1>4, <1>6, <1>7, <1>8

\* dlist_remove_entry on the lists p is not on.
LEMMA RemoveAbsent ==
  ASSUME NEW s, NEW p, ~InList(s, p)
  PROVE  dlist_remove_entry(s, p) = s
BY DEF dlist_remove_entry

\* dlist_add_next makes p the head of the list (linkedlist.c:24).
LEMMA AddNext ==
  ASSUME NEW S, NEW s \in Seq(S), NEW p \in S, ~InList(s, p), IsDistinct(s)
  PROVE  /\ dlist_add_next(s, p) \in Seq(S)
         /\ Len(dlist_add_next(s, p)) = Len(s) + 1
         /\ IsDistinct(dlist_add_next(s, p))
         /\ \A x : InList(dlist_add_next(s, p), x) <=> InList(s, x) \/ x = p
<1> DEFINE t == <<p>> \o s
<1>1. t \in Seq(S) /\ Len(t) = Len(s) + 1 /\ Len(s) \in Nat
  OBVIOUS
<1>2. \A i \in 1 .. Len(t) : t[i] = IF i = 1 THEN p ELSE s[i - 1]
  OBVIOUS
<1>3. \A i \in 1 .. Len(s) : i + 1 \in 1 .. Len(t) /\ t[i + 1] = s[i]
  BY <1>1, <1>2
<1> HIDE DEF t
<1>4. IsDistinct(t)
  <2> SUFFICES ASSUME NEW i \in 1 .. Len(t), NEW j \in 1 .. Len(t), t[i] = t[j], i < j
               PROVE  FALSE
    BY <1>1 DEF IsDistinct
  <2>1. j # 1 /\ j - 1 \in 1 .. Len(s) /\ t[j] = s[j - 1]
    BY <1>1, <1>2
  <2>2. CASE i = 1
    BY <2>1, <2>2, <1>2 DEF InList
  <2>3. CASE i # 1
    <3>1. i - 1 \in 1 .. Len(s) /\ t[i] = s[i - 1]
      BY <2>3, <1>1, <1>2
    <3>2. i - 1 = j - 1
      BY <3>1, <2>1 DEF IsDistinct
    <3> QED BY <3>2, <1>1
  <2> QED BY <2>2, <2>3
<1>5. ASSUME NEW x PROVE InList(t, x) <=> InList(s, x) \/ x = p
  <2>1. ASSUME InList(t, x) PROVE InList(s, x) \/ x = p
    BY <2>1, <1>1, <1>2 DEF InList
  <2>2. ASSUME InList(s, x) PROVE InList(t, x)
    BY <2>2, <1>3 DEF InList
  <2>3. ASSUME x = p PROVE InList(t, x)
    BY <2>3, <1>1, <1>2 DEF InList
  <2> QED BY <2>1, <2>2, <2>3
<1> QED BY <1>1, <1>4, <1>5 DEF dlist_add_next, t

\* dlist_add_prev makes p the tail of the list (linkedlist.c:16).
LEMMA AddPrev ==
  ASSUME NEW S, NEW s \in Seq(S), NEW p \in S, ~InList(s, p), IsDistinct(s)
  PROVE  /\ dlist_add_prev(s, p) \in Seq(S)
         /\ Len(dlist_add_prev(s, p)) = Len(s) + 1
         /\ IsDistinct(dlist_add_prev(s, p))
         /\ \A x : InList(dlist_add_prev(s, p), x) <=> InList(s, x) \/ x = p
<1> DEFINE t == Append(s, p)
<1>1. t \in Seq(S) /\ Len(t) = Len(s) + 1 /\ Len(s) \in Nat
  OBVIOUS
<1>2. \A i \in 1 .. Len(t) : t[i] = IF i = Len(t) THEN p ELSE s[i]
  OBVIOUS
<1> HIDE DEF t
<1>4. IsDistinct(t)
  BY <1>1, <1>2 DEF IsDistinct, InList
<1>5. ASSUME NEW x PROVE InList(t, x) <=> InList(s, x) \/ x = p
  BY <1>1, <1>2 DEF InList
<1> QED BY <1>1, <1>4, <1>5 DEF dlist_add_prev, t

\* Head and Tail of a list of distinct frames (dlist_remove_next).
LEMMA RemoveNext ==
  ASSUME NEW S, NEW s \in Seq(S), Len(s) # 0, IsDistinct(s)
  PROVE  /\ Head(s) \in S /\ InList(s, Head(s))
         /\ Tail(s) \in Seq(S)
         /\ Len(Tail(s)) = Len(s) - 1
         /\ IsDistinct(Tail(s))
         /\ \A x : InList(Tail(s), x) <=> InList(s, x) /\ x # Head(s)
<1> DEFINE t == Tail(s)
<1>1. t \in Seq(S) /\ Len(t) = Len(s) - 1 /\ Len(s) \in Nat \ {0} /\ Head(s) = s[1]
  OBVIOUS
<1>2. \A i \in 1 .. Len(t) : t[i] = s[i + 1]
  OBVIOUS
<1>3. Head(s) \in S /\ InList(s, Head(s))
  BY <1>1 DEF InList
<1> HIDE DEF t
<1>4. IsDistinct(t)
  BY <1>1, <1>2 DEF IsDistinct
<1>5. ASSUME NEW x PROVE InList(t, x) <=> InList(s, x) /\ x # Head(s)
  <2>1. ASSUME InList(t, x) PROVE InList(s, x) /\ x # Head(s)
    BY <2>1, <1>1, <1>2 DEF InList, IsDistinct
  <2>2. ASSUME InList(s, x), x # Head(s) PROVE InList(t, x)
    <3>1. PICK i \in 1 .. Len(s) : s[i] = x
      BY <2>2 DEF InList
    <3>2. i - 1 \in 1 .. Len(t) /\ (i - 1) + 1 = i
      BY <3>1, <2>2, <1>1
    <3> QED BY <3>1, <3>2, <1>2 DEF InList
  <2> QED BY <2>1, <2>2
<1> QED BY <1>1, <1>3, <1>4, <1>5 DEF t

(***************************************************************************)
(* Arithmetic of block sizes, and what the buddy computation returns.      *)
(***************************************************************************)
LEMMA BlockSizes ==
  /\ \A k \in Orders : Pow2[k] \in Nat /\ Pow2[k] > 0
  /\ \A k \in Orders : k < MM_MAX_ORDER - 1 => k + 1 \in Orders /\ Pow2[k + 1] = 2 * Pow2[k]
  /\ \A k \in Orders : k > 0 => k - 1 \in Orders /\ Pow2[k] = 2 * Pow2[k - 1]
<1>1. MM_MAX_ORDER \in Nat \ {0}
  BY BuddyAssumption
<1>2. \A k \in Orders : Pow2[k] \in Nat /\ Pow2[k] > 0
  BY <1>1, BuddyAssumption DEF Orders
<1>3. \A k \in Orders : k < MM_MAX_ORDER - 1 => k + 1 \in Orders /\ Pow2[k + 1] = 2 * Pow2[k]
  BY <1>1, BuddyAssumption DEF Orders
<1>4. ASSUME NEW k \in Orders, k > 0
      PROVE  k - 1 \in Orders /\ Pow2[k] = 2 * Pow2[k - 1]
  <2>1. k - 1 \in Orders /\ (k - 1) + 1 = k
    BY <1>4, <1>1 DEF Orders
  <2> QED BY <2>1, BuddyAssumption
<1> QED BY <1>2, <1>3, <1>4

(***************************************************************************)
(* A step that changes roles but no block keeps the blocks apart and the   *)
(* frames accounted for.                                                   *)
(***************************************************************************)
LEMMA SameBlocks ==
  ASSUME BlocksDisjoint, PagesConserved, OneRole', boot' = boot,
         Heads' = Heads, \A p \in Heads : OrderOf(p)' = OrderOf(p)
  PROVE  BlocksDisjoint' /\ PagesConserved'
BY DEF BlocksDisjoint, PagesConserved, Covers

LEMMA InitIInv == Init => IInv
<1> SUFFICES ASSUME Init PROVE IInv
  OBVIOUS
<1> USE DEF Init
<1>0. MM_MAX_ORDER \in Nat \ {0} /\ NrPages \in Nat /\ 0 \in Orders
  BY BuddyAssumption DEF Orders
<1>1. TypeOK
  BY <1>0 DEF TypeOK, NotHeld
<1>2. Heads = {}
  BY DEF Heads, InHand
<1>3. BlocksDisjoint
  BY <1>2 DEF BlocksDisjoint, OneRole, InHand
<1>4. PagesConserved
  BY <1>0, <1>2, BuddyAssumption DEF PagesConserved, Pages
<1>5. FlagsMatchLists
  BY DEF FlagsMatchLists, IsDistinct, InList
<1>6. OrderKept
  BY DEF OrderKept
<1> QED BY <1>1, <1>3, <1>4, <1>5, <1>6 DEF IInv

(***************************************************************************)
(* A block has an order, is not empty and lies below the boot cursor.      *)
(***************************************************************************)
LEMMA HeadFacts ==
  ASSUME IInv, NEW p \in Heads
  PROVE  /\ p \in Int /\ p \in Pages /\ OrderOf(p) \in Orders
         /\ Pow2[OrderOf(p)] \in Nat /\ Pow2[OrderOf(p)] > 0
         /\ p + Pow2[OrderOf(p)] <= boot /\ boot <= NrPages /\ boot \in Int
<1>0. boot \in 0 .. NrPages /\ NrPages \in Nat
  BY BuddyAssumption DEF IInv, TypeOK
<1>1. OrderOf(p) \in Orders /\ p \in Int /\ p \in Pages
  BY <1>0 DEF IInv, TypeOK, OrderOf, Heads, InHand, Pages, NotHeld
<1>2. Pow2[OrderOf(p)] \in Nat /\ Pow2[OrderOf(p)] > 0
  BY <1>1, BlockSizes
<1>3. p + Pow2[OrderOf(p)] - 1 \in p .. p + Pow2[OrderOf(p)] - 1
  BY <1>1, <1>2
<1>4. p + Pow2[OrderOf(p)] - 1 \in 0 .. boot - 1
  BY <1>3 DEF IInv, PagesConserved
<1> QED BY <1>0, <1>1, <1>2, <1>4

\* _buddy_init: the block at the cursor lies above every block made so far.
LEMMA BootStep == IInv /\ buddy_init => IInv'
<1> SUFFICES ASSUME IInv, buddy_init PROVE IInv'
  OBVIOUS
<1>0. MM_MAX_ORDER \in Nat \ {0} /\ NrPages \in Nat /\ 0 \in Orders /\ Pow2[0] = 1
      /\ WordOrder \in Orders /\ Usable \subseteq 0 .. NrPages - 1
  BY BuddyAssumption DEF Orders, Pages
<1>1. PICK k \in Orders :
        \/ /\ EnterFree(boot, k) /\ boot' = boot + Pow2[k]
           /\ boot .. boot + Pow2[k] - 1 \subseteq Usable
        \/ boot' = boot + 1 /\ boot \notin Usable /\ UNCHANGED <<op, page, high, low>>
  <2>1. boot \in Int
    BY <1>0 DEF IInv, TypeOK
  <2>2. boot \in Usable => boot .. boot + Pow2[0] - 1 \subseteq Usable
    BY <1>0, <2>1
  <2> QED BY <1>0, <2>2 DEF buddy_init, WordIsFree
<1>2. UNCHANGED <<free_area, nr_free, in_buddy, order, nr_free_pages, pc, request, granted, halted>>
      /\ op = "none" /\ boot # NrPages /\ boot \in 0 .. NrPages
  BY DEF buddy_init, lists, Unlocked, Booted, IInv, TypeOK
<1>3. boot \in Pages /\ boot' \in 0 .. NrPages /\ boot' > boot
  BY <1>0, <1>1, <1>2, BlockSizes DEF Pages
<1>4. TypeOK'
  BY <1>0, <1>1, <1>2, <1>3 DEF IInv, TypeOK, EnterFree
<1>5. ASSUME NEW p \in Heads
      PROVE  p # boot /\ p < boot /\ OrderOf(p)' = OrderOf(p)
  <2>1. p # boot /\ p < boot
    BY HeadFacts
  <2> QED BY <2>1, <1>1, <1>2 DEF OrderOf, InHand, EnterFree
<1>6. boot \notin Heads
  BY <1>5
<1>7. CASE /\ EnterFree(boot, k) /\ boot' = boot + Pow2[k]
           /\ boot .. boot + Pow2[k] - 1 \subseteq Usable
  <2>0. /\ boot \in Nat /\ boot' \in Nat /\ boot' > boot /\ boot' = boot + Pow2[k]
        /\ Pow2[k] \in Nat /\ Pow2[k] > 0
    BY <1>0, <1>2, <1>3, <1>7, BlockSizes
  <2>b. PICK b \in Pages : b = boot
    BY <1>3
  <2>1. Heads' = Heads \union {b} /\ OrderOf(b)' = k
    <3>1. op' = "merge" /\ page' = b /\ high' = k
      BY <1>7, <2>b DEF EnterFree
    <3>2. \A p \in Pages : p \in Heads' <=> p \in Heads \/ p = b
      BY <3>1, <1>2 DEF Heads, InHand
    <3>3. Heads' \subseteq Pages /\ Heads \subseteq Pages
      BY DEF Heads
    <3>4. OrderOf(b)' = k
      BY <3>1 DEF OrderOf, InHand
    <3> QED BY <3>2, <3>3, <3>4, <1>3
  <2>2. OneRole'
    BY <1>2, <1>3, <1>6, <1>7 DEF OneRole, InHand, EnterFree, Heads, IInv, BlocksDisjoint
  <2>3. BlocksDisjoint'
    <3> SUFFICES ASSUME NEW p \in Heads', NEW q \in Heads', p < q
                 PROVE  p + Pow2[OrderOf(p)'] <= q
      BY <2>2 DEF BlocksDisjoint
    <3>1. CASE p \in Heads /\ q \in Heads
      BY <3>1, <1>5 DEF IInv, BlocksDisjoint
    <3>2. CASE p \in Heads /\ q = b
      BY <3>2, <2>b, <1>5, HeadFacts
    <3>3. CASE p = b
      <4>1. q \notin Heads
        BY <3>3, <2>0, <2>b, HeadFacts
      <4> QED BY <3>3, <4>1, <2>0, <2>1, <2>b
    <3> QED BY <3>1, <3>2, <3>3, <2>1
  <2>4. PagesConserved'
    <3>1. ASSUME NEW x \in Usable, x < boot' PROVE \E p \in Heads' : Covers(p, x)'
      <4>1. CASE x < boot
        BY <4>1, <2>1, <1>5 DEF IInv, PagesConserved, Covers
      <4>2. CASE ~(x < boot)
        <5>1. x \in Int
          BY <1>0
        <5>2. b \in Heads' /\ Covers(b, x)'
          BY <4>2, <3>1, <5>1, <2>0, <2>1, <2>b DEF Covers
        <5> QED BY <5>2
      <4> QED BY <4>1, <4>2
    <3>2. ASSUME NEW p \in Heads'
          PROVE  p .. p + Pow2[OrderOf(p)'] - 1 \subseteq Usable \cap 0 .. boot' - 1
      <4>1. CASE p \in Heads
        <5>1. p .. p + Pow2[OrderOf(p)] - 1 \subseteq Usable \cap 0 .. boot - 1
          BY <4>1 DEF IInv, PagesConserved
        <5>2. 0 .. boot - 1 \subseteq 0 .. boot' - 1
          BY <2>0
        <5> QED BY <4>1, <5>1, <5>2, <1>5
      <4>2. CASE p = b
        <5>1. p .. p + Pow2[OrderOf(p)'] - 1 = boot .. boot + Pow2[k] - 1
          BY <4>2, <2>1, <2>b
        <5>2. boot .. boot + Pow2[k] - 1 \subseteq 0 .. boot' - 1
          BY <2>0
        <5> QED BY <5>1, <5>2, <1>7
      <4> QED BY <4>1, <4>2, <2>1
    <3> QED BY <3>1, <3>2 DEF PagesConserved
  <2> QED BY <1>2, <1>4, <2>3, <2>4 DEF IInv, FlagsMatchLists, OrderKept
<1>8. CASE boot' = boot + 1 /\ boot \notin Usable /\ UNCHANGED <<op, page, high, low>>
  <2>1. Heads' = Heads
    BY <1>2, <1>8 DEF Heads, InHand
  <2>2. BlocksDisjoint'
    BY <1>2, <1>5, <1>8, <2>1 DEF IInv, BlocksDisjoint, OneRole, InHand
  <2>3. \A x \in Usable : x < boot' => x < boot
    BY <1>0, <1>2, <1>8
  <2>4. 0 .. boot - 1 \subseteq 0 .. boot' - 1
    BY <1>0, <1>2, <1>8
  <2>5. PagesConserved'
    BY <1>5, <2>1, <2>3, <2>4 DEF IInv, PagesConserved, Covers
  <2> QED BY <1>2, <1>4, <2>2, <2>5 DEF IInv, FlagsMatchLists, OrderKept
<1> QED BY <1>1, <1>7, <1>8

\* The check before the lock touches no block.
LEMMA CheckStep ==
  ASSUME IInv, NEW c \in Callers, NEW n \in Requests, pmm_alloc_pages(c, n)
  PROVE  IInv'
<1>1. UNCHANGED <<lists, boot, locals, granted>>
  BY DEF pmm_alloc_pages
<1>2. TypeOK'
  BY BuddyAssumption DEF pmm_alloc_pages, IInv, TypeOK, lists, locals
<1>3. Heads' = Heads /\ \A p \in Heads : OrderOf(p)' = OrderOf(p)
  BY <1>1 DEF Heads, InHand, OrderOf, lists, locals
<1>4. OneRole'
  BY <1>1 DEF OneRole, InHand, lists, locals, IInv, BlocksDisjoint
<1>5. BlocksDisjoint' /\ PagesConserved'
  BY <1>1, <1>3, <1>4, SameBlocks DEF IInv
<1> QED BY <1>1, <1>2, <1>5 DEF IInv, FlagsMatchLists, OrderKept, lists

\* _buddy_alloc_pages takes a free block in hand.
LEMMA TakeStep ==
  ASSUME IInv, NEW c \in Callers, buddy_alloc_pages(c)
  PROVE  IInv'
<1>1. CASE UNCHANGED <<lists, locals, pc>> /\ halted' = TRUE
  <2>1. UNCHANGED <<boot, request, granted>>
    BY DEF buddy_alloc_pages
  <2>2. TypeOK'
    BY <1>1, <2>1 DEF IInv, TypeOK, lists, locals
  <2>3. Heads' = Heads /\ \A p \in Heads : OrderOf(p)' = OrderOf(p)
    BY <1>1, <2>1 DEF Heads, InHand, OrderOf, lists, locals
  <2>4. OneRole'
    BY <1>1, <2>1 DEF OneRole, InHand, lists, locals, IInv, BlocksDisjoint
  <2>5. BlocksDisjoint' /\ PagesConserved'
    BY <2>1, <2>3, <2>4, SameBlocks DEF IInv
  <2> QED BY <1>1, <2>1, <2>2, <2>5 DEF IInv, FlagsMatchLists, OrderKept, lists
<1>2. ASSUME NEW k \in Orders, NEW j \in Orders, Serves(k, j), buddy_get_from_free_area(j),
             op' = "split", high' = j, low' = k, pc' = [pc EXCEPT ![c] = "locked"],
             halted' = halted
      PROVE  IInv'
  <2> DEFINE h == Head(free_area[j])
  <2>0. op = "none" /\ UNCHANGED <<boot, request, granted, order>> /\ nr_free[j] # 0 /\ k <= j
    BY <1>2 DEF buddy_alloc_pages, Unlocked, Serves, buddy_get_from_free_area
  <2>1. free_area[j] \in Seq(Pages) /\ Len(free_area[j]) # 0 /\ IsDistinct(free_area[j])
    BY <2>0 DEF IInv, TypeOK, FlagsMatchLists
  <2>2. /\ h \in Pages /\ InList(free_area[j], h)
        /\ Tail(free_area[j]) \in Seq(Pages)
        /\ Len(Tail(free_area[j])) = Len(free_area[j]) - 1
        /\ IsDistinct(Tail(free_area[j]))
        /\ \A x : InList(Tail(free_area[j]), x) <=> InList(free_area[j], x) /\ x # h
    BY <2>1, RemoveNext
  <2> HIDE DEF h
  <2>3. in_buddy[h] /\ order[h] = j
    BY <2>2 DEF IInv, FlagsMatchLists
  <2>4. /\ page' = h /\ free_area' = [free_area EXCEPT ![j] = Tail(@)]
        /\ in_buddy' = [in_buddy EXCEPT ![h] = FALSE]
        /\ nr_free' = [nr_free EXCEPT ![j] = @ - 1]
        /\ nr_free_pages' = nr_free_pages - Pow2[j]
    BY <1>2 DEF buddy_get_from_free_area, h
  <2>5. nr_free[j] - 1 \in Nat /\ Pow2[j] \in Nat
    BY <2>0, BlockSizes DEF IInv, TypeOK
  <2>6. TypeOK'
    <3>1. free_area' \in [Orders -> Seq(Pages)] /\ nr_free' \in [Orders -> Nat]
      BY <2>2, <2>4, <2>5 DEF IInv, TypeOK
    <3>2. in_buddy' \in [Pages -> BOOLEAN]
      BY <2>2, <2>4 DEF IInv, TypeOK
    <3>4. nr_free_pages' \in Int
      BY <2>4, <2>5 DEF IInv, TypeOK
    <3>3. pc' \in [Callers -> {"idle", "checked", "locked"}]
      BY <1>2 DEF IInv, TypeOK
    <3> QED BY <1>2, <2>0, <2>2, <2>4, <3>1, <3>2, <3>3, <3>4 DEF IInv, TypeOK
  <2>7. granted[h] = NotHeld
    BY <2>2, <2>3 DEF IInv, BlocksDisjoint, OneRole
  <2>8. Heads' = Heads /\ \A p \in Heads : OrderOf(p)' = OrderOf(p)
    BY <1>2, <2>0, <2>2, <2>3, <2>4, <2>7 DEF IInv, TypeOK, Heads, InHand, OrderOf
  <2>9. OneRole'
    BY <1>2, <2>0, <2>2, <2>4, <2>7 DEF IInv, TypeOK, BlocksDisjoint, OneRole, InHand
  <2>10. BlocksDisjoint' /\ PagesConserved'
    BY <2>0, <2>8, <2>9, SameBlocks DEF IInv
  <2>11. FlagsMatchLists'
    <3>1. ASSUME NEW i \in Orders
          PROVE  nr_free'[i] = Len(free_area'[i]) /\ IsDistinct(free_area'[i])
      BY <2>2, <2>4 DEF IInv, TypeOK, FlagsMatchLists
    <3>2. ASSUME NEW i \in Orders, NEW p \in Pages
          PROVE  InList(free_area'[i], p) <=> in_buddy'[p] /\ order'[p] = i
      <4>1. CASE i = j
        <5>1. free_area'[i] = Tail(free_area[j])
          BY <4>1, <2>4 DEF IInv, TypeOK
        <5>2. InList(free_area'[i], p) <=> InList(free_area[j], p) /\ p # h
          BY <5>1, <2>2
        <5> QED BY <4>1, <5>2, <2>0, <2>2, <2>4 DEF IInv, TypeOK, FlagsMatchLists
      <4>2. CASE i # j
        <5>1. free_area'[i] = free_area[i]
          BY <4>2, <2>4 DEF IInv, TypeOK
        <5> QED BY <4>2, <5>1, <2>0, <2>2, <2>3, <2>4 DEF IInv, TypeOK, FlagsMatchLists
      <4> QED BY <4>1, <4>2
    <3> QED BY <3>1, <3>2 DEF FlagsMatchLists
  <2> QED BY <2>0, <2>6, <2>10, <2>11 DEF IInv, OrderKept
<1> QED BY <1>1, <1>2 DEF buddy_alloc_pages

\* One turn of _buddy_split cuts the block in hand in two.
LEMMA SplitStep == IInv /\ buddy_split => IInv'
<1> SUFFICES ASSUME IInv, buddy_split PROVE IInv'
  OBVIOUS
<1>a. high \in Nat /\ low \in Nat /\ high \in Orders /\ low \in Orders /\ page \in Pages
      /\ op = "split" /\ high > low
  BY BuddyAssumption DEF IInv, TypeOK, Orders, buddy_split
<1>b. PICK k \in Orders : k = high - 1
  BY <1>a, BlockSizes
<1>1. /\ k \in Int /\ low <= k /\ Pow2[high] = 2 * Pow2[k]
      /\ Pow2[k] \in Nat /\ Pow2[k] > 0
  BY <1>a, <1>b, BlockSizes
<1>c. PICK g \in Pages : g = page
  BY <1>a
<1>2. g \in Heads /\ OrderOf(g) = high /\ g \in Int
      /\ g + Pow2[high] <= boot /\ boot <= NrPages /\ boot \in Int /\ g >= 0
  <2>1. g \in Heads /\ OrderOf(g) = high
    BY <1>a, <1>c DEF Heads, InHand, OrderOf
  <2> QED BY <2>1, HeadFacts DEF Pages
<1>d. g + Pow2[k] \in Pages
  BY <1>1, <1>2, BuddyAssumption DEF Pages
<1>e. PICK u \in Pages : u = g + Pow2[k]
  BY <1>d
<1>0. /\ op = "split" /\ op' = op /\ page = g /\ page' = g /\ high' = k /\ boot' = boot
      /\ UNCHANGED <<low, pc, request, granted, halted>>
  BY <1>b, <1>c DEF buddy_split
<1>3. u \in Int /\ u \in Pages /\ u > g /\ u < g + Pow2[high] /\ u # g
  BY <1>1, <1>2, <1>e
<1>4. u \notin Heads
  <2>1. ASSUME u \in Heads PROVE g + Pow2[OrderOf(g)] <= u
    BY <2>1, <1>2, <1>3 DEF IInv, BlocksDisjoint
  <2> QED BY <2>1, <1>1, <1>2, <1>3
<1>5. ~in_buddy[u] /\ granted[u] = NotHeld
  BY <1>3, <1>4 DEF Heads
<1>6. /\ free_area' = [free_area EXCEPT ![k] = dlist_add_prev(@, u)]
      /\ in_buddy' = [in_buddy EXCEPT ![u] = TRUE]
      /\ order' = [order EXCEPT ![u] = k]
      /\ nr_free' = [nr_free EXCEPT ![k] = @ + 1]
      /\ nr_free_pages' = nr_free_pages + Pow2[k]
  BY <1>b, <1>c, <1>e DEF buddy_split, buddy_add_to_free_list, UpperHalf
<1>7. /\ dlist_add_prev(free_area[k], u) \in Seq(Pages)
      /\ Len(dlist_add_prev(free_area[k], u)) = Len(free_area[k]) + 1
      /\ IsDistinct(dlist_add_prev(free_area[k], u))
      /\ \A x : InList(dlist_add_prev(free_area[k], u), x) <=> InList(free_area[k], x) \/ x = u
  <2>1. free_area[k] \in Seq(Pages) /\ IsDistinct(free_area[k])
    BY <1>1 DEF IInv, TypeOK, FlagsMatchLists
  <2>2. ~InList(free_area[k], u)
    BY <1>1, <1>3, <1>5 DEF IInv, FlagsMatchLists
  <2> QED BY <1>3, <2>1, <2>2, AddPrev
<1>8. TypeOK'
  <2>1. free_area' \in [Orders -> Seq(Pages)]
    BY <1>6, <1>7 DEF IInv, TypeOK
  <2>5. nr_free' \in [Orders -> Nat]
    BY <1>6 DEF IInv, TypeOK
  <2>2. in_buddy' \in [Pages -> BOOLEAN]
    BY <1>3, <1>6 DEF IInv, TypeOK
  <2>3. order' \in [Pages -> Orders]
    BY <1>3, <1>6 DEF IInv, TypeOK
  <2>4. nr_free_pages' \in Int
    BY <1>1, <1>6 DEF IInv, TypeOK
  <2> QED BY <1>0, <1>1, <2>1, <2>2, <2>3, <2>4, <2>5 DEF IInv, TypeOK
<1>9. Heads' = Heads \union {u} /\ u \in Heads' /\ g \in Heads'
  <2>1. \A p \in Pages : p \in Heads' <=> p \in Heads \/ p = u
    BY <1>0, <1>3, <1>6 DEF Heads, InHand, IInv, TypeOK
  <2> QED BY <1>2, <1>3, <2>1 DEF Heads
<1>10. OrderOf(u)' = k /\ OrderOf(g)' = k
  BY <1>0, <1>3, <1>5, <1>6 DEF OrderOf, InHand, IInv, TypeOK
<1>11. ASSUME NEW p \in Heads, p # g PROVE OrderOf(p)' = OrderOf(p)
  BY <1>0, <1>4, <1>6, <1>11 DEF OrderOf, InHand, IInv, TypeOK, Heads
<1>12. BlocksDisjoint'
  <2>1. OneRole'
    BY <1>0, <1>3, <1>5, <1>6 DEF OneRole, InHand, IInv, TypeOK, BlocksDisjoint
  <2>2. ASSUME NEW p \in Heads', NEW q \in Heads', p < q
        PROVE  p + Pow2[OrderOf(p)'] <= q
    <3>1. CASE p = g /\ q \in Heads
      <4>1. g + Pow2[high] <= q /\ q \in Int
        BY <2>2, <3>1, <1>2, HeadFacts DEF IInv, BlocksDisjoint
      <4> QED BY <4>1, <3>1, <1>1, <1>2, <1>10
    <3>2. CASE p = g /\ q = u
      BY <3>2, <1>1, <1>2, <1>10, <1>e
    <3>3. CASE p = u /\ q \in Heads
      <4>1. q \in Int /\ q > g
        BY <2>2, <3>3, <1>2, <1>3, HeadFacts
      <4>2. g + Pow2[high] <= q
        BY <3>3, <4>1, <1>2 DEF IInv, BlocksDisjoint
      <4> QED BY <4>1, <4>2, <3>3, <1>1, <1>2, <1>10, <1>e
    <3>4. CASE p \in Heads /\ p # g /\ q \in Heads
      BY <2>2, <3>4, <1>11 DEF IInv, BlocksDisjoint
    <3>5. CASE p \in Heads /\ p # g /\ q = u
      <4>1. p \in Int /\ Pow2[OrderOf(p)] \in Nat
        BY <3>5, HeadFacts
      <4>2. p < g
        <5>1. ~(g < p)
          <6>1. ASSUME g < p PROVE g + Pow2[high] <= p
            BY <6>1, <3>5, <1>2 DEF IInv, BlocksDisjoint
          <6> QED BY <6>1, <2>2, <3>5, <4>1, <1>1, <1>2, <1>3
        <5> QED BY <5>1, <3>5, <4>1, <1>2
      <4>3. p + Pow2[OrderOf(p)] <= g
        BY <3>5, <4>2, <1>2 DEF IInv, BlocksDisjoint
      <4> QED BY <4>1, <4>3, <3>5, <1>2, <1>3, <1>11
    <3> QED BY <2>2, <3>1, <3>2, <3>3, <3>4, <3>5, <1>9, <1>3
  <2> QED BY <2>1, <2>2 DEF BlocksDisjoint
<1>13. PagesConserved'
  <2>1. ASSUME NEW x \in Usable, x < boot' PROVE \E p \in Heads' : Covers(p, x)'
    <3>1. x \in Int
      BY BuddyAssumption DEF Pages
    <3>2. PICK p \in Heads : Covers(p, x)
      BY <2>1, <1>0 DEF IInv, PagesConserved
    <3>3. CASE p # g
      BY <3>2, <3>3, <1>9, <1>11 DEF Covers
    <3>4. CASE p = g /\ x < u
      <4>1. Covers(g, x)'
        BY <3>1, <3>2, <3>4, <1>1, <1>2, <1>10, <1>e DEF Covers
      <4> QED BY <4>1, <1>9
    <3>5. CASE p = g /\ ~(x < u)
      <4>1. Covers(u, x)'
        BY <3>1, <3>2, <3>5, <1>1, <1>2, <1>3, <1>10, <1>e DEF Covers
      <4> QED BY <4>1, <1>9
    <3> QED BY <3>3, <3>4, <3>5
  <2>2. ASSUME NEW p \in Heads'
        PROVE  p .. p + Pow2[OrderOf(p)'] - 1 \subseteq Usable \cap 0 .. boot' - 1
    <3>1. g .. g + Pow2[high] - 1 \subseteq Usable \cap 0 .. boot - 1
      BY <1>2 DEF IInv, PagesConserved
    <3>2. CASE p \in Heads /\ p # g
      BY <3>2, <1>0, <1>11 DEF IInv, PagesConserved
    <3>3. CASE p = g
      <4>1. g .. g + Pow2[k] - 1 \subseteq g .. g + Pow2[high] - 1
        BY <1>1, <1>2
      <4> QED BY <4>1, <3>1, <3>3, <1>0, <1>10
    <3>4. CASE p = u
      <4>1. u .. u + Pow2[k] - 1 \subseteq g .. g + Pow2[high] - 1
        BY <1>1, <1>2, <1>3, <1>e
      <4> QED BY <4>1, <3>1, <3>4, <1>0, <1>10
    <3> QED BY <3>2, <3>3, <3>4, <1>9
  <2> QED BY <2>1, <2>2 DEF PagesConserved
<1>14. FlagsMatchLists'
  <2>1. ASSUME NEW i \in Orders
        PROVE  nr_free'[i] = Len(free_area'[i]) /\ IsDistinct(free_area'[i])
    BY <1>6, <1>7 DEF IInv, TypeOK, FlagsMatchLists
  <2>2. ASSUME NEW i \in Orders, NEW p \in Pages
        PROVE  InList(free_area'[i], p) <=> in_buddy'[p] /\ order'[p] = i
    <3>1. CASE i = k
      <4>1. free_area'[i] = dlist_add_prev(free_area[k], u)
        BY <3>1, <1>6 DEF IInv, TypeOK
      <4> QED BY <3>1, <4>1, <1>3, <1>6, <1>7 DEF IInv, TypeOK, FlagsMatchLists
    <3>2. CASE i # k
      <4>1. free_area'[i] = free_area[i]
        BY <3>2, <1>6 DEF IInv, TypeOK
      <4> QED BY <3>2, <4>1, <1>3, <1>5, <1>6 DEF IInv, TypeOK, FlagsMatchLists
    <3> QED BY <3>1, <3>2
  <2> QED BY <2>1, <2>2 DEF FlagsMatchLists
<1>15. OrderKept'
  BY <1>0, <1>3, <1>5, <1>6 DEF IInv, TypeOK, OrderKept
<1> QED BY <1>8, <1>12, <1>13, <1>14, <1>15 DEF IInv

\* The end of _buddy_alloc_pages hands out the block in hand.
LEMMA GrantStep ==
  ASSUME IInv, NEW c \in Callers, alloc_return(c)
  PROVE  IInv'
<1>1. /\ op = "split" /\ high = low /\ page \in Pages /\ low \in Orders
      /\ order' = [order EXCEPT ![page] = low]
      /\ granted' = [granted EXCEPT ![page] = low]
      /\ op' = "none" /\ high' = 0 /\ low' = 0
      /\ UNCHANGED <<free_area, nr_free, in_buddy, nr_free_pages, boot, halted>>
  BY DEF alloc_return, buddy_set_page_order, Unlock, IInv, TypeOK
<1>2. low # NotHeld /\ 0 \in Orders
  BY <1>1, BuddyAssumption DEF NotHeld, Orders
<1>3. TypeOK'
  <2>1. pc' \in [Callers -> {"idle", "checked", "locked"}] /\ request' \in [Callers -> Nat]
    BY DEF alloc_return, IInv, TypeOK
  <2> QED BY <1>1, <1>2, <2>1 DEF IInv, TypeOK
<1>4. ~in_buddy[page] /\ granted[page] = NotHeld
  BY <1>1 DEF IInv, BlocksDisjoint, OneRole, InHand
<1>5. Heads' = Heads
  BY <1>1, <1>2 DEF Heads, InHand, IInv, TypeOK
<1>6. ASSUME NEW p \in Heads PROVE OrderOf(p)' = OrderOf(p)
  BY <1>1, <1>2 DEF OrderOf, InHand, IInv, TypeOK, Heads
<1>7. OneRole'
  BY <1>1, <1>2, <1>4 DEF OneRole, InHand, IInv, TypeOK, BlocksDisjoint
<1>8. BlocksDisjoint' /\ PagesConserved'
  BY <1>1, <1>5, <1>6, <1>7, SameBlocks DEF IInv
<1>9. FlagsMatchLists'
  <2>1. \A p \in Pages : in_buddy[p] => order'[p] = order[p]
    BY <1>1, <1>4 DEF IInv, TypeOK
  <2> QED BY <1>1, <2>1 DEF IInv, FlagsMatchLists
<1>10. OrderKept'
  BY <1>1 DEF IInv, TypeOK, OrderKept
<1> QED BY <1>3, <1>8, <1>9, <1>10 DEF IInv

\* pmm_free_pages takes a handed-out block back in hand, at the order granted.
LEMMA FreeStep ==
  ASSUME IInv, NEW c \in Callers, NEW f \in Pages, pmm_free_pages(c, f)
  PROVE  IInv'
<1>1. /\ op = "none" /\ granted[f] # NotHeld
      /\ op' = "merge" /\ page' = f /\ high' = order[f] /\ low' = 0
      /\ granted' = [granted EXCEPT ![f] = NotHeld]
      /\ UNCHANGED <<free_area, nr_free, in_buddy, order, nr_free_pages, boot, pc, request, halted>>
  BY DEF pmm_free_pages, EnterFree, Unlocked, lists
<1>2. order[f] = granted[f] /\ ~in_buddy[f] /\ 0 \in Orders
  BY <1>1, BuddyAssumption DEF IInv, OrderKept, BlocksDisjoint, OneRole, Orders
<1>3. TypeOK'
  BY <1>1, <1>2 DEF IInv, TypeOK
<1>4. Heads' = Heads
  BY <1>1 DEF Heads, InHand, IInv, TypeOK
<1>5. ASSUME NEW p \in Heads PROVE OrderOf(p)' = OrderOf(p)
  BY <1>1, <1>2 DEF OrderOf, InHand, IInv, TypeOK, Heads
<1>6. OneRole'
  BY <1>1, <1>2 DEF OneRole, InHand, IInv, TypeOK, BlocksDisjoint
<1>7. BlocksDisjoint' /\ PagesConserved'
  BY <1>1, <1>4, <1>5, <1>6, SameBlocks DEF IInv
<1>8. FlagsMatchLists' /\ OrderKept'
  BY <1>1 DEF IInv, TypeOK, FlagsMatchLists, OrderKept
<1> QED BY <1>3, <1>7, <1>8 DEF IInv

\* The end of _buddy_free_pages lists the block in hand.
LEMMA ListStep == IInv /\ free_return => IInv'
<1> SUFFICES ASSUME IInv, free_return PROVE IInv'
  OBVIOUS
<1>1. PICK g \in Pages, k \in Orders : g = page /\ k = high
  BY DEF free_return, IInv, TypeOK
<1>2. /\ op = "merge" /\ page = g /\ high = k
      /\ in_buddy' = [in_buddy EXCEPT ![g] = TRUE]
      /\ order' = [order EXCEPT ![g] = k]
      /\ free_area' = [free_area EXCEPT ![k] = dlist_add_next(@, g)]
      /\ nr_free' = [nr_free EXCEPT ![k] = @ + 1]
      /\ nr_free_pages' = nr_free_pages + Pow2[k]
      /\ op' = "none" /\ high' = 0 /\ low' = 0
      /\ UNCHANGED <<boot, pc, request, granted, halted>>
  BY <1>1 DEF free_return, Unlock
<1>3. ~in_buddy[g] /\ granted[g] = NotHeld
  BY <1>2 DEF IInv, BlocksDisjoint, OneRole, InHand
<1>4. /\ dlist_add_next(free_area[k], g) \in Seq(Pages)
      /\ Len(dlist_add_next(free_area[k], g)) = Len(free_area[k]) + 1
      /\ IsDistinct(dlist_add_next(free_area[k], g))
      /\ \A x : InList(dlist_add_next(free_area[k], g), x) <=> InList(free_area[k], x) \/ x = g
  <2>1. free_area[k] \in Seq(Pages) /\ IsDistinct(free_area[k])
    BY DEF IInv, TypeOK, FlagsMatchLists
  <2>2. ~InList(free_area[k], g)
    BY <1>3 DEF IInv, FlagsMatchLists
  <2> QED BY <2>1, <2>2, AddNext
<1>5. TypeOK'
  <2>1. free_area' \in [Orders -> Seq(Pages)]
    BY <1>2, <1>4 DEF IInv, TypeOK
  <2>2. in_buddy' \in [Pages -> BOOLEAN]
    BY <1>2 DEF IInv, TypeOK
  <2>3. order' \in [Pages -> Orders] /\ nr_free' \in [Orders -> Nat]
    BY <1>2 DEF IInv, TypeOK
  <2>4. nr_free_pages' \in Int /\ 0 \in Orders
    BY <1>2, BlockSizes, BuddyAssumption DEF IInv, TypeOK, Orders
  <2> QED BY <1>2, <2>1, <2>2, <2>3, <2>4 DEF IInv, TypeOK
<1>6. Heads' = Heads
  BY <1>2 DEF Heads, InHand, IInv, TypeOK
<1>7. ASSUME NEW p \in Heads PROVE OrderOf(p)' = OrderOf(p)
  BY <1>2, <1>3 DEF OrderOf, InHand, IInv, TypeOK, Heads
<1>8. OneRole'
  BY <1>2, <1>3 DEF OneRole, InHand, IInv, TypeOK, BlocksDisjoint
<1>9. BlocksDisjoint' /\ PagesConserved'
  BY <1>2, <1>6, <1>7, <1>8, SameBlocks DEF IInv
<1>10. FlagsMatchLists'
  <2>1. ASSUME NEW i \in Orders
        PROVE  nr_free'[i] = Len(free_area'[i]) /\ IsDistinct(free_area'[i])
    BY <1>2, <1>4 DEF IInv, TypeOK, FlagsMatchLists
  <2>2. ASSUME NEW i \in Orders, NEW p \in Pages
        PROVE  InList(free_area'[i], p) <=> in_buddy'[p] /\ order'[p] = i
    <3>1. CASE i = k
      <4>1. free_area'[i] = dlist_add_next(free_area[k], g)
        BY <3>1, <1>2 DEF IInv, TypeOK
      <4> QED BY <3>1, <4>1, <1>2, <1>4 DEF IInv, TypeOK, FlagsMatchLists
    <3>2. CASE i # k
      <4>1. free_area'[i] = free_area[i]
        BY <3>2, <1>2 DEF IInv, TypeOK
      <4> QED BY <3>2, <4>1, <1>2, <1>3 DEF IInv, TypeOK, FlagsMatchLists
    <3> QED BY <3>1, <3>2
  <2> QED BY <2>1, <2>2 DEF FlagsMatchLists
<1>11. OrderKept'
  BY <1>2, <1>3 DEF IInv, TypeOK, OrderKept
<1> QED BY <1>5, <1>9, <1>10, <1>11 DEF IInv

\* One turn of the coalescing loop absorbs the free block next to the one in
\* hand.  Flipping one bit of a frame number adds or subtracts the block size.
LEMMA MergeStep == IInv /\ merge => IInv'
<1> SUFFICES ASSUME IInv, merge PROVE IInv'
  OBVIOUS
<1>1. PICK g \in Pages, k \in Orders : g = page /\ k = high
  BY DEF merge, IInv, TypeOK
<1>2. PICK b \in Pages : b = buddy_idx(g, k) /\ in_buddy[b] /\ order[b] = k
  BY <1>1 DEF merge, CanMerge, buddy_page_is_buddy
<1>3. PICK m \in Pages : m = combined_idx(g, b)
  BY DEF combined_idx
<1>4. /\ k + 1 \in Orders /\ Pow2[k + 1] = 2 * Pow2[k] /\ Pow2[k] \in Nat /\ Pow2[k] > 0
      /\ g \in Int /\ b \in Int
  <2>1. k < MM_MAX_ORDER - 1
    BY <1>1 DEF merge, CanMerge
  <2> QED BY <2>1, BlockSizes, BuddyAssumption DEF Pages
<1>5. /\ (m = g /\ b = g + Pow2[k]) \/ (m = b /\ g = b + Pow2[k])
      /\ m \in Int /\ b # g
  BY <1>2, <1>3, <1>4 DEF buddy_idx, combined_idx
<1>6. /\ op = "merge" /\ op' = op /\ page = g /\ high = k /\ page' = m /\ high' = k + 1
      /\ free_area' = [i \in Orders |-> dlist_remove_entry(free_area[i], b)]
      /\ in_buddy' = [in_buddy EXCEPT ![b] = FALSE]
      /\ order' = [order EXCEPT ![b] = 0]
      /\ nr_free' = [nr_free EXCEPT ![k] = @ - 1]
      /\ nr_free_pages' = nr_free_pages - Pow2[k]
      /\ UNCHANGED <<boot, low, pc, request, granted, halted>>
  BY <1>1, <1>2, <1>3 DEF merge, TakeFromTotal
<1>7. ~in_buddy[g] /\ granted[g] = NotHeld /\ granted[b] = NotHeld
  BY <1>2, <1>6 DEF IInv, BlocksDisjoint, OneRole, InHand
<1>8. g \in Heads /\ b \in Heads /\ OrderOf(g) = k /\ OrderOf(b) = k
  BY <1>2, <1>5, <1>6, <1>7 DEF Heads, InHand, OrderOf
<1>9. InList(free_area[k], b) /\ free_area[k] \in Seq(Pages) /\ IsDistinct(free_area[k])
  BY <1>2 DEF IInv, TypeOK, FlagsMatchLists
<1>10. /\ free_area'[k] \in Seq(Pages)
       /\ Len(free_area'[k]) = Len(free_area[k]) - 1
       /\ IsDistinct(free_area'[k])
       /\ \A x : InList(free_area'[k], x) <=> InList(free_area[k], x) /\ x # b
  <2>1. free_area'[k] = dlist_remove_entry(free_area[k], b)
    BY <1>6
  <2> QED BY <2>1, <1>9, RemoveEntry
<1>11. ASSUME NEW i \in Orders, i # k PROVE free_area'[i] = free_area[i]
  <2>1. ~InList(free_area[i], b)
    BY <1>2, <1>11 DEF IInv, FlagsMatchLists
  <2> QED BY <2>1, <1>6, RemoveAbsent
<1>12. nr_free[k] - 1 \in Nat
  <2>1. nr_free[k] = Len(free_area[k]) /\ Len(free_area[k]) \in Nat
    BY <1>9 DEF IInv, FlagsMatchLists
  <2>2. Len(free_area[k]) # 0
    BY <1>9 DEF InList
  <2> QED BY <2>1, <2>2
<1>13. TypeOK'
  <2>1. free_area' \in [Orders -> Seq(Pages)]
    <3>1. ASSUME NEW i \in Orders PROVE free_area'[i] \in Seq(Pages)
      BY <1>10, <1>11 DEF IInv, TypeOK
    <3>2. free_area' = [i \in Orders |-> free_area'[i]]
      BY <1>6
    <3> QED BY <3>1, <3>2
  <2>2. in_buddy' \in [Pages -> BOOLEAN]
    BY <1>6 DEF IInv, TypeOK
  <2>3. order' \in [Pages -> Orders]
    <3>1. 0 \in Orders
      BY BuddyAssumption DEF Orders
    <3> QED BY <3>1, <1>6 DEF IInv, TypeOK
  <2>4. nr_free' \in [Orders -> Nat]
    BY <1>6, <1>12 DEF IInv, TypeOK
  <2>5. nr_free_pages' \in Int
    <3>1. nr_free_pages \in Int
      BY DEF IInv, TypeOK
    <3> QED BY <3>1, <1>4, <1>6
  <2> QED BY <1>4, <1>6, <2>1, <2>2, <2>3, <2>4, <2>5 DEF IInv, TypeOK
<1>14. Heads' = (Heads \ {g, b}) \union {m} /\ m \in Heads'
  <2>1. \A p \in Pages : p \in Heads' <=> (p \in Heads /\ p # g /\ p # b) \/ p = m
    BY <1>3, <1>5, <1>6, <1>7 DEF Heads, InHand, IInv, TypeOK
  <2> QED BY <1>3, <2>1 DEF Heads
<1>15. OrderOf(m)' = k + 1
  BY <1>6 DEF OrderOf, InHand
<1>16. ASSUME NEW p \in Heads, p # g, p # b PROVE OrderOf(p)' = OrderOf(p) /\ p # m
  BY <1>5, <1>6, <1>16 DEF OrderOf, InHand, IInv, TypeOK, Heads
<1>17. ASSUME NEW p \in Heads, p # g, p # b
       PROVE  /\ p < m => p + Pow2[OrderOf(p)] <= m
              /\ m < p => m + 2 * Pow2[k] <= p
  <2>1. p \in Int /\ Pow2[OrderOf(p)] \in Nat
    BY HeadFacts
  <2>2. /\ p < g => p + Pow2[OrderOf(p)] <= g
        /\ g < p => g + Pow2[k] <= p
        /\ p < b => p + Pow2[OrderOf(p)] <= b
        /\ b < p => b + Pow2[k] <= p
    BY <1>8 DEF IInv, BlocksDisjoint
  <2> QED BY <1>4, <1>5, <1>17, <2>1, <2>2
<1>18. BlocksDisjoint'
  <2>1. OneRole'
    BY <1>5, <1>6, <1>7 DEF OneRole, InHand, IInv, TypeOK, BlocksDisjoint
  <2>2. ASSUME NEW p \in Heads', NEW q \in Heads', p < q
        PROVE  p + Pow2[OrderOf(p)'] <= q
    <3>1. CASE p = m
      BY <2>2, <3>1, <1>4, <1>5, <1>14, <1>15, <1>17
    <3>2. CASE q = m
      BY <2>2, <3>2, <1>5, <1>14, <1>16, <1>17
    <3>3. CASE p # m /\ q # m
      BY <2>2, <3>3, <1>14, <1>16 DEF IInv, BlocksDisjoint
    <3> QED BY <3>1, <3>2, <3>3
  <2> QED BY <2>1, <2>2 DEF BlocksDisjoint
<1>19. PagesConserved'
  <2>1. ASSUME NEW x \in Usable, x < boot' PROVE \E p \in Heads' : Covers(p, x)'
    <3>1. x \in Int
      BY BuddyAssumption DEF Pages
    <3>2. PICK p \in Heads : Covers(p, x)
      BY <2>1, <1>6 DEF IInv, PagesConserved
    <3>3. CASE p # g /\ p # b
      BY <3>2, <3>3, <1>14, <1>16 DEF Covers
    <3>4. CASE p = g \/ p = b
      <4>1. Covers(m, x)'
        BY <3>1, <3>2, <3>4, <1>4, <1>5, <1>8, <1>15 DEF Covers
      <4> QED BY <4>1, <1>14
    <3> QED BY <3>3, <3>4
  <2>2. ASSUME NEW p \in Heads'
        PROVE  p .. p + Pow2[OrderOf(p)'] - 1 \subseteq Usable \cap 0 .. boot' - 1
    <3>1. CASE p # m
      BY <3>1, <1>6, <1>14, <1>16 DEF IInv, PagesConserved
    <3>2. CASE p = m
      <4>1. /\ g .. g + Pow2[k] - 1 \subseteq Usable \cap 0 .. boot - 1
            /\ b .. b + Pow2[k] - 1 \subseteq Usable \cap 0 .. boot - 1
        BY <1>8 DEF IInv, PagesConserved
      <4>2. \A x \in m .. m + 2 * Pow2[k] - 1 :
              x \in g .. g + Pow2[k] - 1 \/ x \in b .. b + Pow2[k] - 1
        BY <1>4, <1>5
      <4>3. m .. m + Pow2[OrderOf(m)'] - 1 = m .. m + 2 * Pow2[k] - 1
        BY <1>4, <1>15
      <4> QED BY <3>2, <4>1, <4>2, <4>3, <1>6
    <3> QED BY <3>1, <3>2
  <2> QED BY <2>1, <2>2 DEF PagesConserved
<1>20. FlagsMatchLists'
  <2>1. ASSUME NEW i \in Orders
        PROVE  nr_free'[i] = Len(free_area'[i]) /\ IsDistinct(free_area'[i])
    BY <1>6, <1>10, <1>11 DEF IInv, TypeOK, FlagsMatchLists
  <2>2. ASSUME NEW i \in Orders, NEW p \in Pages
        PROVE  InList(free_area'[i], p) <=> in_buddy'[p] /\ order'[p] = i
    <3>1. CASE p = b
      <4>1. ~in_buddy'[p]
        BY <3>1, <1>6 DEF IInv, TypeOK
      <4>2. ~InList(free_area'[i], p)
        BY <3>1, <1>2, <1>10, <1>11 DEF IInv, FlagsMatchLists
      <4> QED BY <4>1, <4>2
    <3>2. CASE p # b
      <4>1. in_buddy'[p] = in_buddy[p] /\ order'[p] = order[p]
        BY <3>2, <1>6 DEF IInv, TypeOK
      <4>2. InList(free_area'[i], p) <=> InList(free_area[i], p)
        BY <3>2, <1>10, <1>11
      <4> QED BY <4>1, <4>2 DEF IInv, FlagsMatchLists
    <3> QED BY <3>1, <3>2
  <2> QED BY <2>1, <2>2 DEF FlagsMatchLists
<1>21. OrderKept'
  BY <1>6, <1>7 DEF IInv, TypeOK, OrderKept
<1> QED BY <1>13, <1>18, <1>19, <1>20, <1>21 DEF IInv

\* Every step of the allocator keeps the invariant.
LEMMA NextIInv == IInv /\ [Next]_vars => IInv'
<1> SUFFICES ASSUME IInv, [Next]_vars PROVE IInv'
  OBVIOUS
<1>1. CASE UNCHANGED vars
  BY <1>1 DEF vars, IInv, TypeOK, BlocksDisjoint, OneRole, PagesConserved, FlagsMatchLists,
     OrderKept, Heads, OrderOf, InHand, Covers
<1>2. CASE Next
  BY <1>2, BootStep, CheckStep, TakeStep, GrantStep, FreeStep, SplitStep, MergeStep, ListStep
     DEF Next
<1> QED BY <1>1, <1>2

\* The allocator's structural invariant, for every memory size, every set of
\* usable frames, every number of orders and every number of callers.
THEOREM BuddyInvariant == Spec => []IInv
<1> QED BY InitIInv, NextIInv, PTL DEF Spec

\* The fields of page_t and free_area_t and the loops' locals stay in range.
THEOREM BuddyTypes == Spec => []TypeOK
<1>1. IInv => TypeOK
  BY DEF IInv
<1> QED BY <1>1, BuddyInvariant, PTL

\* _buddy_alloc_pages never hands out a frame twice, nor one on a free list.
THEOREM BuddyDisjoint == Spec => []BlocksDisjoint
<1>1. IInv => BlocksDisjoint
  BY DEF IInv
<1> QED BY <1>1, BuddyInvariant, PTL

\* Splitting, merging and handing out never lose a frame or invent one.
THEOREM BuddyConserves == Spec => []PagesConserved
<1>1. IInv => PagesConserved
  BY DEF IInv
<1> QED BY <1>1, BuddyInvariant, PTL

\* page->in_buddy, page->order, the lists and nr_free always agree.
THEOREM BuddyFlags == Spec => []FlagsMatchLists
<1>1. IInv => FlagsMatchLists
  BY DEF IInv
<1> QED BY <1>1, BuddyInvariant, PTL

\* pmm_free_pages always frees the order that was granted.
THEOREM BuddyOrderKept == Spec => []OrderKept
<1>1. IInv => OrderKept
  BY DEF IInv
<1> QED BY <1>1, BuddyInvariant, PTL

(***************************************************************************)
(* What coalescing rests on: blocks are aligned to their size, so that the *)
(* bit flipped by _buddy_free_pages leads to the other half; and no two    *)
(* free blocks are ever each other's buddies, even while one is split.     *)
(***************************************************************************)
Aligned ==
  /\ \A p \in Pages : in_buddy[p] => p % Pow2[order[p]] = 0
  /\ \A p \in Pages : granted[p] # NotHeld => p % Pow2[granted[p]] = 0
  /\ op # "none" => page % Pow2[high] = 0

NoFreeBuddies ==
  \A k \in 0 .. MM_MAX_ORDER - 2, p \in Pages :
    ~(buddy_page_is_buddy(p, k) /\ buddy_page_is_buddy(buddy_idx(p, k), k))

\* Who holds pfn_lock asked for a block of the order at hand.
Asked ==
  /\ \A c \in Callers : pc[c] # "idle" => request[c] \in Requests
  /\ \A c \in Callers : pc[c] = "locked" => op = "split" /\ SmallestOrder(request[c], low)
  /\ \A c, d \in Callers : pc[c] = "locked" /\ pc[d] = "locked" => c = d

CIInv == Aligned /\ NoFreeBuddies /\ Asked

Flip(p, d) == IF (p \div d) % 2 = 0 THEN p + d ELSE p - d

\* A frame aligned to d, and the one with the bit of weight d flipped: both
\* are aligned, the lower one to 2 * d, and flipping again leads back.
LEMMA FlipBit ==
  ASSUME NEW d \in Nat \ {0}, NEW p \in Nat, p % d = 0, NEW b, b = Flip(p, d)
  PROVE  /\ b \in Nat /\ b # p /\ b % d = 0
         /\ combined_idx(p, b) % (2 * d) = 0
         /\ Flip(b, d) = p
<1> USE DEF Flip, combined_idx
<1>1. PICK n \in Nat : p = n * d /\ p \div d = n
  BY ONLY d \in Nat \ {0}, p \in Nat, p % d = 0
<1>2. CASE n % 2 = 0
  <2>1. PICK m \in Nat : n = 2 * m
    BY <1>2
  <2>2. b = (2 * m + 1) * d /\ b = p + d /\ p = m * (2 * d)
    BY <1>1, <1>2, <2>1
  <2>3. b \in Nat /\ b \div d = 2 * m + 1 /\ b % d = 0
    BY <2>2
  <2>4. (2 * m + 1) % 2 # 0
    OBVIOUS
  <2>5. p % (2 * d) = 0
    BY <2>2
  <2> QED BY <2>2, <2>3, <2>4, <2>5
<1>3. CASE n % 2 # 0
  <2>1. PICK m \in Nat : n = 2 * m + 1
    BY <1>3
  <2>2. b = (2 * m) * d /\ b = p - d /\ p = (2 * m + 1) * d /\ b = m * (2 * d)
    BY <1>1, <1>3, <2>1
  <2>3. b \in Nat /\ b \div d = 2 * m /\ b % d = 0 /\ p = b + d
    BY <2>2
  <2>4. (2 * m) % 2 = 0
    OBVIOUS
  <2>5. b % (2 * d) = 0
    <3>1. \A e \in Nat \ {0} : (m * e) % e = 0
      OBVIOUS
    <3>2. 2 * d \in Nat \ {0}
      OBVIOUS
    <3> QED BY <2>2, <3>1, <3>2
  <2> QED BY <2>2, <2>3, <2>4, <2>5
<1> QED BY <1>2, <1>3

\* page_idx ^ (1 << k), on an aligned block.
LEMMA BuddyOf ==
  ASSUME NEW k \in Orders, NEW p \in Pages, p % Pow2[k] = 0, NEW b, b = buddy_idx(p, k)
  PROVE  /\ b \in Nat /\ b # p /\ b % Pow2[k] = 0 /\ buddy_idx(b, k) = p
         /\ combined_idx(p, b) % (2 * Pow2[k]) = 0
<1>1. PICK d \in Nat \ {0} : d = Pow2[k]
  BY BlockSizes
<1>2. p \in Nat
  BY BuddyAssumption DEF Pages
<1>3. b = Flip(p, d) /\ buddy_idx(b, k) = Flip(b, d)
  BY <1>1, Zenon DEF buddy_idx, Flip
<1>4. p % d = 0
  BY <1>1
<1>5. /\ b \in Nat /\ b # p /\ b % d = 0 /\ Flip(b, d) = p
      /\ combined_idx(p, b) % (2 * d) = 0
  BY <1>2, <1>3, <1>4, FlipBit
<1> QED BY <1>1, <1>3, <1>5, Zenon

\* Both halves of an aligned block are aligned, and the upper one's bit is set.
LEMMA Halves ==
  ASSUME NEW d \in Nat \ {0}, NEW p \in Nat, p % (2 * d) = 0
  PROVE  p % d = 0 /\ (p + d) % d = 0 /\ ((p + d) \div d) % 2 # 0 /\ (p \div d) % 2 = 0
<1>1. PICK n \in Nat : p = n * (2 * d)
  OBVIOUS
<1>2. p = (2 * n) * d /\ p + d = (2 * n + 1) * d
  BY <1>1
<1>3. p % d = 0 /\ (p + d) % d = 0 /\ (p + d) \div d = 2 * n + 1 /\ p \div d = 2 * n
  BY <1>2
<1>4. (2 * n + 1) % 2 # 0 /\ (2 * n) % 2 = 0
  OBVIOUS
<1> QED BY <1>3, <1>4

\* A step that adds no free block makes no free buddies.
LEMMA NoneAdded ==
  ASSUME NoFreeBuddies,
         \A p \in Pages, k \in Orders : buddy_page_is_buddy(p, k)' => buddy_page_is_buddy(p, k)
  PROVE  NoFreeBuddies'
<1>1. \A k \in 0 .. MM_MAX_ORDER - 2 : k \in Orders
  BY BuddyAssumption DEF Orders
<1>2. \A k, b : buddy_page_is_buddy(b, k)' => b \in Pages
  BY DEF buddy_page_is_buddy
<1>3. ASSUME NEW k \in 0 .. MM_MAX_ORDER - 2, NEW p \in Pages,
             buddy_page_is_buddy(p, k)', buddy_page_is_buddy(buddy_idx(p, k), k)'
      PROVE  FALSE
  <2>1. PICK b : b = buddy_idx(p, k)
    OBVIOUS
  <2>2. b \in Pages /\ buddy_page_is_buddy(b, k)' /\ k \in Orders
    BY <1>1, <1>2, <1>3, <2>1
  <2> QED BY <1>3, <2>1, <2>2 DEF NoFreeBuddies
<1> QED BY <1>3 DEF NoFreeBuddies

\* A step that adds the free block of order k at u makes no free buddies if
\* the buddy of u is not free.
LEMMA OneAdded ==
  ASSUME NoFreeBuddies, Aligned', NEW u \in Pages, NEW k \in Orders,
         u % Pow2[k] = 0, ~buddy_page_is_buddy(buddy_idx(u, k), k) \/ k = MM_MAX_ORDER - 1,
         \A p \in Pages, i \in Orders :
           buddy_page_is_buddy(p, i)' => buddy_page_is_buddy(p, i) \/ (p = u /\ i = k)
  PROVE  NoFreeBuddies'
<1>1. \A i \in 0 .. MM_MAX_ORDER - 2 : i \in Orders /\ i # MM_MAX_ORDER - 1
  BY BuddyAssumption DEF Orders
<1>2. \A i, b : buddy_page_is_buddy(b, i)' => b \in Pages
  BY DEF buddy_page_is_buddy
<1>3. ASSUME NEW i \in 0 .. MM_MAX_ORDER - 2, NEW p \in Pages,
             buddy_page_is_buddy(p, i)', buddy_page_is_buddy(buddy_idx(p, i), i)'
      PROVE  FALSE
  <2>1. PICK b : b = buddy_idx(p, i)
    OBVIOUS
  <2>2. b \in Pages /\ buddy_page_is_buddy(b, i)' /\ i \in Orders
    BY <1>1, <1>2, <1>3, <2>1
  <2>3. Pow2[i] \in Nat \ {0} /\ p \in Nat
    BY <2>2, BlockSizes, BuddyAssumption DEF Pages
  <2>4. p % Pow2[i] = 0
    BY <1>3 DEF Aligned, buddy_page_is_buddy
  <2>5. b # p /\ buddy_idx(b, i) = p
    BY <2>1, <2>2, <2>4, BuddyOf
  <2>6. CASE p = u /\ i = k
    BY <1>1, <1>3, <2>1, <2>2, <2>5, <2>6 
  <2>7. CASE b = u /\ i = k
    BY <1>1, <1>3, <2>1, <2>2, <2>5, <2>7
  <2>8. CASE ~(p = u /\ i = k) /\ ~(b = u /\ i = k)
    BY <1>3, <2>1, <2>2, <2>8 DEF NoFreeBuddies
  <2> QED BY <2>6, <2>7, <2>8
<1> QED BY <1>3 DEF NoFreeBuddies

LEMMA InitCIInv == Init => CIInv
<1> SUFFICES ASSUME Init PROVE CIInv
  OBVIOUS
<1>1. Aligned
  BY DEF Init, Aligned
<1>2. NoFreeBuddies
  BY DEF Init, NoFreeBuddies, buddy_page_is_buddy
<1>3. Asked
  BY DEF Init, Asked
<1> QED BY <1>1, <1>2, <1>3 DEF CIInv

\* _buddy_init frees a bitmap word at a frame number that is a multiple of its
\* size, and single frames elsewhere.
LEMMA BootCoalesce == IInv /\ CIInv /\ buddy_init => CIInv'
<1> SUFFICES ASSUME IInv, CIInv, buddy_init PROVE CIInv'
  OBVIOUS
<1>1. UNCHANGED <<in_buddy, order, granted, pc, request>> /\ op = "none"
  BY DEF buddy_init, lists, Unlocked
<1>2. op' = "none" \/ page' % Pow2[high'] = 0
  <2>1. boot % Pow2[0] = 0
    <3>1. \A n \in Nat : n % 1 = 0
      OBVIOUS
    <3>2. boot \in Nat /\ Pow2[0] = 1
      BY BuddyAssumption DEF IInv, TypeOK
    <3> QED BY <3>1, <3>2, Zenon
  <2> QED BY <1>1, <2>1 DEF buddy_init, EnterFree, WordIsFree
<1>3. Aligned'
  BY <1>1, <1>2 DEF CIInv, Aligned
<1>4. NoFreeBuddies'
  BY <1>1, NoneAdded DEF CIInv, buddy_page_is_buddy
<1>5. Asked'
  BY <1>1 DEF CIInv, Asked
<1> QED BY <1>3, <1>4, <1>5 DEF CIInv

\* The check before the lock records what is asked for.
LEMMA CheckCoalesce ==
  ASSUME IInv, CIInv, NEW c \in Callers, NEW n \in Requests, pmm_alloc_pages(c, n)
  PROVE  CIInv'
<1>1. UNCHANGED <<in_buddy, order, granted, op, page, high, low>> /\ op = "none"
  BY DEF pmm_alloc_pages, lists, locals, Unlocked
<1>2. Aligned'
  BY <1>1 DEF CIInv, Aligned
<1>3. NoFreeBuddies'
  BY <1>1, NoneAdded DEF CIInv, buddy_page_is_buddy
<1>4. Asked'
  BY <1>1 DEF CIInv, Asked, IInv, TypeOK, pmm_alloc_pages
<1> QED BY <1>2, <1>3, <1>4 DEF CIInv

\* The block taken from the list of order j is aligned to its order.
LEMMA TakeCoalesce ==
  ASSUME IInv, CIInv, NEW c \in Callers, buddy_alloc_pages(c)
  PROVE  CIInv'
<1>1. UNCHANGED <<boot, request, granted>> /\ op = "none" /\ pc[c] = "checked"
  BY DEF buddy_alloc_pages, Unlocked
<1>2. CASE UNCHANGED <<lists, locals, pc>>
  <2>1. Aligned'
    BY <1>1, <1>2 DEF CIInv, Aligned, lists, locals
  <2>2. NoFreeBuddies'
    BY <1>1, <1>2, NoneAdded DEF CIInv, buddy_page_is_buddy, lists
  <2>3. Asked'
    BY <1>1, <1>2 DEF CIInv, Asked, locals
  <2> QED BY <2>1, <2>2, <2>3 DEF CIInv
<1>3. ASSUME NEW k \in Orders, NEW j \in Orders, SmallestOrder(request[c], k), Serves(k, j),
             buddy_get_from_free_area(j), op' = "split", high' = j, low' = k,
             pc' = [pc EXCEPT ![c] = "locked"]
      PROVE  CIInv'
  <2>1. free_area[j] \in Seq(Pages) /\ Len(free_area[j]) # 0 /\ IsDistinct(free_area[j])
    BY <1>3 DEF IInv, TypeOK, FlagsMatchLists, Serves
  <2>2. Head(free_area[j]) \in Pages /\ InList(free_area[j], Head(free_area[j]))
    BY <2>1, RemoveNext
  <2>3. PICK h \in Pages : h = Head(free_area[j]) /\ in_buddy[h] /\ order[h] = j
    BY <2>2 DEF IInv, FlagsMatchLists
  <2>4. page' = h /\ in_buddy' = [in_buddy EXCEPT ![h] = FALSE] /\ order' = order
    BY <1>3, <2>3 DEF buddy_get_from_free_area
  <2>5. \A p \in Pages : in_buddy'[p] => in_buddy[p]
    BY <2>4 DEF IInv, TypeOK
  <2>6. Aligned'
    BY <1>1, <1>3, <2>3, <2>4, <2>5 DEF CIInv, Aligned
  <2>7. NoFreeBuddies'
    BY <2>4, <2>5, NoneAdded DEF CIInv, buddy_page_is_buddy
  <2>8. Asked'
    BY <1>1, <1>3 DEF CIInv, Asked, IInv, TypeOK
  <2> QED BY <2>6, <2>7, <2>8 DEF CIInv
<1> QED BY <1>2, <1>3 DEF buddy_alloc_pages

\* A split puts the upper half on a list while its buddy stays in hand.
LEMMA SplitCoalesce == IInv /\ CIInv /\ IInv' /\ buddy_split => CIInv'
<1> SUFFICES ASSUME IInv, CIInv, IInv', buddy_split PROVE CIInv'
  OBVIOUS
<1>1. PICK g \in Pages, k \in Orders :
        g = page /\ k = high - 1 /\ high \in Orders /\ Pow2[high] = 2 * Pow2[k]
  <2>1. page \in Pages /\ high \in Orders /\ high > 0 /\ high - 1 \in Orders
    BY BuddyAssumption DEF buddy_split, IInv, TypeOK, Orders
  <2> QED BY <2>1, BlockSizes
<1>2. PICK d \in Nat \ {0} : d = Pow2[k]
  BY BlockSizes
<1>3. PICK u : u = g + d
  OBVIOUS
<1>4. /\ op = "split" /\ op' = "split" /\ page' = g /\ high' = k /\ low' = low
      /\ in_buddy' = [in_buddy EXCEPT ![u] = TRUE] /\ order' = [order EXCEPT ![u] = k]
      /\ UNCHANGED <<pc, request, granted>>
  BY <1>1, <1>2, <1>3 DEF buddy_split, buddy_add_to_free_list, UpperHalf
<1>5. g \in Nat /\ g % (2 * d) = 0
  BY <1>1, <1>2, <1>4, BuddyAssumption DEF CIInv, Aligned, Pages
<1>6. g % d = 0 /\ u % d = 0 /\ (u \div d) % 2 # 0
  BY <1>3, <1>5, Halves
<1>7. buddy_idx(u, k) = g
  <2>1. buddy_idx(u, k) = u - d
    BY <1>2, <1>6, Zenon DEF buddy_idx
  <2> QED BY <2>1, <1>3, <1>5
<1>8. u \in Pages
  <2>1. high \in Orders /\ g \in Heads /\ OrderOf(g) = high
    BY <1>1, <1>4 DEF Heads, InHand, OrderOf
  <2>2. g + 2 * d <= NrPages
    <3>1. g + Pow2[high] <= boot /\ boot <= NrPages /\ boot \in Int
      BY <2>1, HeadFacts
    <3> QED BY <3>1, <1>1, <1>2, <1>5, BuddyAssumption
  <2> QED BY <2>2, <1>3, <1>5, BuddyAssumption DEF Pages
<1>9. ~buddy_page_is_buddy(g, k)
  BY <1>1, <1>4 DEF IInv, BlocksDisjoint, OneRole, InHand, buddy_page_is_buddy
<1>10. \A p \in Pages : p # u => in_buddy'[p] = in_buddy[p] /\ order'[p] = order[p]
  BY <1>4 DEF IInv, TypeOK
<1>11. order'[u] = k
  BY <1>4, <1>8 DEF IInv, TypeOK
<1>12. Aligned'
  <2>1. \A p \in Pages : in_buddy'[p] => p % Pow2[order'[p]] = 0
    <3> SUFFICES ASSUME NEW p \in Pages, in_buddy'[p] PROVE p % Pow2[order'[p]] = 0
      OBVIOUS
    <3>1. CASE p = u
      BY <3>1, <1>2, <1>6, <1>11
    <3>2. CASE p # u
      BY <3>2, <1>10 DEF CIInv, Aligned
    <3> QED BY <3>1, <3>2
  <2> QED BY <2>1, <1>2, <1>4, <1>6 DEF CIInv, Aligned
<1>13. NoFreeBuddies'
  <2>1. \A p \in Pages, i \in Orders :
          buddy_page_is_buddy(p, i)' => buddy_page_is_buddy(p, i) \/ (p = u /\ i = k)
    BY <1>10, <1>11 DEF buddy_page_is_buddy
  <2>2. u % Pow2[k] = 0 /\ ~buddy_page_is_buddy(buddy_idx(u, k), k)
    BY <1>2, <1>6, <1>7, <1>9
  <2> QED BY <2>1, <2>2, <1>8, <1>12, OneAdded DEF CIInv
<1>14. Asked'
  BY <1>4 DEF CIInv, Asked
<1> QED BY <1>12, <1>13, <1>14 DEF CIInv

\* The block handed out keeps its place and its order.
LEMMA GrantCoalesce ==
  ASSUME IInv, CIInv, NEW c \in Callers, alloc_return(c)
  PROVE  CIInv'
<1>1. PICK g \in Pages, k \in Orders : g = page /\ k = low /\ high = k /\ op = "split"
  BY DEF alloc_return, IInv, TypeOK
<1>2. /\ in_buddy' = in_buddy /\ order' = [order EXCEPT ![g] = k]
      /\ granted' = [granted EXCEPT ![g] = k] /\ op' = "none"
      /\ pc[c] = "locked" /\ pc' = [pc EXCEPT ![c] = "idle"]
      /\ request' = [request EXCEPT ![c] = 0]
  BY <1>1 DEF alloc_return, buddy_set_page_order, Unlock
<1>3. g % Pow2[k] = 0
  BY <1>1 DEF CIInv, Aligned
<1>4. ~in_buddy[g]
  BY <1>1 DEF IInv, BlocksDisjoint, OneRole, InHand
<1>5. \A p \in Pages : in_buddy'[p] => in_buddy[p] /\ order'[p] = order[p]
  BY <1>2, <1>4 DEF IInv, TypeOK
<1>6. \A p \in Pages : granted'[p] = IF p = g THEN k ELSE granted[p]
  BY <1>2 DEF IInv, TypeOK
<1>7. Aligned'
  BY <1>2, <1>3, <1>5, <1>6 DEF CIInv, Aligned
<1>8. NoFreeBuddies'
  BY <1>5, NoneAdded DEF CIInv, buddy_page_is_buddy
<1>9. Asked'
  BY <1>2 DEF CIInv, Asked, IInv, TypeOK
<1> QED BY <1>7, <1>8, <1>9 DEF CIInv

\* The block given back is aligned to the order found in page->order.
LEMMA FreeCoalesce ==
  ASSUME IInv, CIInv, NEW c \in Callers, NEW p \in Pages, pmm_free_pages(c, p)
  PROVE  CIInv'
<1>1. /\ UNCHANGED <<in_buddy, order, pc, request>> /\ op = "none" /\ op' = "merge"
      /\ page' = p /\ high' = order[p] /\ granted[p] # NotHeld
      /\ granted' = [granted EXCEPT ![p] = NotHeld]
  BY DEF pmm_free_pages, lists, Unlocked, EnterFree
<1>2. p % Pow2[order[p]] = 0
  BY <1>1 DEF CIInv, Aligned, IInv, OrderKept
<1>3. \A q \in Pages : granted'[q] # NotHeld => granted'[q] = granted[q]
  BY <1>1 DEF IInv, TypeOK
<1>4. Aligned'
  BY <1>1, <1>2, <1>3 DEF CIInv, Aligned
<1>5. NoFreeBuddies'
  BY <1>1, NoneAdded DEF CIInv, buddy_page_is_buddy
<1>6. Asked'
  BY <1>1 DEF CIInv, Asked
<1> QED BY <1>4, <1>5, <1>6 DEF CIInv

\* Two buddies make a block aligned to twice their size.
LEMMA MergeCoalesce == IInv /\ CIInv /\ merge => CIInv'
<1> SUFFICES ASSUME IInv, CIInv, merge PROVE CIInv'
  OBVIOUS
<1>1. PICK g \in Pages, k \in Orders : g = page /\ k = high
  BY DEF merge, IInv, TypeOK
<1>2. PICK b \in Pages : b = buddy_idx(g, k)
  BY <1>1 DEF merge, CanMerge, buddy_page_is_buddy
<1>3. /\ op = "merge" /\ op' = op /\ page' = combined_idx(g, b) /\ high' = k + 1
      /\ in_buddy' = [in_buddy EXCEPT ![b] = FALSE]
      /\ order' = [order EXCEPT ![b] = 0]
      /\ UNCHANGED <<low, pc, request, granted>>
  BY <1>1, <1>2 DEF merge
<1>4. Pow2[k + 1] = 2 * Pow2[k]
  <2>1. k < MM_MAX_ORDER - 1
    BY <1>1 DEF merge, CanMerge
  <2> QED BY <2>1, BlockSizes
<1>5. page' % Pow2[high'] = 0
  <2>1. g % Pow2[k] = 0
    BY <1>1, <1>3 DEF CIInv, Aligned
  <2>2. combined_idx(g, b) % (2 * Pow2[k]) = 0
    BY <2>1, <1>2, BuddyOf
  <2> QED BY <2>2, <1>3, <1>4
<1>6. \A p \in Pages : in_buddy'[p] => in_buddy[p] /\ order'[p] = order[p]
  BY <1>3 DEF IInv, TypeOK
<1>7. Aligned'
  BY <1>3, <1>5, <1>6 DEF CIInv, Aligned
<1>8. NoFreeBuddies'
  BY <1>6, NoneAdded DEF CIInv, buddy_page_is_buddy
<1>9. Asked'
  BY <1>3 DEF CIInv, Asked
<1> QED BY <1>7, <1>8, <1>9 DEF CIInv

\* The loop ends only where the buddy is not free, or at the largest order.
LEMMA ListCoalesce == IInv /\ CIInv /\ free_return => CIInv'
<1> SUFFICES ASSUME IInv, CIInv, free_return PROVE CIInv'
  OBVIOUS
<1>1. PICK g \in Pages, k \in Orders : g = page /\ k = high
  BY DEF free_return, IInv, TypeOK
<1>2. /\ op = "merge" /\ op' = "none"
      /\ in_buddy' = [in_buddy EXCEPT ![g] = TRUE]
      /\ order' = [order EXCEPT ![g] = k]
      /\ UNCHANGED <<pc, request, granted>>
  BY <1>1 DEF free_return, Unlock
<1>3. g % Pow2[k] = 0
  BY <1>1, <1>2 DEF CIInv, Aligned
<1>4. ~buddy_page_is_buddy(buddy_idx(g, k), k) \/ k = MM_MAX_ORDER - 1
  <2>1. ~(k < MM_MAX_ORDER - 1) => k = MM_MAX_ORDER - 1
    BY BuddyAssumption DEF Orders
  <2> QED BY <2>1, <1>1 DEF free_return, CanMerge
<1>5. \A p \in Pages : p # g => in_buddy'[p] = in_buddy[p] /\ order'[p] = order[p]
  BY <1>2 DEF IInv, TypeOK
<1>6. order'[g] = k
  BY <1>2 DEF IInv, TypeOK
<1>7. Aligned'
  <2>1. \A p \in Pages : in_buddy'[p] => p % Pow2[order'[p]] = 0
    <3> SUFFICES ASSUME NEW p \in Pages, in_buddy'[p] PROVE p % Pow2[order'[p]] = 0
      OBVIOUS
    <3>1. CASE p = g
      BY <3>1, <1>3, <1>6
    <3>2. CASE p # g
      BY <3>2, <1>5 DEF CIInv, Aligned
    <3> QED BY <3>1, <3>2
  <2> QED BY <2>1, <1>2 DEF CIInv, Aligned
<1>8. NoFreeBuddies'
  <2>1. \A p \in Pages, i \in Orders :
          buddy_page_is_buddy(p, i)' => buddy_page_is_buddy(p, i) \/ (p = g /\ i = k)
    BY <1>5, <1>6 DEF buddy_page_is_buddy
  <2> QED BY <2>1, <1>3, <1>4, <1>7, OneAdded DEF CIInv
<1>9. Asked'
  BY <1>2 DEF CIInv, Asked
<1> QED BY <1>7, <1>8, <1>9 DEF CIInv

LEMMA NextCIInv == IInv /\ CIInv /\ [Next]_vars => CIInv'
<1> SUFFICES ASSUME IInv, CIInv, [Next]_vars PROVE CIInv'
  OBVIOUS
<1>1. CASE UNCHANGED vars
  BY <1>1 DEF vars, CIInv, Aligned, NoFreeBuddies, Asked, buddy_page_is_buddy
<1>2. CASE Next
  <2>1. IInv'
    BY NextIInv
  <2> QED BY <1>2, <2>1, BootCoalesce, CheckCoalesce, TakeCoalesce, GrantCoalesce, FreeCoalesce,
             SplitCoalesce, MergeCoalesce, ListCoalesce DEF Next
<1> QED BY <1>1, <1>2

\* Blocks are aligned and free buddies merged, in every reachable state.
THEOREM BuddyAligned == Spec => []CIInv
<1> QED BY InitCIInv, NextCIInv, BuddyInvariant, PTL DEF Spec

-----------------------------------------------------------------------------
(* Coalescing is complete: induction over the orders, smallest first.      *)

\* A set of orders that holds 0 and with each order the next holds them all.
LEMMA OrderInduction ==
  ASSUME NEW S \in SUBSET Orders, 0 \in S,
         \A k \in S : k + 1 \in Orders => k + 1 \in S
  PROVE  S = Orders
<1> DEFINE R == {p \in Nat \X Nat : p[1] < p[2]}
           T == {k \in Orders : k \notin S}
<1>1. R = OpToRel(<, Nat)
  BY DEF OpToRel
<1>2. IsWellFoundedOn(R, Nat)
  BY <1>1, NatLessThanWellFounded
<1>3. T \subseteq Nat /\ Orders \subseteq Nat
  BY BuddyAssumption DEF Orders
<1> SUFFICES ASSUME T # {} PROVE FALSE
  OBVIOUS
<1> HIDE DEF R
<1>4. PICK x \in T : \A y \in T : ~(<<y, x>> \in R)
  BY <1>2, <1>3, WFMin
<1>5. x \in Orders /\ x \notin S /\ x # 0
  OBVIOUS
<1>6. x \in Nat /\ x - 1 \in Nat /\ x - 1 < x /\ x - 1 \in Orders /\ (x - 1) + 1 = x
  BY <1>5, BuddyAssumption DEF Orders
<1>7. <<x - 1, x>> \in R
  BY <1>6 DEF R
<1>8. x - 1 \in S
  BY <1>4, <1>6, <1>7
<1> QED BY <1>5, <1>6, <1>8

\* The size of a block divides the size of every larger one.
LEMMA SizesDivide ==
  ASSUME NEW j \in Orders, NEW i \in Orders, j <= i
  PROVE  \E m \in Nat : Pow2[i] = m * Pow2[j]
<1> DEFINE S == {k \in Orders : j <= k => \E m \in Nat : Pow2[k] = m * Pow2[j]}
<1>1. Orders \subseteq Nat /\ 0 \in Orders
  BY BuddyAssumption DEF Orders
<1>2. PICK d \in Nat : d = Pow2[j]
  BY BlockSizes
<1>3. \E m \in Nat : Pow2[j] = m * Pow2[j]
  <2>1. d = 1 * d
    OBVIOUS
  <2> QED BY <2>1, <1>2
<1>4. 0 \in S
  <2>1. j <= 0 => j = 0
    BY <1>1
  <2> QED BY <1>1, <1>3, <2>1
<1>5. ASSUME NEW k \in S, k + 1 \in Orders PROVE k + 1 \in S
  <2>1. k \in Orders /\ k < MM_MAX_ORDER - 1 /\ Pow2[k + 1] = 2 * Pow2[k]
    BY <1>5, BlockSizes, BuddyAssumption DEF Orders
  <2>2. CASE j <= k
    <3>1. PICK m \in Nat : Pow2[k] = m * d
      BY <1>2, <1>5, <2>2
    <3>2. 2 * (m * d) = (2 * m) * d /\ 2 * m \in Nat
      OBVIOUS
    <3> QED BY <1>2, <1>5, <2>1, <3>1, <3>2
  <2>3. CASE ~(j <= k)
    <3>1. j <= k + 1 => j = k + 1
      BY <1>1, <2>1, <2>3
    <3> QED BY <1>3, <1>5, <3>1
  <2> QED BY <2>2, <2>3
<1>6. S = Orders
  <2> HIDE DEF S
  <2>1. S \in SUBSET Orders
    BY DEF S
  <2> QED BY <2>1, <1>4, <1>5, OrderInduction
<1> QED BY <1>6

\* A block whose start and size are multiples of D holds the whole aligned
\* block of size D around each of its frames.
LEMMA Nested ==
  ASSUME NEW D \in Nat \ {0}, NEW h \in Nat, h % D = 0, NEW m \in Nat,
         NEW x \in Nat, h <= x, x < h + m * D
  PROVE  h <= x - (x % D) /\ x - (x % D) + D <= h + m * D
<1>1. PICK a \in Nat : h = a * D
  BY ONLY D \in Nat \ {0}, h \in Nat, h % D = 0
<1>2. PICK b \in Nat, r \in 0 .. D - 1 : x = b * D + r /\ x % D = r
  BY ONLY D \in Nat \ {0}, x \in Nat
<1>3. \A u, v \in Nat : u * D < v * D => u + 1 <= v
  OBVIOUS
<1>4. (b + 1) * D = b * D + D /\ (a + m) * D = a * D + m * D
  OBVIOUS
<1>5. a * D < (b + 1) * D /\ b * D < (a + m) * D
  BY <1>1, <1>2, <1>4
<1>6. a + 1 <= b + 1 /\ b + 1 <= a + m
  BY <1>3, <1>5
<1>7. \A u, v \in Nat : u <= v => u * D <= v * D
  OBVIOUS
<1>8. a * D <= b * D /\ (b + 1) * D <= (a + m) * D
  BY <1>6, <1>7
<1> QED BY <1>1, <1>2, <1>4, <1>8

\* With nothing handed out, the free blocks are all the blocks.
AllFree == Booted /\ op = "none" /\ \A p \in Pages : granted[p] = NotHeld

\* The aligned block of order j at a lies in the free block at h.
InFreeBlock(a, j, h) ==
  /\ in_buddy[h] /\ order[h] >= j
  /\ h <= a /\ a + Pow2[j] <= h + Pow2[order[h]]

LEMMA FreeBlocks ==
  ASSUME IInv, CIInv, AllFree
  PROVE  /\ \A p \in Pages : in_buddy[p] => /\ order[p] \in Orders /\ p % Pow2[order[p]] = 0
                                           /\ p .. p + Pow2[order[p]] - 1 \subseteq Usable
         /\ \A p, q \in Pages : in_buddy[p] /\ in_buddy[q] /\ p < q => p + Pow2[order[p]] <= q
         /\ \A x \in Usable : \E p \in Pages :
              in_buddy[p] /\ p <= x /\ x < p + Pow2[order[p]]
<1>1. Heads = {p \in Pages : in_buddy[p]}
  BY DEF AllFree, Heads, InHand
<1>2. \A p \in Heads : OrderOf(p) = order[p]
  BY <1>1 DEF AllFree, OrderOf, InHand
<1>3. \A x \in Usable : x < boot
  BY BuddyAssumption DEF AllFree, Booted, Pages
<1>4. \A p \in Pages : in_buddy[p] => /\ order[p] \in Orders /\ p % Pow2[order[p]] = 0
                                     /\ p .. p + Pow2[order[p]] - 1 \subseteq Usable
  BY <1>1, <1>2 DEF IInv, TypeOK, PagesConserved, CIInv, Aligned
<1>5. \A p, q \in Pages : in_buddy[p] /\ in_buddy[q] /\ p < q => p + Pow2[order[p]] <= q
  BY <1>1, <1>2 DEF IInv, BlocksDisjoint
<1>6. \A x \in Usable : \E p \in Pages : in_buddy[p] /\ p <= x /\ x < p + Pow2[order[p]]
  BY <1>1, <1>2, <1>3 DEF IInv, PagesConserved, Covers
<1> QED BY <1>4, <1>5, <1>6

\* A free block of a larger order that holds x holds the aligned block of order
\* j around x.
LEMMA Encloses ==
  ASSUME IInv, CIInv, AllFree, NEW j \in Orders, NEW h \in Pages, in_buddy[h],
         j <= order[h], NEW x \in Nat, h <= x, x < h + Pow2[order[h]]
  PROVE  InFreeBlock(x - (x % Pow2[j]), j, h)
<1>1. order[h] \in Orders /\ h % Pow2[order[h]] = 0 /\ h \in Nat
  BY FreeBlocks, BuddyAssumption DEF Pages
<1>2. PICK D \in Nat \ {0} : D = Pow2[j]
  BY BlockSizes
<1>3. PICK m \in Nat : Pow2[order[h]] = m * D
  BY <1>1, <1>2, SizesDivide
<1>4. PICK E \in Nat \ {0} : E = Pow2[order[h]]
  BY <1>1, BlockSizes
<1>5. h % D = 0
  <2>1. PICK n \in Nat : h = n * E
    <3>1. h \in Nat /\ h % E = 0
      BY <1>1, <1>4
    <3> QED BY ONLY <3>1, E \in Nat \ {0}
  <2>2. h = (n * m) * D /\ n * m \in Nat
    BY <2>1, <1>3, <1>4
  <2>3. \A u \in Nat : (u * D) % D = 0
    OBVIOUS
  <2> QED BY <2>2, <2>3
<1>6. h <= x - (x % D) /\ x - (x % D) + D <= h + m * D
  BY <1>1, <1>3, <1>5, Nested
<1>7. order[h] >= j
  BY <1>1, BuddyAssumption DEF Orders
<1> QED BY <1>2, <1>3, <1>6, <1>7 DEF InFreeBlock

\* With nothing handed out, every aligned block of usable frames lies in one
\* free block: its halves do, and two halves in two blocks would be free buddies.
LEMMA Coalesced ==
  ASSUME IInv, CIInv, AllFree
  PROVE  \A j \in Orders, a \in Nat :
           a % Pow2[j] = 0 /\ a .. a + Pow2[j] - 1 \subseteq Usable =>
             \E h \in Pages : InFreeBlock(a, j, h)
<1> DEFINE S == {j \in Orders : \A a \in Nat :
                   a % Pow2[j] = 0 /\ a .. a + Pow2[j] - 1 \subseteq Usable =>
                     \E h \in Pages : InFreeBlock(a, j, h)}
<1>0. 0 \in Orders /\ Pow2[0] = 1 /\ Orders \subseteq Nat /\ MM_MAX_ORDER \in Nat
      /\ Pages \subseteq Nat
  BY BuddyAssumption DEF Orders, Pages
<1>1. 0 \in S
  <2> SUFFICES ASSUME NEW a \in Nat, a .. a + Pow2[0] - 1 \subseteq Usable
               PROVE  \E h \in Pages : InFreeBlock(a, 0, h)
    BY <1>0
  <2>1. a \in Usable
    BY <1>0
  <2>2. PICK h \in Pages : in_buddy[h] /\ h <= a /\ a < h + Pow2[order[h]]
    BY <2>1, FreeBlocks
  <2>3. order[h] \in Orders
    BY <2>2, FreeBlocks
  <2>4. Pow2[order[h]] \in Nat
    BY <2>3, BlockSizes
  <2>5. order[h] >= 0 /\ a + 1 <= h + Pow2[order[h]]
    <3>1. order[h] \in Nat /\ h \in Nat
      BY <1>0, <2>3
    <3> QED BY <3>1, <2>2, <2>4
  <2> QED BY <1>0, <2>2, <2>5 DEF InFreeBlock
<1>2. ASSUME NEW j \in S, j + 1 \in Orders PROVE j + 1 \in S
  <2> SUFFICES ASSUME NEW a \in Nat, a % Pow2[j + 1] = 0,
                      a .. a + Pow2[j + 1] - 1 \subseteq Usable
               PROVE  \E h \in Pages : InFreeBlock(a, j + 1, h)
    BY <1>2
  <2>1. j \in Orders /\ j \in 0 .. MM_MAX_ORDER - 2 /\ Pow2[j + 1] = 2 * Pow2[j]
    BY <1>0, <1>2, BlockSizes DEF Orders
  <2>2. PICK d \in Nat \ {0} : d = Pow2[j]
    BY <2>1, BlockSizes
  <2>3. a % (2 * d) = 0
    BY <2>1, <2>2
  <2>4. a % d = 0 /\ (a + d) % d = 0 /\ (a \div d) % 2 = 0
    BY <2>3, Halves
  <2>5. PICK e \in Nat : e = a + d
    OBVIOUS
  <2>6. a .. a + d - 1 \subseteq Usable /\ e .. e + d - 1 \subseteq Usable
    <3>1. a .. a + 2 * d - 1 \subseteq Usable
      BY <2>1, <2>2
    <3>2. a .. a + d - 1 \subseteq a .. a + 2 * d - 1 /\ e .. e + d - 1 \subseteq a .. a + 2 * d - 1
      BY <2>5
    <3> QED BY <3>1, <3>2
  <2>7. PICK h \in Pages : InFreeBlock(a, j, h)
    BY <1>2, <2>2, <2>4, <2>6
  <2>8. PICK g \in Pages : InFreeBlock(e, j, g)
    BY <1>2, <2>2, <2>4, <2>5, <2>6
  <2>9. /\ order[h] \in Orders /\ order[g] \in Orders /\ in_buddy[h] /\ in_buddy[g]
        /\ Pow2[order[h]] \in Nat /\ Pow2[order[g]] \in Nat
    BY <2>7, <2>8, FreeBlocks, BlockSizes DEF InFreeBlock
  <2>10. CASE order[h] >= j + 1
    <3>1. h <= a /\ a < h + Pow2[order[h]] /\ j + 1 <= order[h]
      BY <1>0, <2>2, <2>7, <2>9, <2>10 DEF InFreeBlock
    <3>2. InFreeBlock(a - (a % Pow2[j + 1]), j + 1, h)
      BY <1>2, <2>9, <3>1, Encloses
    <3>3. a - (a % Pow2[j + 1]) = a
      OBVIOUS
    <3> QED BY <3>2, <3>3
  <2>11. CASE order[g] >= j + 1
    <3>1. g <= e /\ e < g + Pow2[order[g]] /\ j + 1 <= order[g]
      BY <1>0, <2>2, <2>8, <2>9, <2>11 DEF InFreeBlock
    <3>2. InFreeBlock(e - (e % Pow2[j + 1]), j + 1, g)
      BY <1>2, <2>9, <3>1, Encloses
    <3>3. e % (2 * d) = d
      <4>1. PICK n \in Nat : a = n * (2 * d)
        BY <2>3
      <4>2. \A E \in Nat \ {0} : \A r \in 0 .. E - 1 : (n * E + r) % E = r
        OBVIOUS
      <4>3. 2 * d \in Nat \ {0} /\ d \in 0 .. 2 * d - 1
        OBVIOUS
      <4> QED BY <2>5, <4>1, <4>2, <4>3
    <3>4. e - (e % Pow2[j + 1]) = a
      BY <3>3, <2>1, <2>2, <2>5
    <3> QED BY <3>2, <3>4
  <2>12. CASE ~(order[h] >= j + 1) /\ ~(order[g] >= j + 1)
    <3>0. order[h] \in Nat /\ order[g] \in Nat /\ j \in Nat
      BY <1>0, <2>1, <2>9
    <3>1. order[h] = j /\ order[g] = j
      BY <3>0, <2>7, <2>8, <2>12 DEF InFreeBlock
    <3>2. h = a /\ g = e
      BY <1>0, <2>2, <2>7, <2>8, <3>1 DEF InFreeBlock
    <3>3. buddy_idx(a, j) = e
      BY <2>2, <2>4, <2>5 DEF buddy_idx
    <3>4. buddy_page_is_buddy(a, j) /\ buddy_page_is_buddy(e, j) /\ a \in Pages
      BY <2>9, <3>1, <3>2 DEF buddy_page_is_buddy
    <3> QED BY <2>1, <3>3, <3>4 DEF CIInv, NoFreeBuddies
  <2> QED BY <2>10, <2>11, <2>12
<1>3. S = Orders
  <2> HIDE DEF S
  <2>1. S \in SUBSET Orders
    BY DEF S
  <2> QED BY <2>1, <1>1, <1>2, OrderInduction
<1> QED BY <1>3

\* All memory given back is what it was at boot.
LEMMA Restored == IInv /\ CIInv => RestoredWhenAllFree
<1> SUFFICES ASSUME IInv, CIInv, AllFree, NEW p \in Pages, NEW k \in Orders
             PROVE  in_buddy[p] /\ order[p] = k <=> IsLargest(p, k)
  BY DEF RestoredWhenAllFree, AllFree
<1>0. p \in Nat /\ k \in Nat /\ Pages \subseteq Nat /\ Orders \subseteq Nat
      /\ MM_MAX_ORDER \in Nat
  BY BuddyAssumption DEF Pages, Orders
<1>1. PICK d \in Nat \ {0} : d = Pow2[k]
  BY BlockSizes
<1>2. ASSUME in_buddy[p], order[p] = k PROVE IsLargest(p, k)
  <2>1. p % Pow2[k] = 0 /\ p .. p + Pow2[k] - 1 \subseteq Usable
    BY <1>2, FreeBlocks
  <2>2. ASSUME k < MM_MAX_ORDER - 1, NEW q, q = p - (p % Pow2[k + 1]),
               q .. q + Pow2[k + 1] - 1 \subseteq Usable
        PROVE  FALSE
    <3>1. k + 1 \in Orders /\ Pow2[k + 1] = 2 * d
      BY <1>1, <2>2, BlockSizes
    <3>2. PICK D \in Nat \ {0} : D = Pow2[k + 1]
      BY <3>1
    <3>3. q \in Nat /\ q % D = 0 /\ q <= p /\ p < q + D
      <4>1. PICK n \in Nat, r \in 0 .. D - 1 : p = n * D + r /\ p % D = r
        <5>1. p \in Nat
          BY <1>0
        <5> QED BY ONLY <5>1, D \in Nat \ {0}
      <4>2. q = n * D
        BY <2>2, <3>2, <4>1
      <4>3. n * D \in Nat /\ (n * D) % D = 0
        OBVIOUS
      <4> QED BY <4>1, <4>2, <4>3
    <3>4. PICK h \in Pages : InFreeBlock(q, k + 1, h)
      BY <2>2, <3>1, <3>2, <3>3, Coalesced
    <3>5. in_buddy[h] /\ order[h] \in Orders /\ Pow2[order[h]] \in Nat /\ h \in Nat
      BY <1>0, <3>4, FreeBlocks, BlockSizes DEF InFreeBlock
    <3>6. h <= p /\ p < h + Pow2[order[h]] /\ order[h] # k
      BY <1>0, <3>2, <3>3, <3>4, <3>5 DEF InFreeBlock
    <3>7. h # p
      BY <1>2, <3>6
    <3> QED BY <1>0, <1>2, <3>5, <3>6, <3>7, FreeBlocks
  <2> QED BY <2>1, <2>2 DEF IsLargest
<1>3. ASSUME IsLargest(p, k) PROVE in_buddy[p] /\ order[p] = k
  <2>1. PICK h \in Pages : InFreeBlock(p, k, h)
    BY <1>0, <1>3, Coalesced DEF IsLargest
  <2>2. in_buddy[h] /\ order[h] \in Orders /\ Pow2[order[h]] \in Nat /\ h \in Nat
        /\ h .. h + Pow2[order[h]] - 1 \subseteq Usable
    BY <1>0, <2>1, FreeBlocks, BlockSizes DEF InFreeBlock
  <2>3. CASE order[h] = k
    <3>1. h = p
      BY <1>0, <1>1, <2>1, <2>2, <2>3 DEF InFreeBlock
    <3> QED BY <2>2, <2>3, <3>1
  <2>4. CASE order[h] # k
    <3>1. k < MM_MAX_ORDER - 1 /\ k + 1 <= order[h]
      BY <1>0, <2>1, <2>2, <2>4 DEF InFreeBlock, Orders
    <3>2. k + 1 \in Orders
      BY <3>1, BlockSizes
    <3>3. PICK q : q = p - (p % Pow2[k + 1])
      OBVIOUS
    <3>4. h <= p /\ p < h + Pow2[order[h]]
      BY <1>0, <1>1, <2>1, <2>2 DEF InFreeBlock
    <3>5. InFreeBlock(q, k + 1, h)
      BY <1>0, <2>2, <3>1, <3>2, <3>3, <3>4, Encloses
    <3>6. PICK D \in Nat \ {0} : D = Pow2[k + 1]
      BY <3>2, BlockSizes
    <3>7. q \in Int /\ h <= q /\ q + D <= h + Pow2[order[h]]
      BY <1>0, <3>3, <3>5, <3>6 DEF InFreeBlock
    <3>8. q .. q + D - 1 \subseteq h .. h + Pow2[order[h]] - 1
      BY <2>2, <3>7
    <3> QED BY <1>3, <2>2, <3>1, <3>3, <3>6, <3>8 DEF IsLargest
  <2> QED BY <2>3, <2>4
<1> QED BY <1>2, <1>3

\* However the calls of pmm_alloc_pages and pmm_free_pages follow each other,
\* free buddies are merged whenever the lock is free, and once everything is
\* given back the free lists hold exactly the largest blocks, as at boot.
THEOREM BuddyFullyCoalesced == Spec => []FullyCoalesced
<1>1. IInv /\ CIInv => BuddiesMerged
  <2> SUFFICES ASSUME CIInv, NEW k \in 0 .. MM_MAX_ORDER - 2, NEW p \in Pages,
                      in_buddy[p], order[p] = k
               PROVE  ~buddy_page_is_buddy(buddy_idx(p, k), k)
    BY DEF BuddiesMerged
  <2> QED BY DEF CIInv, NoFreeBuddies, buddy_page_is_buddy
<1>2. IInv /\ CIInv => FullyCoalesced
  BY <1>1, Restored DEF FullyCoalesced
<1> QED BY <1>2, BuddyInvariant, BuddyAligned, PTL

-----------------------------------------------------------------------------
(* The buddy system implements PageAlloc, step by step.                    *)

Held == {[frame |-> p, order |-> granted[p]] : p \in {q \in Pages : granted[q] # NotHeld}}

\* What the boot scan, the grants and the total leave alone is no step of PageAlloc.
LEMMA Quiet ==
  ASSUME boot' = boot, granted' = granted, halted' = halted, AvailablePages' = AvailablePages
  PROVE  UNCHANGED Abstract!vars
BY DEF Abstract!vars

LEMMA PendingFrames ==
  ASSUME IInv
  PROVE  /\ boot \in Nat /\ nr_free_pages \in Int /\ Usable \subseteq Nat
         /\ \A k \in Orders : Pow2[k] \in Nat /\ Pow2[k] > 0
BY BlockSizes, BuddyAssumption DEF IInv, TypeOK, Pages

\* _buddy_init finds a block, or skips a frame that is not usable.
LEMMA BootRefines == IInv /\ buddy_init => [Abstract!Next]_(Abstract!vars)
<1> SUFFICES ASSUME IInv, buddy_init PROVE [Abstract!Next]_(Abstract!vars)
  OBVIOUS
<1>1. UNCHANGED <<nr_free_pages, granted, halted>> /\ op = "none"
  BY DEF buddy_init, lists, Unlocked
<1>2. 0 \in Orders /\ Pow2[0] = 1 /\ WordOrder \in Orders
  BY BuddyAssumption DEF Orders
<1>3. PICK k \in Orders :
        \/ /\ EnterFree(boot, k) /\ boot' = boot + Pow2[k]
           /\ boot .. boot + Pow2[k] - 1 \subseteq Usable
        \/ boot' = boot + 1 /\ boot \notin Usable /\ UNCHANGED <<op, page, high, low>>
  <2>1. boot \in Usable => boot .. boot + Pow2[0] - 1 \subseteq Usable
    BY <1>2, PendingFrames
  <2> QED BY <1>2, <2>1 DEF buddy_init, WordIsFree
<1>4. CASE /\ EnterFree(boot, k) /\ boot' = boot + Pow2[k]
           /\ boot .. boot + Pow2[k] - 1 \subseteq Usable
  <2>1. PICK b \in Nat, d \in Nat : b = boot /\ d = Pow2[k] /\ d > 0
    BY PendingFrames
  <2>2. b \in Usable /\ b .. b + d - 1 \subseteq {p \in Usable : p >= b}
    BY <1>4, <2>1, PendingFrames
  <2>3. {p \in Usable : p >= b + d} = {p \in Usable : p >= b} \ (b .. b + d - 1)
    BY <2>1, PendingFrames
  <2>4. AvailablePages' = AvailablePages + d
    BY <1>1, <1>4, <2>1, PendingFrames DEF AvailablePages, EnterFree
  <2>5. Abstract!Found(b, k)
    BY <1>1, <1>4, <2>1, <2>2, <2>3, <2>4 DEF Abstract!Found, Abstract!Block
  <2> QED BY <2>2, <2>5 DEF Abstract!Next
<1>5. CASE boot' = boot + 1 /\ boot \notin Usable /\ UNCHANGED <<op, page, high, low>>
  <2>1. {p \in Usable : p >= boot'} = {p \in Usable : p >= boot}
    BY <1>5, PendingFrames
  <2>2. AvailablePages' = AvailablePages
    BY <1>1, <1>5 DEF AvailablePages
  <2> QED BY <2>1, <2>2, <1>1 DEF Abstract!vars
<1> QED BY <1>3, <1>4, <1>5

\* The check before the lock stops the kernel or changes nothing.
LEMMA CheckRefines ==
  ASSUME IInv, NEW c \in Callers, NEW n \in Requests, pmm_alloc_pages(c, n)
  PROVE  [Abstract!Next]_(Abstract!vars)
<1>1. UNCHANGED <<boot, granted, AvailablePages>>
  BY DEF pmm_alloc_pages, lists, locals, AvailablePages
<1>2. CASE halted' = halted
  BY <1>1, <1>2, Quiet
<1>3. CASE halted' = TRUE
  BY <1>1, <1>3 DEF Abstract!Next, Abstract!Stop
<1> QED BY <1>2, <1>3 DEF pmm_alloc_pages

\* The block taken leaves the total and comes into hand.
LEMMA TakeRefines ==
  ASSUME IInv, NEW c \in Callers, buddy_alloc_pages(c)
  PROVE  [Abstract!Next]_(Abstract!vars)
<1>1. UNCHANGED <<boot, granted>> /\ op = "none"
  BY DEF buddy_alloc_pages, Unlocked
<1>2. CASE UNCHANGED <<lists, locals, pc>> /\ halted' = TRUE
  <2>1. AvailablePages' = AvailablePages
    BY <1>2 DEF lists, locals, AvailablePages
  <2> QED BY <1>1, <1>2, <2>1 DEF Abstract!Next, Abstract!Stop
<1>3. ASSUME NEW j \in Orders, buddy_get_from_free_area(j), op' = "split", high' = j,
             halted' = halted
      PROVE  UNCHANGED Abstract!vars
  <2>1. AvailablePages' = AvailablePages
    BY <1>1, <1>3, PendingFrames DEF buddy_get_from_free_area, AvailablePages
  <2> QED BY <1>1, <1>3, <2>1, Quiet
<1> QED BY <1>2, <1>3 DEF buddy_alloc_pages

\* A half goes from the hand into the total.
LEMMA SplitRefines == IInv /\ buddy_split => UNCHANGED Abstract!vars
<1> SUFFICES ASSUME IInv, buddy_split PROVE UNCHANGED Abstract!vars
  OBVIOUS
<1>1. high \in Orders /\ high - 1 \in Orders /\ Pow2[high] = 2 * Pow2[high - 1]
  <2>1. high \in Orders /\ high > 0
    BY BuddyAssumption DEF buddy_split, IInv, TypeOK, Orders
  <2> QED BY <2>1, BlockSizes
<1>2. AvailablePages' = AvailablePages
  BY <1>1, PendingFrames DEF buddy_split, AvailablePages
<1> QED BY <1>2, Quiet DEF buddy_split

\* A free buddy goes from the total into the hand.
LEMMA MergeRefines == IInv /\ merge => UNCHANGED Abstract!vars
<1> SUFFICES ASSUME IInv, merge PROVE UNCHANGED Abstract!vars
  OBVIOUS
<1>1. high \in Orders /\ high + 1 \in Orders /\ Pow2[high + 1] = 2 * Pow2[high]
  <2>1. high \in Orders /\ high < MM_MAX_ORDER - 1
    BY DEF merge, CanMerge, IInv, TypeOK
  <2> QED BY <2>1, BlockSizes
<1>2. AvailablePages' = AvailablePages
  BY <1>1, PendingFrames DEF merge, TakeFromTotal, AvailablePages
<1> QED BY <1>2, Quiet DEF merge

\* The block in hand goes into the total.
LEMMA ListRefines == IInv /\ free_return => UNCHANGED Abstract!vars
<1> SUFFICES ASSUME IInv, free_return PROVE UNCHANGED Abstract!vars
  OBVIOUS
<1>1. AvailablePages' = AvailablePages
  BY DEF free_return, Unlock, AvailablePages
<1> QED BY <1>1, Quiet DEF free_return

\* The block handed out was free, is aligned and as small as the request allows.
LEMMA GrantRefines ==
  ASSUME IInv, CIInv, NEW c \in Callers, alloc_return(c)
  PROVE  Abstract!Next
<1>1. PICK g \in Pages, k \in Orders : g = page /\ k = low /\ high = k /\ op = "split"
  BY DEF alloc_return, IInv, TypeOK
<1>2. /\ granted' = [granted EXCEPT ![g] = k] /\ op' = "none"
      /\ pc[c] = "locked" /\ UNCHANGED <<boot, nr_free_pages, halted>>
  BY <1>1 DEF alloc_return, Unlock
<1>3. g \in Heads /\ OrderOf(g) = k /\ granted[g] = NotHeld
  BY <1>1 DEF Heads, InHand, OrderOf, IInv, BlocksDisjoint, OneRole
<1>4. /\ g \in Nat /\ Pow2[k] \in Nat /\ Pow2[k] > 0
      /\ g .. g + Pow2[k] - 1 \subseteq Usable \cap 0 .. boot - 1
  BY <1>3, PendingFrames, BuddyAssumption DEF IInv, PagesConserved, Pages
<1>5. ASSUME NEW x \in g .. g + Pow2[k] - 1, NEW h \in Held,
             x \in h.frame .. h.frame + Pow2[h.order] - 1
      PROVE  FALSE
  <2>1. PICK q \in Pages : granted[q] # NotHeld /\ h.frame = q /\ h.order = granted[q]
    BY DEF Held
  <2>2. q \in Heads /\ OrderOf(q) = granted[q] /\ q # g
    BY <1>1, <1>3, <2>1 DEF Heads, OrderOf, InHand, IInv, BlocksDisjoint, OneRole
  <2>3. q \in Int /\ Pow2[granted[q]] \in Nat
    BY <2>2, HeadFacts
  <2>4. q < g => q + Pow2[granted[q]] <= g
    BY <1>3, <2>2 DEF IInv, BlocksDisjoint
  <2>5. g < q => g + Pow2[k] <= q
    BY <1>3, <2>2 DEF IInv, BlocksDisjoint
  <2>6. x \in q .. q + Pow2[granted[q]] - 1
    BY <1>5, <2>1
  <2> QED BY <1>4, <2>2, <2>3, <2>4, <2>5, <2>6
<1>6. g .. g + Pow2[k] - 1 \subseteq Abstract!Free
  <2> SUFFICES ASSUME NEW x \in g .. g + Pow2[k] - 1 PROVE x \in Abstract!Free
    OBVIOUS
  <2>1. x \in Usable /\ ~(x >= boot)
    BY <1>4, PendingFrames
  <2>2. x \notin Abstract!HeldFrames
    BY <1>5 DEF Abstract!HeldFrames, Abstract!Block, Held
  <2> QED BY <2>1, <2>2 DEF Abstract!Free
<1>7. request[c] \in Requests /\ SmallestOrder(request[c], k) /\ g % Pow2[k] = 0
  BY <1>1, <1>2 DEF CIInv, Asked, Aligned
<1>8. Held' = Held \union {[frame |-> g, order |-> k]}
  <2>1. \A q \in Pages : granted'[q] = IF q = g THEN k ELSE granted[q]
    BY <1>2 DEF IInv, TypeOK
  <2>2. k # NotHeld
    BY BuddyAssumption DEF Orders, NotHeld
  <2> QED BY <1>3, <2>1, <2>2 DEF Held
<1>9. AvailablePages' = AvailablePages - Pow2[k]
  BY <1>1, <1>2, <1>4, PendingFrames DEF AvailablePages
<1>10. Abstract!Alloc(request[c], g, k)
  BY <1>2, <1>6, <1>7, <1>8, <1>9 DEF Abstract!Alloc, Abstract!Block, SmallestOrder, Held
<1>11. g \in Usable
  BY <1>4
<1> QED BY <1>7, <1>10, <1>11 DEF Abstract!Next

\* What is given back is a block that was handed out, with its order.
LEMMA FreeRefines ==
  ASSUME IInv, NEW c \in Callers, NEW p \in Pages, pmm_free_pages(c, p)
  PROVE  Abstract!Next
<1>1. /\ UNCHANGED <<nr_free_pages, boot, halted>> /\ op = "none" /\ op' = "merge"
      /\ high' = order[p] /\ granted[p] # NotHeld
      /\ granted' = [granted EXCEPT ![p] = NotHeld]
  BY DEF pmm_free_pages, lists, Unlocked, EnterFree
<1>2. order[p] = granted[p] /\ granted[p] \in Orders
  BY <1>1 DEF IInv, TypeOK, OrderKept
<1>3. PICK block : block = [frame |-> p, order |-> granted[p]]
  OBVIOUS
<1>4. block \in Held /\ block.order = granted[p]
  BY <1>1, <1>3 DEF Held
<1>5. Held' = Held \ {block}
  <2>1. \A q \in Pages : granted'[q] = IF q = p THEN NotHeld ELSE granted[q]
    BY <1>1 DEF IInv, TypeOK
  <2> QED BY <1>1, <1>3, <2>1 DEF Held
<1>6. AvailablePages' = AvailablePages + Pow2[granted[p]]
  BY <1>1, <1>2, PendingFrames DEF AvailablePages
<1>7. Abstract!Release(block)
  BY <1>1, <1>4, <1>5, <1>6 DEF Abstract!Release, Held
<1> QED BY <1>4, <1>7 DEF Abstract!Next, Held

\* pmm.c implements the specification its callers rely on: free lists, splits
\* and merges do not show, and nr_free_pages counts exactly the free frames.
THEOREM BuddyImplements == Spec => ImplementsPageAlloc
<1>1. Init => Abstract!Init
  <2> SUFFICES ASSUME Init PROVE Abstract!Init
    OBVIOUS
  <2>1. {p \in Usable : p >= boot} = Usable
    <3>1. boot = 0 /\ \A p \in Usable : p \in Nat
      BY BuddyAssumption DEF Init, Pages
    <3>2. \A p \in Usable : p >= 0
      BY <3>1
    <3> QED BY <3>1, <3>2
  <2> QED BY <2>1 DEF Init, Abstract!Init, AvailablePages
<1>2. IInv /\ CIInv /\ [Next]_vars => [Abstract!Next]_(Abstract!vars)
  <2> SUFFICES ASSUME IInv, CIInv, [Next]_vars PROVE [Abstract!Next]_(Abstract!vars)
    OBVIOUS
  <2>1. CASE UNCHANGED vars
    <3>1. AvailablePages' = AvailablePages
      BY <2>1 DEF vars, AvailablePages
    <3> QED BY <2>1, <3>1, Quiet DEF vars
  <2>2. CASE Next
    BY <2>2, BootRefines, CheckRefines, TakeRefines, GrantRefines, FreeRefines, SplitRefines,
       MergeRefines, ListRefines DEF Next
  <2> QED BY <2>1, <2>2
<1> QED BY <1>1, <1>2, BuddyInvariant, BuddyAligned, PTL DEF Spec, ImplementsPageAlloc, Abstract!Spec

=============================================================================
