----------------------------- MODULE FatProofs ------------------------------
(***************************************************************************)
(* Proofs about FatFile, for any number of files and handles, any size of  *)
(* the volume, of its clusters and sectors, with and without a mirror.     *)
(*                                                                         *)
(* VolumeSound speaks of the disk at every moment, so the invariant has to *)
(* speak of what is still to be written: Good(disk, fs) says that the      *)
(* sectors in fs.log, carried out one by one, lead from the disk to the    *)
(* volume that the driver sees, and that each volume on the way is sound   *)
(* (Track).  A volume is Sound if its chains are linked, apart, covered by *)
(* each other between the tables (Ahead, Mirrored), long enough for the    *)
(* sizes in the directory, and counted by the FSInfo sector.               *)
(*                                                                         *)
(* From the bottom: loops and what their turns keep; sound volumes and     *)
(* what put_fat may do to one; the sector buffer; stretch_chain; and, with *)
(* WorkOK for an operation in progress, seek, read, write and sync.        *)
(*                                                                         *)
(* DataKept and ReadsWhatWasWritten rest on it.  With one handle at a time *)
(* on a file, and room on the disk, a closed file Stores its content, and  *)
(* an open one Shows it through its handle, whose buffer is the sector at  *)
(* its offset or newer (Exact).  That room is found when there is some     *)
(* needs the counters of FSInfo to be right (Counts).  That the directory  *)
(* has a size large enough for it is an invariant of its own, SizeInv.     *)
(***************************************************************************)
EXTENDS FatFile, FiniteSetTheorems, SequenceTheorems, WellFoundedInduction, TLAPS

-----------------------------------------------------------------------------
(* Loops.                                                                  *)

\* A nonempty set of natural numbers has a least element.
LEMMA LeastOf ==
  ASSUME NEW S \in SUBSET Nat, S # {}
  PROVE  \E k \in S : \A j \in S : k <= j
<1> DEFINE R == {p \in Nat \X Nat : p[1] < p[2]}
<1>1. IsWellFoundedOn(R, Nat)
  BY NatLessThanWellFounded DEF OpToRel
<1> HIDE DEF R
<1>2. PICK x \in S : \A y \in S : ~(<<y, x>> \in R)
  BY <1>1, WFMin
<1>3. \A y \in S : ~(y < x)
  BY <1>2 DEF R
<1> QED BY <1>2, <1>3

\* One turn of the walk along a chain, of the loop of fat_file_seek, of
\* fat_file_read or of fat_file_write.
Turn(loop, vol, k, x) ==
  IF loop = "chain" THEN Longer(vol, k, x)
  ELSE IF loop = "seek" THEN Follow(x)
  ELSE IF loop = "read" THEN ReadTurn(x)
  ELSE WriteTurn(x)

\* What n turns make of x, turn by turn.
IsLoop(h, loop, vol, k, x, n) ==
  h = [i \in 0 .. n |-> IF i = 0 THEN x ELSE Turn(loop, vol, k, h[i - 1])]

LEMMA LoopRuns ==
  ASSUME NEW loop, NEW vol, NEW t, NEW x, NEW n \in Nat
  PROVE  \E h : IsLoop(h, loop, vol, t, x, n)
<1> DEFINE D == {k \in 0 .. n : ~\E h : IsLoop(h, loop, vol, t, x, k)}
<1>1. SUFFICES ASSUME D # {} PROVE FALSE
  <2>1. n \in 0 .. n
    OBVIOUS
  <2> QED BY <2>1
<1>2. PICK k \in D : \A j \in D : k <= j
  <2>1. D \in SUBSET Nat
    OBVIOUS
  <2> HIDE DEF D
  <2> QED BY <2>1, <1>1, LeastOf
<1>3. k \in Nat /\ ~\E h : IsLoop(h, loop, vol, t, x, k)
  OBVIOUS
<1>4. CASE k = 0
  <2>1. PICK h : h = [j \in 0 .. 0 |-> x]
    OBVIOUS
  <2>2. h = [j \in 0 .. 0 |-> IF j = 0 THEN x ELSE Turn(loop, vol, t, h[j - 1])]
    BY ONLY <2>1
  <2> QED BY <2>2, <1>3, <1>4 DEF IsLoop
<1>5. CASE k # 0
  <2>1. PICK m \in Nat : k = m + 1
    BY <1>3, <1>5
  <2>2. m \notin D /\ m \in 0 .. n
    BY <2>1, <1>2
  <2>3. PICK h : IsLoop(h, loop, vol, t, x, m)
    BY <2>2
  <2>4. PICK g : g = [j \in 0 .. k |-> IF j = k THEN Turn(loop, vol, t, h[m]) ELSE h[j]]
    OBVIOUS
  <2>5. \A j \in 0 .. m : h[j] = IF j = 0 THEN x ELSE Turn(loop, vol, t, h[j - 1])
    BY ONLY <2>3 DEF IsLoop
  <2>6. \A j \in 0 .. m : g[j] = h[j]
    BY ONLY <2>1, <2>4, m \in Nat
  <2>7. k \in 0 .. k /\ g[k] = Turn(loop, vol, t, h[m])
    BY ONLY <2>1, <2>4, m \in Nat
  <2>8. ASSUME NEW j \in 0 .. k
        PROVE  g[j] = IF j = 0 THEN x ELSE Turn(loop, vol, t, g[j - 1])
    <3>1. CASE j \in 0 .. m
      <4>1. j = 0 \/ j - 1 \in 0 .. m
        BY ONLY <3>1, m \in Nat
      <4> QED BY ONLY <4>1, <3>1, <2>5, <2>6
    <3>2. CASE j = k
      <4>1. j # 0 /\ j - 1 = m /\ m \in 0 .. m
        BY ONLY <3>2, <2>1, m \in Nat
      <4> QED BY ONLY <4>1, <3>2, <2>6, <2>7
    <3> QED BY ONLY <3>1, <3>2, <2>1, m \in Nat, j \in 0 .. k
  <2>9. DOMAIN g = 0 .. k /\ g = [j \in 0 .. k |-> g[j]]
    BY ONLY <2>4
  <2>10. IsLoop(g, loop, vol, t, x, k)
    BY ONLY <2>8, <2>9 DEF IsLoop
  <2> QED BY <2>10, <1>3
<1> QED BY <1>4, <1>5

\* Each turn of a loop starts from what the one before it left.
LEMMA LoopTurns ==
  ASSUME NEW h, NEW loop, NEW vol, NEW t, NEW x, NEW n \in Nat, IsLoop(h, loop, vol, t, x, n)
  PROVE  h[0] = x /\ \A i \in 0 .. n - 1 : h[i + 1] = Turn(loop, vol, t, h[i])
<1>1. \A j \in 0 .. n : h[j] = IF j = 0 THEN x ELSE Turn(loop, vol, t, h[j - 1])
  BY DEF IsLoop
<1>2. 0 \in 0 .. n
  OBVIOUS
<1>3. ASSUME NEW i \in 0 .. n - 1 PROVE h[i + 1] = Turn(loop, vol, t, h[i])
  <2>1. i + 1 \in 0 .. n /\ i + 1 # 0 /\ i + 1 - 1 = i
    OBVIOUS
  <2> QED BY ONLY <2>1, <1>1
<1> QED BY <1>1, <1>2, <1>3

\* A set of numbers that holds 0 and with each number its successor, up to n,
\* holds n.
LEMMA UpTo ==
  ASSUME NEW n \in Nat, NEW S, 0 \in S, \A i \in 0 .. n - 1 : i \in S => i + 1 \in S
  PROVE  \A i \in 0 .. n : i \in S
<1> DEFINE D == {i \in 0 .. n : i \notin S}
<1>1. SUFFICES ASSUME D # {} PROVE FALSE
  OBVIOUS
<1>2. PICK k \in D : \A j \in D : k <= j
  <2>1. D \in SUBSET Nat
    OBVIOUS
  <2> HIDE DEF D
  <2> QED BY <2>1, <1>1, LeastOf
<1>3. k # 0
  OBVIOUS
<1>4. k - 1 \in 0 .. n - 1 /\ k - 1 \notin D /\ k - 1 + 1 = k
  BY <1>2, <1>3
<1>5. k - 1 \in S
  BY <1>4
<1> QED BY <1>4, <1>5

-----------------------------------------------------------------------------
(* Chains.                                                                 *)

\* The walk along table t from the first cluster of s follows s, if s is linked
\* there and the entry of its last cluster is none.
LEMMA ChainFollows ==
  ASSUME NEW V, NEW t, NEW s \in Seq(Clusters), NEW n, n = Len(s), n >= 1, n <= ClustCnt - 2,
         \A i \in 1 .. n - 1 : Entry(V, t, s[i]) = s[i + 1],
         Entry(V, t, s[n]) \notin Clusters
  PROVE  Chain(V, t, s[1]) = s
<1> DEFINE m == ClustCnt - 3
<1>1. m \in Nat /\ n \in Nat
  BY FatVolumeAssumption
<1>2. \E h : IsLoop(h, "chain", V, t, <<s[1]>>, m)
  BY <1>1, LoopRuns
<1>3. PICK h : IsLoop(h, "chain", V, t, <<s[1]>>, m) /\ Chain(V, t, s[1]) = h[m]
  BY ONLY <1>2 DEF Chain, IsLoop, Turn
<1> HIDE DEF m
<1>4. h[0] = <<s[1]>> /\ \A i \in 0 .. m - 1 : h[i + 1] = Longer(V, t, h[i])
  BY <1>1, <1>3, LoopTurns DEF Turn
<1> DEFINE P(i) == /\ h[i] \in Seq(Clusters)
                   /\ Len(h[i]) = IF i < n THEN i + 1 ELSE n
                   /\ \A j \in 1 .. Len(h[i]) : h[i][j] = s[j]
           S == {i \in Nat : P(i)}
<1>5. 0 \in S
  <2>1. s[1] \in Clusters
    OBVIOUS
  <2>2. <<s[1]>> \in Seq(Clusters) /\ Len(<<s[1]>>) = 1 /\ <<s[1]>>[1] = s[1]
    BY <2>1
  <2>3. \A j \in 1 .. 1 : <<s[1]>>[j] = s[j]
    BY <2>2
  <2>4. h[0] \in Seq(Clusters) /\ Len(h[0]) = 1 /\ \A j \in 1 .. 1 : h[0][j] = s[j]
    BY ONLY <1>4, <2>2, <2>3
  <2>5. 0 < n /\ 0 + 1 = 1
    BY <1>1
  <2>6. Len(h[0]) = IF 0 < n THEN 0 + 1 ELSE n
    BY ONLY <2>4, <2>5
  <2>7. P(0)
    BY ONLY <2>4, <2>6
  <2> QED BY <2>7
<1>6. ASSUME NEW i \in 0 .. m - 1, P(i) PROVE P(i + 1)
  <2>1. h[i + 1] = Longer(V, t, h[i])
    BY <1>4
  <2>2. PICK g : g = h[i]
    OBVIOUS
  <2>3. g \in Seq(Clusters) /\ \A j \in 1 .. Len(g) : g[j] = s[j]
    BY <2>2, <1>6
  <2>4. CASE i + 1 < n
    <3>1. Len(g) = i + 1 /\ i \in Nat
      BY <2>4, <2>2, <1>6, <1>1
    <3>2. Last(g) = s[i + 1] /\ Entry(V, t, s[i + 1]) = s[i + 2] /\ s[i + 2] \in Clusters
      BY <3>1, <2>3, <2>4, <1>1 DEF Last
    <3>3. h[i + 1] = Append(g, s[i + 2])
      BY <2>1, <2>2, <3>2 DEF Longer
    <3>4. h[i + 1] \in Seq(Clusters) /\ Len(h[i + 1]) = i + 2
      BY <3>1, <3>2, <3>3, <2>3
    <3>5. ASSUME NEW j \in 1 .. i + 2 PROVE h[i + 1][j] = s[j]
      BY <3>1, <3>2, <3>3, <2>3
    <3> QED BY <3>4, <3>5, <2>4, <3>1, <1>1
  <2>5. CASE ~(i + 1 < n)
    <3>1. Len(g) = n /\ i \in Nat
      BY <2>5, <2>2, <1>6, <1>1
    <3>2. Last(g) = s[n]
      BY <3>1, <2>3, <1>1 DEF Last
    <3>3. h[i + 1] = g
      BY <2>1, <2>2, <3>2 DEF Longer
    <3> QED BY <3>1, <3>3, <2>3, <2>5, <1>1
  <2> QED BY <2>4, <2>5
<1>7. \A i \in 0 .. m : i \in S
  <2>1. \A i \in 0 .. m - 1 : i \in S => i + 1 \in S
    BY <1>6, <1>1
  <2> HIDE DEF S
  <2> QED BY <2>1, <1>1, <1>5, UpTo
<1>8. P(m)
  BY <1>1, <1>7
<1>9. Len(h[m]) = n
  <2>1. ~(m < n) \/ m + 1 = n
    BY <1>1, FatVolumeAssumption DEF m
  <2> QED BY <1>8, <1>1, <2>1
<1> QED BY <1>3, <1>8, <1>9, SeqEqual

-----------------------------------------------------------------------------
(* Sound volumes.                                                          *)

\* The clusters whose entries are in the same sector of a table as that of c.
Table(c) == {x \in Clusters : x \div PerSect = c \div PerSect}

Typed(V) ==
  /\ InfoSect \in DOMAIN V /\ DirSect \in DOMAIN V /\ DataSects \subseteq DOMAIN V
  /\ \A k \in Copies, c \in Clusters :
       FatSect(k, c) \in DOMAIN V /\ V[FatSect(k, c)] \in [Table(c) -> Int]
  /\ V[InfoSect] \in [last_used : Int, free_cnt : Int]
  /\ V[DirSect] \in [Files -> Nat]

\* The chains of the files in the tables of a volume.
Chains(V) == [k \in Copies |-> [f \in Files |-> Chain(V, k, StartClust[f])]]

ChainSets == [Copies -> [Files -> Seq(Clusters \ {Root})]]

\* In each table a file's clusters lead from the first to the last, which ends
\* the chain, and none of them is free in the active table.
Linked(V, ch) ==
  \A k \in Copies, f \in Files :
    /\ Len(ch[k][f]) >= 1 /\ ch[k][f][1] = StartClust[f]
    /\ \A i \in 1 .. Len(ch[k][f]) - 1 : Entry(V, k, ch[k][f][i]) = ch[k][f][i + 1]
    /\ Entry(V, k, ch[k][f][Len(ch[k][f])]) = EOC
    /\ \A i \in 1 .. Len(ch[k][f]) : Entry(V, 0, ch[k][f][i]) # FREE

\* No cluster is on two chains of a table, or twice on one.
Apart(ch) ==
  \A k \in Copies : \A f, g \in Files : \A i \in 1 .. Len(ch[k][f]), j \in 1 .. Len(ch[k][g]) :
    ch[k][f][i] = ch[k][g][j] => f = g /\ i = j

\* The chains of the mirror begin with those of the active table.
Ahead(ch) ==
  \A k \in Copies, f \in Files :
    /\ Len(ch[0][f]) <= Len(ch[k][f])
    /\ \A i \in 1 .. Len(ch[0][f]) : ch[k][f][i] = ch[0][f][i]

\* What the active table uses, the mirror uses.
Mirrored(V) ==
  \A k \in Copies, c \in Clusters : Entry(V, 0, c) # FREE => Entry(V, k, c) # FREE

\* The chains are long enough for the sizes in the directory.
Covered(V, ch) == \A f \in Files : V[DirSect][f] <= ClustSize * Len(ch[0][f])

\* What the FSInfo sector, or the driver, knows of V: it denies no free cluster,
\* and the cluster that a scan does not test is in use.
Counts(V, i) ==
  /\ i.last_used \in Clusters \ FreeClusters(V)
  /\ i.free_cnt \in Int /\ Cardinality(FreeClusters(V)) <= i.free_cnt

Counted(V) == Counts(V, V[InfoSect])

SoundWith(V, ch) ==
  /\ ch \in ChainSets
  /\ Typed(V) /\ Linked(V, ch) /\ Apart(ch) /\ Ahead(ch) /\ Mirrored(V)
  /\ Covered(V, ch) /\ Counted(V) /\ Entry(V, 0, Root) # FREE

\* What a volume may be like when the power fails.
Sound(V) == SoundWith(V, Chains(V))

LEMMA VolumeFacts ==
  /\ ClustCnt \in Nat /\ PerSect \in Nat \ {0} /\ SectPerClust \in Nat \ {0}
  /\ SectSize \in Nat \ {0} /\ Root \in Clusters
  /\ EOC \in Int /\ EOC \notin Clusters /\ FREE \notin Clusters /\ FREE # EOC
  /\ Clusters \subseteq Int /\ 0 \in Copies
  /\ IsFiniteSet(Clusters) /\ Cardinality(Clusters) = ClustCnt - 2
<1>1. ClustCnt \in Nat /\ ClustCnt > 3 /\ ClustCnt <= 268435447
  BY FatVolumeAssumption
<1>2. EOC \in Int /\ EOC \notin Clusters /\ FREE \notin Clusters /\ FREE # EOC
  BY <1>1 DEF EOC, FREE, Clusters
<1>3. Clusters \subseteq Int /\ 0 \in Copies
  BY <1>1 DEF Clusters, Copies
<1>4. IsFiniteSet(Clusters) /\ Cardinality(Clusters) = ClustCnt - 2
  <2>1. 2 \in Int /\ ClustCnt - 1 \in Int
    BY <1>1
  <2>2. IsFiniteSet(2 .. ClustCnt - 1)
        /\ Cardinality(2 .. ClustCnt - 1) = IF 2 > ClustCnt - 1 THEN 0 ELSE ClustCnt - 1 - 2 + 1
    BY <2>1, FS_Interval
  <2> QED BY <2>2, <1>1 DEF Clusters
<1> QED BY <1>1, <1>2, <1>3, <1>4, FatVolumeAssumption

\* A sequence of different clusters is no longer than there are clusters.
LEMMA ShortChain ==
  ASSUME NEW s \in Seq(Clusters), \A i, j \in 1 .. Len(s) : s[i] = s[j] => i = j
  PROVE  Len(s) <= ClustCnt - 2
<1>1. Len(s) \in Nat /\ s \in [1 .. Len(s) -> Clusters]
  BY LenProperties
<1>2. s \in Injection(1 .. Len(s), Clusters)
  BY <1>1 DEF Injection, IsInjective
<1>3. Cardinality(1 .. Len(s)) <= Cardinality(Clusters)
  BY <1>2, VolumeFacts, FS_Injection
<1>4. Cardinality(1 .. Len(s)) = Len(s)
  <2>1. 1 \in Int /\ Len(s) \in Int
    BY <1>1
  <2>2. Cardinality(1 .. Len(s)) = IF 1 > Len(s) THEN 0 ELSE Len(s) - 1 + 1
    BY <2>1, FS_Interval
  <2> QED BY <2>2, <1>1
<1> QED BY <1>3, <1>4, VolumeFacts

\* Linked clusters are what the walks along the tables find.
LEMMA SoundChains ==
  ASSUME NEW V, NEW ch, SoundWith(V, ch)
  PROVE  ch = Chains(V) /\ \A k \in Copies, f \in Files : Chain(V, k, StartClust[f]) = ch[k][f]
<1>1. ASSUME NEW k \in Copies, NEW f \in Files PROVE Chain(V, k, StartClust[f]) = ch[k][f]
  <2>1. PICK s : s = ch[k][f]
    OBVIOUS
  <2>2. s \in Seq(Clusters)
    BY <2>1 DEF SoundWith, ChainSets
  <2>3. Len(s) >= 1 /\ s[1] = StartClust[f] /\ Entry(V, k, s[Len(s)]) = EOC
        /\ \A i \in 1 .. Len(s) - 1 : Entry(V, k, s[i]) = s[i + 1]
    BY <2>1 DEF SoundWith, Linked
  <2>4. \A i, j \in 1 .. Len(s) : s[i] = s[j] => i = j
    BY <2>1 DEF SoundWith, Apart
  <2>5. Len(s) <= ClustCnt - 2
    BY <2>2, <2>4, ShortChain
  <2>6. Chain(V, k, s[1]) = s
    BY <2>2, <2>3, <2>5, VolumeFacts, ChainFollows
  <2> QED BY <2>1, <2>3, <2>6
<1>2. ch = [k \in Copies |-> [f \in Files |-> ch[k][f]]]
  BY DEF SoundWith, ChainSets
<1>3. Chains(V) = [k \in Copies |-> [f \in Files |-> ch[k][f]]]
  BY <1>1 DEF Chains
<1> QED BY <1>1, <1>2, <1>3

-----------------------------------------------------------------------------
(* Changes of one sector.                                                  *)

\* The volume with one entry of a table changed.
Put(V, k, c, val) == [V EXCEPT ![FatSect(k, c)] = [V[FatSect(k, c)] EXCEPT ![c] = val]]

\* W differs from V in that entry only.
Differs(V, W, k, c, val) ==
  /\ Typed(W) /\ W[InfoSect] = V[InfoSect] /\ W[DirSect] = V[DirSect]
  /\ Entry(W, k, c) = val
  /\ \A j \in Copies, x \in Clusters : ~(j = k /\ x = c) => Entry(W, j, x) = Entry(V, j, x)

LEMMA EntryPut ==
  ASSUME NEW V, Typed(V), NEW k \in Copies, NEW c \in Clusters, NEW val \in Int,
         NEW W, W = Put(V, k, c, val)
  PROVE  Differs(V, W, k, c, val)
<1>1. W = Put(V, k, c, val)
  OBVIOUS
<1>2. PICK new : new = [V[FatSect(k, c)] EXCEPT ![c] = val]
  OBVIOUS
<1>3. W = [V EXCEPT ![FatSect(k, c)] = new]
  BY ONLY <1>1, <1>2 DEF Put
<1>4. c \in Table(c)
  BY DEF Table
<1>5. V[FatSect(k, c)] \in [Table(c) -> Int] /\ FatSect(k, c) \in DOMAIN V
  BY DEF Typed
<1>6. new \in [Table(c) -> Int] /\ new[c] = val
      /\ \A x \in Table(c) : x # c => new[x] = V[FatSect(k, c)][x]
  BY ONLY <1>2, <1>4, <1>5, val \in Int
<1>7. DOMAIN W = DOMAIN V /\ W[FatSect(k, c)] = new
      /\ \A s \in DOMAIN V : s # FatSect(k, c) => W[s] = V[s]
  BY ONLY <1>3, <1>5
<1>8. InfoSect # FatSect(k, c) /\ DirSect # FatSect(k, c)
  BY DEF InfoSect, DirSect, FatSect
<1>9. W[InfoSect] = V[InfoSect] /\ W[DirSect] = V[DirSect]
  BY <1>7, <1>8 DEF Typed
<1>10. ASSUME NEW j \in Copies, NEW x \in Clusters
       PROVE  /\ FatSect(j, x) \in DOMAIN W /\ W[FatSect(j, x)] \in [Table(x) -> Int]
              /\ W[FatSect(j, x)][x] = IF j = k /\ x = c THEN val ELSE V[FatSect(j, x)][x]
  <2>1. FatSect(j, x) \in DOMAIN V /\ V[FatSect(j, x)] \in [Table(x) -> Int]
    BY DEF Typed
  <2>2. CASE FatSect(j, x) = FatSect(k, c)
    <3>1. j = k /\ x \div PerSect = c \div PerSect
      BY <2>2 DEF FatSect
    <3>2. Table(x) = Table(c) /\ x \in Table(c)
      BY <3>1 DEF Table
    <3> QED BY ONLY <2>1, <2>2, <3>1, <3>2, <1>6, <1>7
  <2>3. CASE FatSect(j, x) # FatSect(k, c)
    <3>1. ~(j = k /\ x = c)
      BY <2>3
    <3> QED BY ONLY <2>1, <2>3, <3>1, <1>7
  <2> QED BY <2>2, <2>3
<1>11. Typed(W)
  BY <1>7, <1>9, <1>10, Typed(V) DEF Typed
<1> QED BY <1>9, <1>10, <1>11 DEF Entry, Differs

\* Volumes with the same tables.
SameTables(V, W) ==
  DOMAIN W = DOMAIN V /\ \A k \in Copies, c \in Clusters : FatSect(k, c) \in DOMAIN W /\ W[FatSect(k, c)] = V[FatSect(k, c)]

LEMMA TablesKept ==
  ASSUME NEW V, NEW W, SameTables(V, W), NEW ch, SoundWith(V, ch),
         InfoSect \in DOMAIN W, DirSect \in DOMAIN W,
         W[InfoSect] \in [last_used : Int, free_cnt : Int], W[DirSect] \in [Files -> Nat],
         Counts(V, W[InfoSect]),
         \A f \in Files : W[DirSect][f] <= ClustSize * Len(ch[0][f])
  PROVE  SoundWith(W, ch) /\ FreeClusters(W) = FreeClusters(V)
<1>1. \A k \in Copies, c \in Clusters : Entry(W, k, c) = Entry(V, k, c)
  BY DEF SameTables, Entry
<1>2. FreeClusters(W) = FreeClusters(V)
  BY <1>1, VolumeFacts DEF FreeClusters, IsFree, get_fat, Entry
<1>3. Typed(W)
  <2>1. Typed(V)
    BY DEF SoundWith
  <2> QED BY <2>1 DEF SameTables, Typed
<1>4. \A k \in Copies, f \in Files : ch[k][f] \in Seq(Clusters \ {Root})
  BY DEF SoundWith, ChainSets
<1>5. Linked(W, ch)
  <2>1. ASSUME NEW k \in Copies, NEW f \in Files, NEW i \in 1 .. Len(ch[k][f])
        PROVE  Entry(W, k, ch[k][f][i]) = Entry(V, k, ch[k][f][i])
               /\ Entry(W, 0, ch[k][f][i]) = Entry(V, 0, ch[k][f][i])
    <3>1. ch[k][f][i] \in Clusters
      BY <1>4
    <3> QED BY <3>1, <1>1, VolumeFacts
  <2>2. \A k \in Copies, f \in Files : Len(ch[k][f]) \in Nat
    BY <1>4
  <2>3. Linked(V, ch)
    BY DEF SoundWith
  <2> QED BY ONLY <2>1, <2>2, <2>3 DEF Linked
<1>6. Mirrored(W) /\ Entry(W, 0, Root) # FREE
  BY <1>1, VolumeFacts DEF SoundWith, Mirrored
<1>7. Covered(W, ch) /\ Counted(W)
  BY <1>2 DEF Covered, Counted, Counts
<1> QED BY <1>2, <1>3, <1>5, <1>6, <1>7 DEF SoundWith

\* A smaller set of free clusters is counted as well.
LEMMA FewerFree ==
  ASSUME NEW V, NEW W, FreeClusters(W) \subseteq FreeClusters(V)
  PROVE  /\ IsFiniteSet(FreeClusters(V)) /\ Cardinality(FreeClusters(V)) \in Nat
         /\ Cardinality(FreeClusters(W)) \in Nat
         /\ Cardinality(FreeClusters(W)) <= Cardinality(FreeClusters(V))
<1>1. FreeClusters(V) \subseteq Clusters
  BY DEF FreeClusters
<1>2. IsFiniteSet(FreeClusters(V))
  BY <1>1, VolumeFacts, FS_Subset
<1> QED BY <1>2, FS_Subset, FS_CardinalityType

LEMMA FewerCounted ==
  ASSUME NEW V, NEW W, FreeClusters(W) \subseteq FreeClusters(V), NEW i, Counts(V, i)
  PROVE  Counts(W, i)
<1>1. Cardinality(FreeClusters(W)) \in Nat /\ Cardinality(FreeClusters(V)) \in Nat
      /\ Cardinality(FreeClusters(W)) <= Cardinality(FreeClusters(V))
  BY FewerFree
<1> QED BY <1>1 DEF Counts

\* A cluster that is free in the active table is on no chain.
LEMMA FreeOffChain ==
  ASSUME NEW V, NEW ch, SoundWith(V, ch), NEW c, Entry(V, 0, c) = FREE
  PROVE  \A k \in Copies, f \in Files : \A i \in 1 .. Len(ch[k][f]) : ch[k][f][i] # c
BY DEF SoundWith, Linked

\* It may be made the end of a chain, in the mirror first.
LEMMA EndsNew ==
  ASSUME NEW V, NEW ch, SoundWith(V, ch), NEW c \in Clusters, Entry(V, 0, c) = FREE,
         NEW k \in Copies, k = 0 => \A j \in Copies \ {0} : Entry(V, j, c) # FREE
  PROVE  /\ SoundWith(Put(V, k, c, EOC), ch)
         /\ FreeClusters(Put(V, k, c, EOC)) = IF k = 0 THEN FreeClusters(V) \ {c}
                                              ELSE FreeClusters(V)
<1>1. PICK W : W = Put(V, k, c, EOC)
  OBVIOUS
<1>2. /\ Typed(W) /\ W[InfoSect] = V[InfoSect] /\ W[DirSect] = V[DirSect]
      /\ \A j \in Copies, x \in Clusters :
           Entry(W, j, x) = IF j = k /\ x = c THEN EOC ELSE Entry(V, j, x)
  <2>1. Typed(V) /\ EOC \in Int
    BY VolumeFacts DEF SoundWith
  <2>2. Differs(V, W, k, c, EOC)
    BY <2>1, <1>1, EntryPut
  <2> QED BY ONLY <2>2 DEF Differs
<1>3. FreeClusters(W) = IF k = 0 THEN FreeClusters(V) \ {c} ELSE FreeClusters(V)
  BY <1>2, VolumeFacts DEF FreeClusters, IsFree, get_fat, Entry
<1>4. \A j \in Copies, f \in Files : ch[j][f] \in Seq(Clusters \ {Root}) /\ Len(ch[j][f]) \in Nat
  BY DEF SoundWith, ChainSets
<1>5. Linked(W, ch)
  <2>1. ASSUME NEW j \in Copies, NEW f \in Files, NEW i \in 1 .. Len(ch[j][f])
        PROVE  Entry(W, j, ch[j][f][i]) = Entry(V, j, ch[j][f][i])
               /\ Entry(W, 0, ch[j][f][i]) = Entry(V, 0, ch[j][f][i])
    <3>1. ch[j][f][i] \in Clusters /\ ch[j][f][i] # c
      BY <1>4, FreeOffChain
    <3> QED BY <3>1, <1>2, VolumeFacts
  <2>2. Linked(V, ch)
    BY DEF SoundWith
  <2> QED BY ONLY <2>1, <2>2, <1>4 DEF Linked
<1>6. Mirrored(W)
  BY <1>2, VolumeFacts DEF Mirrored, SoundWith
<1>7. Root # c /\ Entry(W, 0, Root) # FREE
  BY <1>2, VolumeFacts DEF SoundWith
<1>8. Covered(W, ch)
  BY <1>2 DEF Covered, SoundWith
<1>9. Counted(W)
  <2>1. FreeClusters(W) \subseteq FreeClusters(V)
    BY <1>3
  <2>2. Counts(V, W[InfoSect])
    BY <1>2 DEF SoundWith, Counted
  <2> QED BY <2>1, <2>2, FewerCounted DEF Counted
<1> QED BY <1>1, <1>2, <1>3, <1>5, <1>6, <1>7, <1>8, <1>9 DEF SoundWith

LEMMA TimesMono ==
  ASSUME NEW n \in Nat, NEW a \in Nat, NEW b \in Nat, a <= b
  PROVE  n * a <= n * b
<1>1. PICK d \in Nat : b = a + d
  <2>1. b - a \in Nat /\ b = a + (b - a)
    OBVIOUS
  <2> QED BY <2>1
<1>2. n * b = n * a + n * d /\ n * a \in Nat /\ n * d \in Nat
  BY <1>1
<1> QED BY <1>2

\* Chains in which the file f continues behind the active table's last cluster
\* with c, in table k.
Stretched(ch, k, f, c) == [ch EXCEPT ![k] = [ch[k] EXCEPT ![f] = Append(ch[0][f], c)]]

LEMMA StretchedChains ==
  ASSUME NEW ch \in ChainSets, NEW k \in Copies, NEW f \in Files, NEW c \in Clusters \ {Root},
         NEW ch2, ch2 = Stretched(ch, k, f, c)
  PROVE  /\ ch2 \in ChainSets
         /\ ch2[k][f] = Append(ch[0][f], c)
         /\ Len(ch2[k][f]) = Len(ch[0][f]) + 1 /\ Len(ch[0][f]) \in Nat
         /\ ch2[k][f][Len(ch[0][f]) + 1] = c
         /\ \A i \in 1 .. Len(ch[0][f]) : ch2[k][f][i] = ch[0][f][i]
         /\ \A j \in Copies, g \in Files : ~(j = k /\ g = f) => ch2[j][g] = ch[j][g]
<1>1. PICK s : s = ch[0][f]
  OBVIOUS
<1>2. s \in Seq(Clusters \ {Root})
  BY <1>1, VolumeFacts DEF ChainSets
<1>3. PICK t : t = Append(s, c)
  OBVIOUS
<1>4. t \in Seq(Clusters \ {Root}) /\ Len(t) = Len(s) + 1 /\ Len(s) \in Nat
      /\ t[Len(s) + 1] = c /\ \A i \in 1 .. Len(s) : t[i] = s[i]
  BY <1>2, <1>3, AppendProperties
<1>5. ch[k] \in [Files -> Seq(Clusters \ {Root})]
  BY DEF ChainSets
<1>6. PICK u : u = [ch[k] EXCEPT ![f] = t]
  OBVIOUS
<1>7. u \in [Files -> Seq(Clusters \ {Root})] /\ u[f] = t
      /\ \A g \in Files : g # f => u[g] = ch[k][g]
  BY ONLY <1>4, <1>5, <1>6, f \in Files
<1>8. ch2 = [ch EXCEPT ![k] = u]
  BY ONLY <1>1, <1>3, <1>6, ch2 = Stretched(ch, k, f, c) DEF Stretched
<1>9. ch2 \in ChainSets /\ ch2[k] = u /\ \A j \in Copies : j # k => ch2[j] = ch[j]
  BY ONLY <1>7, <1>8, ch \in ChainSets, k \in Copies DEF ChainSets
<1>10. ch2[k][f] = t
  BY <1>7, <1>9
<1>11. \A j \in Copies, g \in Files : ~(j = k /\ g = f) => ch2[j][g] = ch[j][g]
  BY ONLY <1>7, <1>9
<1> QED BY ONLY <1>1, <1>3, <1>4, <1>9, <1>10, <1>11

\* The end of a chain may be linked to a cluster that ends a chain and is on
\* none, in the mirror first.
LEMMA LinksNew ==
  ASSUME NEW V, NEW ch, SoundWith(V, ch), NEW f \in Files, NEW p, p = ch[0][f][Len(ch[0][f])],
         NEW c \in Clusters \ {Root}, \A j \in Copies : Entry(V, j, c) = EOC,
         NEW k \in Copies,
         \A g \in Files : \A i \in 1 .. Len(ch[k][g]) : ch[k][g][i] # c,
         k = 0 => \A j \in Copies \ {0} : ch[j][f] = Append(ch[0][f], c),
         NEW ch2, ch2 = Stretched(ch, k, f, c), NEW W, W = Put(V, k, p, c)
  PROVE  SoundWith(W, ch2) /\ FreeClusters(W) = FreeClusters(V)
<1> DEFINE n == Len(ch[0][f])
<1>1. ch \in ChainSets /\ Typed(V) /\ Linked(V, ch) /\ Apart(ch) /\ Ahead(ch) /\ Mirrored(V)
      /\ Covered(V, ch) /\ Counted(V) /\ Entry(V, 0, Root) # FREE
  BY DEF SoundWith
<1>2. n \in Nat /\ n >= 1 /\ \A i \in 1 .. n : ch[0][f][i] \in Clusters \ {Root}
  <2>1. ch[0][f] \in Seq(Clusters \ {Root})
    BY <1>1, VolumeFacts DEF ChainSets
  <2> QED BY <2>1, <1>1, VolumeFacts DEF Linked
<1>3. p \in Clusters \ {Root} /\ Entry(V, 0, p) = EOC /\ p = ch[0][f][n]
  BY <1>1, <1>2, VolumeFacts DEF Linked
<1>4. /\ ch2 \in ChainSets /\ ch2[k][f] = Append(ch[0][f], c)
      /\ Len(ch2[k][f]) = n + 1 /\ ch2[k][f][n + 1] = c
      /\ \A i \in 1 .. n : ch2[k][f][i] = ch[0][f][i]
      /\ \A j \in Copies, g \in Files : ~(j = k /\ g = f) => ch2[j][g] = ch[j][g]
  <2>1. ch \in ChainSets
    BY <1>1
  <2> QED BY <2>1, StretchedChains
<1>5. Differs(V, W, k, p, c)
  <2>1. c \in Int
    BY VolumeFacts
  <2> QED BY <2>1, <1>1, <1>3, EntryPut
<1>6. Typed(W) /\ W[InfoSect] = V[InfoSect] /\ W[DirSect] = V[DirSect] /\ Entry(W, k, p) = c
      /\ \A j \in Copies, x \in Clusters : ~(j = k /\ x = p) => Entry(W, j, x) = Entry(V, j, x)
  BY ONLY <1>5 DEF Differs
<1>7. c # FREE /\ c # p
  <2>1. ch[k][f][n] = p /\ n \in 1 .. Len(ch[k][f])
    <3>1. Len(ch[k][f]) \in Nat
      BY <1>1 DEF ChainSets
    <3> QED BY <3>1, <1>1, <1>2, <1>3 DEF Ahead
  <2> QED BY <2>1, VolumeFacts
<1>8. \A x \in Clusters : Entry(W, 0, x) = FREE <=> Entry(V, 0, x) = FREE
  BY <1>3, <1>6, <1>7, VolumeFacts
<1>9. FreeClusters(W) = FreeClusters(V)
  BY <1>8 DEF FreeClusters, IsFree, get_fat, Entry
<1> HIDE DEF n
<1>10. \A j \in Copies, g \in Files :
         /\ ch[j][g] \in Seq(Clusters \ {Root}) /\ Len(ch[j][g]) \in Nat
         /\ \A i \in 1 .. Len(ch[j][g]) : ch[j][g][i] \in Clusters
  BY <1>1 DEF ChainSets
<1>11. n <= Len(ch[k][f]) /\ \A i \in 1 .. n : ch[k][f][i] = ch[0][f][i]
  BY <1>1 DEF Ahead, n
<1>12. Linked(W, ch2)
  <2>1. ASSUME NEW j \in Copies, NEW g \in Files, ~(j = k /\ g = f),
               NEW i \in 1 .. Len(ch[j][g])
        PROVE  Entry(W, j, ch[j][g][i]) = Entry(V, j, ch[j][g][i])
    <3>1. CASE j = k
      <4>1. g # f /\ n \in 1 .. Len(ch[k][f]) /\ ch[k][f][n] = p
        BY <3>1, <2>1, <1>2, <1>3, <1>10, <1>11
      <4>2. ch[j][g][i] # p
        BY <4>1, <3>1, <1>1 DEF Apart
      <4> QED BY <4>2, <1>6, <1>10
    <3>2. CASE j # k
      BY <3>2, <1>6, <1>10
    <3> QED BY <3>1, <3>2
  <2>2. ASSUME NEW j \in Copies, NEW g \in Files, NEW i \in 1 .. Len(ch[j][g])
        PROVE  Entry(W, 0, ch[j][g][i]) # FREE
    BY <1>1, <1>8, <1>10 DEF Linked
  <2>3. ASSUME NEW j \in Copies, NEW g \in Files, ~(j = k /\ g = f)
        PROVE  /\ Len(ch2[j][g]) >= 1 /\ ch2[j][g][1] = StartClust[g]
               /\ \A i \in 1 .. Len(ch2[j][g]) - 1 : Entry(W, j, ch2[j][g][i]) = ch2[j][g][i + 1]
               /\ Entry(W, j, ch2[j][g][Len(ch2[j][g])]) = EOC
               /\ \A i \in 1 .. Len(ch2[j][g]) : Entry(W, 0, ch2[j][g][i]) # FREE
    <3>1. ch2[j][g] = ch[j][g]
      BY <1>4, <2>3
    <3>2. PICK s : s = ch[j][g]
      OBVIOUS
    <3>3. Len(s) \in Nat /\ \A i \in 1 .. Len(s) : Entry(W, j, s[i]) = Entry(V, j, s[i])
      BY <3>2, <2>1, <2>3, <1>10
    <3>4. /\ Len(s) >= 1 /\ s[1] = StartClust[g]
          /\ \A i \in 1 .. Len(s) - 1 : Entry(V, j, s[i]) = s[i + 1]
          /\ Entry(V, j, s[Len(s)]) = EOC
      BY <3>2, <1>1 DEF Linked
    <3>5. \A i \in 1 .. Len(s) : Entry(W, 0, s[i]) # FREE
      BY <3>2, <2>2
    <3> QED BY ONLY <3>1, <3>2, <3>3, <3>4, <3>5
  <2>4. PICK t : t = ch2[k][f]
    OBVIOUS
  <2>5. Len(t) = n + 1 /\ t[n + 1] = c /\ \A i \in 1 .. n : t[i] = ch[0][f][i]
    BY <1>4, <2>4 DEF n
  <2>6. t[1] = StartClust[f] /\ t[n] = p
    BY <2>5, <1>1, <1>2, <1>3, VolumeFacts DEF Linked
  <2>7. ASSUME NEW i \in 1 .. n - 1 PROVE Entry(W, k, t[i]) = t[i + 1]
    <3>1. i \in 1 .. n /\ i + 1 \in 1 .. n /\ i # n /\ i \in 1 .. Len(ch[k][f]) - 1
          /\ i \in 1 .. Len(ch[k][f]) /\ n \in 1 .. Len(ch[k][f])
      BY <1>2, <1>10, <1>11
    <3>2. t[i] = ch[k][f][i] /\ t[i + 1] = ch[k][f][i + 1] /\ ch[k][f][n] = p
      <4>1. n \in 1 .. n
        BY ONLY <1>2
      <4> QED BY ONLY <4>1, <3>1, <2>5, <1>3, <1>11
    <3>3. Entry(V, k, t[i]) = t[i + 1]
      BY <3>1, <3>2, <1>1 DEF Linked
    <3>4. t[i] # p
      BY <3>1, <3>2, <1>1 DEF Apart
    <3>5. t[i] \in Clusters
      BY <3>1, <3>2, <1>10
    <3> QED BY <3>3, <3>4, <3>5, <1>6
  <2>8. Entry(W, k, t[n]) = t[n + 1] /\ Entry(W, k, t[n + 1]) = EOC
    BY <2>5, <2>6, <1>6, <1>7
  <2>9. ASSUME NEW i \in 1 .. n + 1 PROVE Entry(W, 0, t[i]) # FREE
    <3>1. CASE i \in 1 .. n
      <4>1. t[i] = ch[0][f][i]
        BY <3>1, <2>5
      <4> QED BY <4>1, <3>1, <2>2, VolumeFacts DEF n
    <3>2. CASE i = n + 1
      <4>1. Entry(V, 0, c) = EOC
        BY VolumeFacts
      <4> QED BY <4>1, <3>2, <2>5, <1>8, VolumeFacts
    <3> QED BY <3>1, <3>2, <1>2
  <2>10. /\ Len(t) >= 1 /\ t[1] = StartClust[f]
         /\ \A i \in 1 .. Len(t) - 1 : Entry(W, k, t[i]) = t[i + 1]
         /\ Entry(W, k, t[Len(t)]) = EOC
         /\ \A i \in 1 .. Len(t) : Entry(W, 0, t[i]) # FREE
    BY ONLY <2>5, <2>6, <2>7, <2>8, <2>9, <1>2
  <2> QED BY ONLY <2>3, <2>4, <2>10 DEF Linked
<1>13. Apart(ch2)
  <2>1. ASSUME NEW j \in Copies, NEW g \in Files, NEW i \in 1 .. Len(ch2[j][g])
        PROVE  \/ /\ ch2[j][g][i] = ch[j][g][i] /\ i \in 1 .. Len(ch[j][g])
               \/ /\ ch2[j][g][i] = c /\ j = k /\ g = f /\ i = n + 1
    <3>1. CASE j = k /\ g = f
      BY <3>1, <1>2, <1>4, <1>10, <1>11 DEF n
    <3>2. CASE ~(j = k /\ g = f)
      BY <3>2, <1>4
    <3> QED BY <3>1, <3>2
  <2>2. ASSUME NEW j \in Copies, NEW g \in Files, NEW h \in Files,
               NEW i \in 1 .. Len(ch2[j][g]), NEW m \in 1 .. Len(ch2[j][h]),
               ch2[j][g][i] = ch2[j][h][m]
        PROVE  g = h /\ i = m
    <3>1. CASE ch2[j][g][i] = ch[j][g][i] /\ i \in 1 .. Len(ch[j][g])
               /\ ch2[j][h][m] = ch[j][h][m] /\ m \in 1 .. Len(ch[j][h])
      <4>1. ch[j][g][i] = ch[j][h][m]
        BY ONLY <3>1, <2>2
      <4>2. Apart(ch)
        BY <1>1
      <4> QED BY ONLY <4>1, <4>2, <3>1, j \in Copies, g \in Files, h \in Files DEF Apart
    <3>2. CASE j = k /\ g = f /\ i = n + 1 /\ ch2[j][g][i] = c
      <4>1. ~(ch2[j][h][m] = ch[j][h][m] /\ m \in 1 .. Len(ch[j][h]))
        BY <3>2, <2>2
      <4> QED BY <4>1, <2>1, <3>2
    <3>3. CASE j = k /\ h = f /\ m = n + 1 /\ ch2[j][h][m] = c
      <4>1. ~(ch2[j][g][i] = ch[j][g][i] /\ i \in 1 .. Len(ch[j][g]))
        BY <3>3, <2>2
      <4> QED BY <4>1, <2>1, <3>3
    <3> QED BY <3>1, <3>2, <3>3, <2>1
  <2> QED BY ONLY <2>2 DEF Apart
<1>14. Ahead(ch2)
  <2>1. ASSUME NEW j \in Copies, NEW g \in Files
        PROVE  /\ Len(ch2[0][g]) <= Len(ch2[j][g])
               /\ \A i \in 1 .. Len(ch2[0][g]) : ch2[j][g][i] = ch2[0][g][i]
    <3>1. CASE g # f
      <4>1. ch2[j][g] = ch[j][g] /\ ch2[0][g] = ch[0][g]
        BY <3>1, <1>4, VolumeFacts
      <4> QED BY <4>1, <1>1 DEF Ahead
    <3>2. CASE g = f /\ k # 0
      <4>1. ch2[0][f] = ch[0][f]
        BY <3>2, <1>4, VolumeFacts
      <4>2. CASE j = k
        BY <4>1, <4>2, <3>2, <1>2, <1>4 DEF n
      <4>3. CASE j # k
        <5>1. ch2[j][f] = ch[j][f]
          BY <4>3, <1>4
        <5>2. Ahead(ch)
          BY <1>1
        <5>3. Len(ch[0][f]) <= Len(ch[j][f])
              /\ \A i \in 1 .. Len(ch[0][f]) : ch[j][f][i] = ch[0][f][i]
          BY ONLY <5>2, j \in Copies, f \in Files DEF Ahead
        <5>4. g = f
          BY <3>2
        <5> QED BY ONLY <4>1, <5>1, <5>3, <5>4
      <4> QED BY <4>2, <4>3
    <3>3. CASE g = f /\ k = 0
      <4>1. CASE j = 0
        <5>1. Len(ch2[0][f]) \in Nat
          BY <3>3, <1>2, <1>4
        <5> QED BY <4>1, <3>3, <5>1
      <4>2. CASE j # 0
        <5>1. ch2[j][f] = ch[j][f] /\ ch[j][f] = Append(ch[0][f], c) /\ ch2[0][f] = Append(ch[0][f], c)
          BY <4>2, <3>3, <1>4
        <5>2. Len(ch2[0][f]) \in Nat
          BY <3>3, <1>2, <1>4
        <5> QED BY <5>1, <5>2, <3>3
      <4> QED BY <4>1, <4>2
    <3> QED BY <3>1, <3>2, <3>3
  <2> QED BY ONLY <2>1 DEF Ahead
<1>15. Mirrored(W)
  <2>1. ASSUME NEW j \in Copies, NEW x \in Clusters, Entry(W, 0, x) # FREE
        PROVE  Entry(W, j, x) # FREE
    <3>1. Entry(V, j, x) # FREE
      BY <2>1, <1>1, <1>8 DEF Mirrored
    <3> QED BY <3>1, <1>6, <1>7
  <2> QED BY <2>1 DEF Mirrored
<1>16. Covered(W, ch2)
  <2>1. ASSUME NEW g \in Files PROVE Len(ch[0][g]) <= Len(ch2[0][g]) /\ Len(ch2[0][g]) \in Nat
    <3>1. CASE g = f /\ k = 0
      BY <3>1, <1>2, <1>4 DEF n
    <3>2. CASE ~(g = f /\ k = 0)
      <4>1. ch2[0][g] = ch[0][g]
        BY <3>2, <1>4, VolumeFacts
      <4>2. Len(ch[0][g]) \in Nat
        BY <1>10, VolumeFacts
      <4> QED BY <4>1, <4>2
    <3> QED BY <3>1, <3>2
  <2>2. ASSUME NEW g \in Files PROVE W[DirSect][g] <= ClustSize * Len(ch2[0][g])
    <3>1. PICK a \in Nat : a = Len(ch[0][g])
      BY <1>10, VolumeFacts
    <3>2. PICK b \in Nat : b = Len(ch2[0][g])
      BY <2>1
    <3>3. a <= b
      BY <3>1, <3>2, <2>1
    <3>4. PICK d \in Nat : d = W[DirSect][g] /\ d = V[DirSect][g]
      BY <1>1, <1>6 DEF Typed
    <3>5. d <= ClustSize * a
      BY <3>1, <3>4, <1>1 DEF Covered
    <3>6. ClustSize \in Nat
      BY VolumeFacts DEF ClustSize
    <3>7. ClustSize * a <= ClustSize * b
      BY <3>3, <3>6, TimesMono
    <3>8. ClustSize * a \in Int /\ ClustSize * b \in Int
      BY <3>6
    <3> QED BY ONLY <3>2, <3>4, <3>5, <3>7, <3>8, d \in Nat
  <2> QED BY <2>2 DEF Covered
<1>17. Counted(W)
  BY <1>1, <1>6, <1>9 DEF Counted, Counts
<1>18. Entry(W, 0, Root) # FREE
  BY <1>1, <1>8, VolumeFacts
<1> QED BY <1>4, <1>6, <1>9, <1>12, <1>13, <1>14, <1>15, <1>16, <1>17, <1>18 DEF SoundWith

\* The active chain of f has c behind it, the others are as they were.
Grew(ch, ch2, f, c) ==
  ch2[0][f] = Append(ch[0][f], c) /\ \A g \in Files : g # f => ch2[0][g] = ch[0][g]

\* What an entry is in a volume with an entry changed.
LEMMA PutEntry ==
  ASSUME NEW V, NEW ch, SoundWith(V, ch), NEW k \in Copies, NEW c \in Clusters, NEW val \in Int,
         NEW j \in Copies, NEW x \in Clusters
  PROVE  /\ j = k /\ x = c => Entry(Put(V, k, c, val), j, x) = val
         /\ ~(j = k /\ x = c) => Entry(Put(V, k, c, val), j, x) = Entry(V, j, x)
<1>1. PICK W : W = Put(V, k, c, val)
  OBVIOUS
<1>2. Differs(V, W, k, c, val)
  BY <1>1, EntryPut DEF SoundWith
<1> QED BY <1>1, <1>2 DEF Differs

\* The last cluster of a chain.
LEMMA LastCluster ==
  ASSUME NEW V, NEW ch, SoundWith(V, ch), NEW f \in Files
  PROVE  /\ Len(ch[0][f]) \in Nat \ {0} /\ ch[0][f] \in Seq(Clusters \ {Root})
         /\ ch[0][f][Len(ch[0][f])] \in Clusters \ {Root}
         /\ Entry(V, 0, ch[0][f][Len(ch[0][f])]) = EOC
<1>1. ch[0][f] \in Seq(Clusters \ {Root})
  BY VolumeFacts DEF SoundWith, ChainSets
<1>2. Len(ch[0][f]) >= 1 /\ Entry(V, 0, ch[0][f][Len(ch[0][f])]) = EOC
  BY VolumeFacts DEF SoundWith, Linked
<1>3. Len(ch[0][f]) \in Nat \ {0}
  BY <1>1, <1>2
<1>4. ch[0][f][Len(ch[0][f])] \in Clusters \ {Root}
  BY <1>1, <1>3
<1> QED BY <1>1, <1>2, <1>3, <1>4

\* With a mirror, the volume is sound behind each of the four entries that
\* stretch_chain puts.
LEMMA FourPuts ==
  ASSUME Mirror, NEW V, NEW ch, SoundWith(V, ch), NEW f \in Files,
         NEW p, p = ch[0][f][Len(ch[0][f])], NEW c \in Clusters, Entry(V, 0, c) = FREE,
         NEW V1, V1 = Put(V, 1, c, EOC), NEW V2, V2 = Put(V1, 0, c, EOC),
         NEW V3, V3 = Put(V2, 1, p, c), NEW V4, V4 = Put(V3, 0, p, c)
  PROVE  \E ch3, ch4 : /\ SoundWith(V1, ch) /\ SoundWith(V2, ch)
                       /\ SoundWith(V3, ch3) /\ SoundWith(V4, ch4)
                       /\ Grew(ch, ch4, f, c)
                       /\ FreeClusters(V4) = FreeClusters(V) \ {c}
<1>1. Copies = {0, 1} /\ 0 \in Copies /\ 1 \in Copies /\ 0 # 1
  BY DEF Copies
<1>2. p \in Clusters \ {Root} /\ Entry(V, 0, p) = EOC
  BY LastCluster
<1>3. c # p /\ c # Root /\ EOC \in Int /\ c \in Int /\ EOC # FREE
  BY <1>2, VolumeFacts DEF SoundWith
<1>4. SoundWith(V1, ch) /\ FreeClusters(V1) = FreeClusters(V)
  BY <1>1, EndsNew
<1>5. Entry(V1, 1, c) = EOC /\ Entry(V1, 0, c) = FREE
  BY <1>1, <1>3, PutEntry
<1>6. SoundWith(V2, ch) /\ FreeClusters(V2) = FreeClusters(V1) \ {c}
  <2>1. \A j \in Copies \ {0} : Entry(V1, j, c) # FREE
    BY <1>1, <1>3, <1>5
  <2> QED BY <2>1, <1>1, <1>4, <1>5, EndsNew
<1>7. Entry(V2, 1, c) = EOC /\ Entry(V2, 0, c) = EOC
  BY <1>1, <1>3, <1>4, <1>5, PutEntry
<1>8. PICK ch3 : ch3 = Stretched(ch, 1, f, c)
  OBVIOUS
<1>9. \A k \in Copies, g \in Files : \A i \in 1 .. Len(ch[k][g]) : ch[k][g][i] # c
  BY FreeOffChain
<1>10. SoundWith(V3, ch3) /\ FreeClusters(V3) = FreeClusters(V2)
  <2>1. \A j \in Copies : Entry(V2, j, c) = EOC
    BY <1>1, <1>7
  <2>2. \A g \in Files : \A i \in 1 .. Len(ch[1][g]) : ch[1][g][i] # c
    BY <1>1, <1>9
  <2>3. 1 = 0 => \A j \in Copies \ {0} : ch[j][f] = Append(ch[0][f], c)
    OBVIOUS
  <2>4. c \in Clusters \ {Root}
    BY <1>3
  <2> QED BY <2>1, <2>2, <2>3, <2>4, <1>1, <1>6, <1>8, LinksNew
<1>11. Entry(V3, 1, c) = EOC /\ Entry(V3, 0, c) = EOC
  BY <1>1, <1>2, <1>3, <1>6, <1>7, PutEntry
<1>12. ch3[1][f] = Append(ch[0][f], c) /\ \A g \in Files : ch3[0][g] = ch[0][g]
  <2>1. ch \in ChainSets /\ c \in Clusters \ {Root}
    BY <1>3 DEF SoundWith
  <2> QED BY <2>1, <1>1, <1>8, StretchedChains
<1>13. PICK ch4 : ch4 = Stretched(ch3, 0, f, c)
  OBVIOUS
<1>14. SoundWith(V4, ch4) /\ FreeClusters(V4) = FreeClusters(V3)
  <2>1. \A j \in Copies : Entry(V3, j, c) = EOC
    BY <1>1, <1>11
  <2>2. \A g \in Files : \A i \in 1 .. Len(ch3[0][g]) : ch3[0][g][i] # c
    BY <1>1, <1>9, <1>12
  <2>3. \A j \in Copies \ {0} : ch3[j][f] = Append(ch3[0][f], c)
    BY <1>1, <1>12
  <2>4. c \in Clusters \ {Root} /\ p = ch3[0][f][Len(ch3[0][f])]
    BY <1>3, <1>12
  <2> QED BY <2>1, <2>2, <2>3, <2>4, <1>1, <1>10, <1>13, LinksNew
<1>15. Grew(ch, ch4, f, c)
  <2>1. ch3 \in ChainSets /\ c \in Clusters \ {Root}
    BY <1>3, <1>10 DEF SoundWith
  <2>2. ch4[0][f] = Append(ch3[0][f], c) /\ \A g \in Files : g # f => ch4[0][g] = ch3[0][g]
    BY <2>1, <1>1, <1>13, StretchedChains
  <2> QED BY <2>2, <1>12 DEF Grew
<1>16. FreeClusters(V4) = FreeClusters(V) \ {c}
  BY <1>4, <1>6, <1>10, <1>14
<1> QED BY <1>4, <1>6, <1>10, <1>14, <1>15, <1>16

\* Without one, behind each of two.
LEMMA TwoPuts ==
  ASSUME ~Mirror, NEW V, NEW ch, SoundWith(V, ch), NEW f \in Files,
         NEW p, p = ch[0][f][Len(ch[0][f])], NEW c \in Clusters, Entry(V, 0, c) = FREE,
         NEW V1, V1 = Put(V, 0, c, EOC), NEW V2, V2 = Put(V1, 0, p, c)
  PROVE  \E ch2 : /\ SoundWith(V1, ch) /\ SoundWith(V2, ch2) /\ Grew(ch, ch2, f, c)
                  /\ FreeClusters(V2) = FreeClusters(V) \ {c}
<1>1. Copies = {0} /\ 0 \in Copies
  BY DEF Copies
<1>2. p \in Clusters \ {Root} /\ Entry(V, 0, p) = EOC
  BY LastCluster
<1>3. c # p /\ c # Root /\ EOC \in Int /\ c \in Int /\ EOC # FREE
  BY <1>2, VolumeFacts DEF SoundWith
<1>4. SoundWith(V1, ch) /\ FreeClusters(V1) = FreeClusters(V) \ {c}
  <2>1. \A j \in Copies \ {0} : Entry(V, j, c) # FREE
    BY <1>1
  <2> QED BY <2>1, <1>1, EndsNew
<1>5. Entry(V1, 0, c) = EOC
  BY <1>1, <1>3, PutEntry
<1>6. PICK ch2 : ch2 = Stretched(ch, 0, f, c)
  OBVIOUS
<1>7. SoundWith(V2, ch2) /\ FreeClusters(V2) = FreeClusters(V1)
  <2>1. \A j \in Copies : Entry(V1, j, c) = EOC
    BY <1>1, <1>5
  <2>2. \A g \in Files : \A i \in 1 .. Len(ch[0][g]) : ch[0][g][i] # c
    BY <1>1, FreeOffChain
  <2>3. \A j \in Copies \ {0} : ch[j][f] = Append(ch[0][f], c)
    BY <1>1
  <2>4. c \in Clusters \ {Root}
    BY <1>3
  <2> QED BY <2>1, <2>2, <2>3, <2>4, <1>1, <1>4, <1>6, LinksNew
<1>8. Grew(ch, ch2, f, c)
  <2>1. ch \in ChainSets /\ c \in Clusters \ {Root}
    BY <1>3 DEF SoundWith
  <2> QED BY <2>1, <1>1, <1>6, StretchedChains DEF Grew
<1> QED BY <1>4, <1>7, <1>8

-----------------------------------------------------------------------------
(* Sectors on their way to the disk.                                       *)

\* The sectors of log make D into V, and the volume is sound before and behind
\* each of them.
Track(D, log, V) ==
  \E S, vs :
    /\ log \in Seq(S)
    /\ vs[0] = D /\ vs[Len(log)] = V
    /\ \A i \in 1 .. Len(log) : vs[i] = [vs[i - 1] EXCEPT ![log[i].sect] = log[i].data]
    /\ \A i \in 0 .. Len(log) : Sound(vs[i])

LEMMA TrackEnds ==
  ASSUME NEW D, NEW log, NEW V, Track(D, log, V)
  PROVE  Sound(D) /\ Sound(V)
<1>1. PICK S, vs : log \in Seq(S) /\ vs[0] = D /\ vs[Len(log)] = V
                   /\ \A i \in 0 .. Len(log) : Sound(vs[i])
  BY DEF Track
<1>2. Len(log) \in Nat
  BY <1>1
<1>3. 0 \in 0 .. Len(log) /\ Len(log) \in 0 .. Len(log)
  BY <1>2
<1> QED BY ONLY <1>1, <1>3

LEMMA TrackNone ==
  ASSUME NEW V, Sound(V)
  PROVE  Track(V, <<>>, V)
<1>1. PICK vs : vs = [i \in 0 .. 0 |-> V]
  OBVIOUS
<1>2. <<>> \in Seq({}) /\ Len(<<>>) = 0
  OBVIOUS
<1>3. \A i \in 0 .. 0 : vs[i] = V
  BY <1>1
<1> QED BY <1>2, <1>3 DEF Track

\* One more sector.
LEMMA TrackMore ==
  ASSUME NEW D, NEW log, NEW V, Track(D, log, V), NEW s, NEW d, NEW W, Sound(W),
         W = [V EXCEPT ![s] = d]
  PROVE  Track(D, Append(log, [sect |-> s, data |-> d]), W)
<1>1. PICK S, vs : /\ log \in Seq(S) /\ vs[0] = D /\ vs[Len(log)] = V
                   /\ \A i \in 1 .. Len(log) :
                        vs[i] = [vs[i - 1] EXCEPT ![log[i].sect] = log[i].data]
                   /\ \A i \in 0 .. Len(log) : Sound(vs[i])
  BY DEF Track
<1>2. PICK n \in Nat : n = Len(log)
  BY <1>1
<1>3. PICK e : e = [sect |-> s, data |-> d]
  OBVIOUS
<1>4. e.sect = s /\ e.data = d
  BY ONLY <1>3
<1>5. PICK T : T = S \union {e}
  OBVIOUS
<1>6. log \in Seq(T) /\ e \in T
  BY <1>1, <1>5, SeqMonotonic
<1>7. PICK log2 : log2 = Append(log, e)
  OBVIOUS
<1>8. log2 \in Seq(T) /\ Len(log2) = n + 1 /\ log2[n + 1] = e /\ \A i \in 1 .. n : log2[i] = log[i]
  BY <1>2, <1>6, <1>7, AppendProperties
<1>9. PICK us : us = [i \in 0 .. n + 1 |-> IF i = n + 1 THEN W ELSE vs[i]]
  OBVIOUS
<1>10. us[n + 1] = W /\ \A i \in 0 .. n : us[i] = vs[i]
  BY ONLY <1>9, n \in Nat
<1>11. us[0] = D
  BY <1>1, <1>10
<1>12. ASSUME NEW i \in 1 .. n + 1
       PROVE  us[i] = [us[i - 1] EXCEPT ![log2[i].sect] = log2[i].data]
  <2>1. CASE i = n + 1
    <3>1. i - 1 = n /\ n \in 0 .. n
      BY <2>1
    <3>2. us[i - 1] = V
      BY <3>1, <1>1, <1>2, <1>10
    <3>3. log2[i].sect = s /\ log2[i].data = d /\ us[i] = W
      BY <2>1, <1>4, <1>8, <1>10
    <3> QED BY ONLY <3>2, <3>3, W = [V EXCEPT ![s] = d]
  <2>2. CASE i \in 1 .. n
    <3>1. i \in 0 .. n /\ i - 1 \in 0 .. n
      BY <2>2
    <3>2. us[i] = vs[i] /\ us[i - 1] = vs[i - 1] /\ log2[i] = log[i]
      BY <3>1, <2>2, <1>8, <1>10
    <3>3. vs[i] = [vs[i - 1] EXCEPT ![log[i].sect] = log[i].data]
      BY <2>2, <1>1, <1>2
    <3> QED BY ONLY <3>2, <3>3
  <2> QED BY <2>1, <2>2
<1>13. ASSUME NEW i \in 0 .. n + 1 PROVE Sound(us[i])
  <2>1. CASE i = n + 1
    BY <2>1, <1>10
  <2>2. CASE i \in 0 .. n
    BY <2>2, <1>1, <1>2, <1>10
  <2> QED BY <2>1, <2>2
<1>14. Track(D, log2, W)
  BY ONLY <1>8, <1>10, <1>11, <1>12, <1>13 DEF Track
<1> QED BY <1>3, <1>7, <1>14

\* The first sector reaches the disk.
LEMMA TrackLess ==
  ASSUME NEW D, NEW log, NEW V, Track(D, log, V), log # <<>>,
         NEW E, E = [D EXCEPT ![Head(log).sect] = Head(log).data]
  PROVE  Track(E, Tail(log), V)
<1>1. PICK S, vs : /\ log \in Seq(S) /\ vs[0] = D /\ vs[Len(log)] = V
                   /\ \A i \in 1 .. Len(log) :
                        vs[i] = [vs[i - 1] EXCEPT ![log[i].sect] = log[i].data]
                   /\ \A i \in 0 .. Len(log) : Sound(vs[i])
  BY DEF Track
<1>2. Len(log) \in Nat \ {0} /\ Head(log) = log[1]
  BY <1>1
<1>3. PICK n \in Nat : Len(log) = n + 1
  BY <1>2
<1>4. PICK rest : rest = Tail(log)
  OBVIOUS
<1>5. rest \in Seq(S) /\ Len(rest) = n /\ \A i \in 1 .. n : rest[i] = log[i + 1]
  BY <1>1, <1>3, <1>4, HeadTailProperties
<1>6. PICK us : us = [i \in 0 .. n |-> vs[i + 1]]
  OBVIOUS
<1>7. \A i \in 0 .. n : us[i] = vs[i + 1]
  BY ONLY <1>6
<1>8. us[0] = E
  <2>1. 1 \in 1 .. Len(log) /\ 1 - 1 = 0 /\ 0 \in 0 .. n /\ 0 + 1 = 1
    BY <1>3
  <2>2. vs[1] = [vs[0] EXCEPT ![log[1].sect] = log[1].data]
    BY ONLY <1>1, <2>1
  <2> QED BY <2>1, <2>2, <1>1, <1>2, <1>7
<1>9. us[n] = V
  BY <1>1, <1>3, <1>7
<1>10. ASSUME NEW i \in 1 .. n
       PROVE  us[i] = [us[i - 1] EXCEPT ![rest[i].sect] = rest[i].data]
  <2>1. i + 1 \in 1 .. Len(log) /\ i + 1 - 1 = i /\ i \in 0 .. n /\ i - 1 \in 0 .. n /\ i - 1 + 1 = i
    BY <1>3
  <2>2. us[i] = vs[i + 1] /\ us[i - 1] = vs[i] /\ rest[i] = log[i + 1]
    BY <2>1, <1>5, <1>7
  <2>3. vs[i + 1] = [vs[i] EXCEPT ![log[i + 1].sect] = log[i + 1].data]
    <3>1. PICK j : j = i + 1
      OBVIOUS
    <3>2. j \in 1 .. Len(log) /\ j - 1 = i
      BY <3>1, <2>1
    <3>3. vs[j] = [vs[j - 1] EXCEPT ![log[j].sect] = log[j].data]
      BY ONLY <3>2, <1>1
    <3> QED BY ONLY <3>1, <3>2, <3>3
  <2> QED BY ONLY <2>2, <2>3
<1>11. ASSUME NEW i \in 0 .. n PROVE Sound(us[i])
  BY <1>1, <1>3, <1>7
<1>12. Track(E, rest, V)
  BY ONLY <1>5, <1>8, <1>9, <1>10, <1>11 DEF Track
<1> QED BY <1>4, <1>12

-----------------------------------------------------------------------------
(* The driver's record, with a clean buffer and with a dirty one.          *)

Rec(vol, log, sect, dirty, w) ==
  [vol |-> vol, log |-> log, sect |-> sect, dirty |-> dirty, info_dirty |-> w.info_dirty,
   last_used |-> w.last_used, free_cnt |-> w.free_cnt]

\* The buffer of v is clean, and v sees the volume V.
Clean(D, v, V) == v = Rec(V, v.log, NoSect, FALSE, v) /\ Track(D, v.log, V)

\* The buffer of v holds the sector s of V, which is not on its way yet.
Buffered(D, v, V, s) ==
  /\ v = Rec(V, v.log, s, TRUE, v)
  /\ \E U : Track(D, v.log, U) /\ V = [U EXCEPT ![s] = V[s]]

\* What is not in the buffer stays.
Keeps(v, w) ==
  w.info_dirty = v.info_dirty /\ w.last_used = v.last_used /\ w.free_cnt = v.free_cnt

LEMMA BufferWritten ==
  ASSUME NEW D, NEW v, NEW V, NEW s, Buffered(D, v, V, s), Sound(V), NEW w, w = sync_buf(v)
  PROVE  Clean(D, w, V) /\ Keeps(v, w)
<1>1. PICK U : Track(D, v.log, U) /\ V = [U EXCEPT ![s] = V[s]]
  BY DEF Buffered
<1>2. v = Rec(V, v.log, s, TRUE, v)
  BY DEF Buffered
<1>3. PICK log2 : log2 = Append(v.log, [sect |-> s, data |-> V[s]])
  OBVIOUS
<1>4. w = Rec(V, log2, NoSect, FALSE, v)
  <2>1. v.vol = V /\ v.sect = s /\ v.dirty = TRUE
    BY ONLY <1>2 DEF Rec
  <2>2. w = [v EXCEPT !.log = log2, !.dirty = FALSE, !.sect = NoSect]
    BY ONLY <2>1, <1>3, w = sync_buf(v) DEF sync_buf
  <2>3. PICK k, no, yes, log : k = v /\ no = FALSE /\ yes = TRUE /\ log = v.log
    OBVIOUS
  <2>4. v = Rec(V, log, s, yes, k) /\ w = [v EXCEPT !.log = log2, !.dirty = no, !.sect = NoSect]
    BY ONLY <2>2, <2>3, <1>2
  <2>5. w = Rec(V, log2, NoSect, no, k)
    BY ONLY <2>4 DEF Rec
  <2> QED BY ONLY <2>3, <2>5
<1>5. Track(D, log2, V)
  <2>1. PICK d : d = V[s]
    OBVIOUS
  <2>2. V = [U EXCEPT ![s] = d]
    BY <1>1, <2>1
  <2>3. Track(D, Append(v.log, [sect |-> s, data |-> d]), V)
    BY <1>1, <2>2, TrackMore
  <2> QED BY <2>1, <2>3, <1>3
<1> QED BY ONLY <1>4, <1>5 DEF Clean, Keeps, Rec

LEMMA ChangeClean ==
  ASSUME NEW D, NEW v, NEW V, Clean(D, v, V), NEW s, s # NoSect, s \in DOMAIN V, NEW d,
         NEW w, w = Change(v, s, d), NEW W, W = [V EXCEPT ![s] = d]
  PROVE  Buffered(D, w, W, s) /\ Keeps(v, w)
<1>1. v = Rec(V, v.log, NoSect, FALSE, v) /\ Track(D, v.log, V)
  BY DEF Clean
<1>2. w = Rec(W, v.log, s, TRUE, v)
  <2>1. v.vol = V /\ v.sect = NoSect /\ v.dirty = FALSE
    BY ONLY <1>1 DEF Rec
  <2>2. PICK u : u = update_buf(v, s)
    OBVIOUS
  <2>3. u = [v EXCEPT !.sect = s]
    BY ONLY <2>1, <2>2, s # NoSect DEF update_buf, sync_buf
  <2>4. PICK k, no, yes, log : k = v /\ no = FALSE /\ yes = TRUE /\ log = v.log
    OBVIOUS
  <2>5. v = Rec(V, log, NoSect, no, k)
    BY ONLY <2>4, <1>1
  <2>6. u = Rec(V, log, s, no, k)
    BY ONLY <2>3, <2>5 DEF Rec
  <2>7. w = [u EXCEPT !.vol = W, !.dirty = yes]
    <3>1. u.vol = V
      BY ONLY <2>6 DEF Rec
    <3> QED BY ONLY <3>1, <2>2, <2>4, w = Change(v, s, d), W = [V EXCEPT ![s] = d] DEF Change
  <2>8. w = Rec(W, log, s, yes, k)
    BY ONLY <2>6, <2>7 DEF Rec
  <2> QED BY ONLY <2>4, <2>8
<1>3. W[s] = d
  BY ONLY s \in DOMAIN V, W = [V EXCEPT ![s] = d]
<1>4. W = [V EXCEPT ![s] = W[s]]
  BY ONLY <1>3, W = [V EXCEPT ![s] = d]
<1> QED BY ONLY <1>1, <1>2, <1>4 DEF Buffered, Keeps, Rec

LEMMA ChangeOther ==
  ASSUME NEW D, NEW v, NEW V, NEW q, Buffered(D, v, V, q), Sound(V),
         NEW s, s # q, s # NoSect, s \in DOMAIN V, NEW d,
         NEW w, w = Change(v, s, d), NEW W, W = [V EXCEPT ![s] = d]
  PROVE  Buffered(D, w, W, s) /\ Keeps(v, w)
<1>1. PICK u : u = sync_buf(v)
  OBVIOUS
<1>2. Clean(D, u, V) /\ Keeps(v, u)
  BY <1>1, BufferWritten
<1>3. u = Rec(V, u.log, NoSect, FALSE, u) /\ v = Rec(V, v.log, q, TRUE, v)
  BY <1>2 DEF Clean, Buffered
<1>4. sync_buf(u) = u /\ v.sect = q /\ u.sect = NoSect
  BY ONLY <1>3 DEF sync_buf, Rec
<1>5. w = Change(u, s, d)
  BY ONLY <1>1, <1>4, s # q, s # NoSect, w = Change(v, s, d) DEF Change, update_buf
<1>6. Buffered(D, w, W, s) /\ Keeps(u, w)
  BY <1>2, <1>5, ChangeClean
<1> QED BY <1>2, <1>6 DEF Keeps

LEMMA ChangeSame ==
  ASSUME NEW D, NEW v, NEW V, NEW s, Buffered(D, v, V, s), s \in DOMAIN V, NEW d,
         NEW w, w = Change(v, s, d), NEW W, W = [V EXCEPT ![s] = d]
  PROVE  Buffered(D, w, W, s) /\ Keeps(v, w)
<1>1. PICK U : Track(D, v.log, U) /\ V = [U EXCEPT ![s] = V[s]]
  BY DEF Buffered
<1>2. v = Rec(V, v.log, s, TRUE, v)
  BY DEF Buffered
<1>3. w = Rec(W, v.log, s, TRUE, v)
  <2>1. v.vol = V /\ v.sect = s
    BY ONLY <1>2 DEF Rec
  <2>2. w = [v EXCEPT !.vol = W, !.dirty = TRUE]
    BY ONLY <2>1, w = Change(v, s, d), W = [V EXCEPT ![s] = d] DEF Change, update_buf
  <2>3. PICK k, yes, log : k = v /\ yes = TRUE /\ log = v.log
    OBVIOUS
  <2>4. v = Rec(V, log, s, yes, k) /\ w = [v EXCEPT !.vol = W, !.dirty = yes]
    BY ONLY <2>2, <2>3, <1>2
  <2>5. w = Rec(W, log, s, yes, k)
    BY ONLY <2>4 DEF Rec
  <2> QED BY ONLY <2>3, <2>5
<1>4. W[s] = d
  BY ONLY s \in DOMAIN V, W = [V EXCEPT ![s] = d]
<1>5. W = [U EXCEPT ![s] = W[s]]
  <2>1. PICK e : e = V[s]
    OBVIOUS
  <2>2. V = [U EXCEPT ![s] = e]
    BY ONLY <1>1, <2>1
  <2>3. DOMAIN V = DOMAIN U /\ DOMAIN W = DOMAIN U
    BY ONLY <2>2, W = [V EXCEPT ![s] = d]
  <2>4. \A x \in DOMAIN U : W[x] = [U EXCEPT ![s] = d][x]
    BY ONLY <2>2, <2>3, W = [V EXCEPT ![s] = d]
  <2>5. W = [U EXCEPT ![s] = d]
    BY ONLY <2>3, <2>4, W = [V EXCEPT ![s] = d]
  <2> QED BY ONLY <2>5, <1>4
<1> QED BY ONLY <1>1, <1>3, <1>5 DEF Buffered, Keeps, Rec

LEMMA SectorFacts ==
  /\ \A k \in Copies, c \in Clusters :
       FatSect(k, c) \notin {NoSect, InfoSect, DirSect}
       /\ \A j \in Copies, x \in Clusters : FatSect(k, c) = FatSect(j, x) => j = k
  /\ \A n : DataSect(n) \notin {NoSect, InfoSect, DirSect}
            /\ \A k \in Copies, c \in Clusters : DataSect(n) # FatSect(k, c)
  /\ InfoSect # NoSect /\ DirSect # NoSect /\ InfoSect # DirSect
BY DEF FatSect, NoSect, InfoSect, DirSect, DataSect

\* put_fat2 with a clean buffer, with one that holds another sector and with one
\* that holds the sector of the entry.
LEMMA PutClean ==
  ASSUME NEW D, NEW v, NEW V, Clean(D, v, V), Typed(V), NEW k \in Copies, NEW c \in Clusters,
         NEW val, NEW w, w = put_fat2(v, k, c, val), NEW W, W = Put(V, k, c, val)
  PROVE  Buffered(D, w, W, FatSect(k, c)) /\ Keeps(v, w)
<1>1. PICK s : s = FatSect(k, c)
  OBVIOUS
<1>2. s # NoSect /\ s \in DOMAIN V
  BY <1>1, SectorFacts DEF Typed
<1>3. v.vol = V
  BY DEF Clean, Rec
<1>4. PICK d : d = [V[s] EXCEPT ![c] = val]
  OBVIOUS
<1>5. w = Change(v, s, d) /\ W = [V EXCEPT ![s] = d]
  BY ONLY <1>1, <1>3, <1>4, w = put_fat2(v, k, c, val), W = Put(V, k, c, val) DEF put_fat2, Put
<1> QED BY <1>1, <1>2, <1>5, ChangeClean

LEMMA PutOther ==
  ASSUME NEW D, NEW v, NEW V, NEW q, Buffered(D, v, V, q), Sound(V), NEW k \in Copies,
         NEW c \in Clusters, q # FatSect(k, c),
         NEW val, NEW w, w = put_fat2(v, k, c, val), NEW W, W = Put(V, k, c, val)
  PROVE  Buffered(D, w, W, FatSect(k, c)) /\ Keeps(v, w)
<1>1. PICK s : s = FatSect(k, c)
  OBVIOUS
<1>2. s # NoSect /\ s # q /\ s \in DOMAIN V
  BY <1>1, SectorFacts DEF Sound, SoundWith, Typed
<1>3. v.vol = V
  BY DEF Buffered, Rec
<1>4. PICK d : d = [V[s] EXCEPT ![c] = val]
  OBVIOUS
<1>5. w = Change(v, s, d) /\ W = [V EXCEPT ![s] = d]
  BY ONLY <1>1, <1>3, <1>4, w = put_fat2(v, k, c, val), W = Put(V, k, c, val) DEF put_fat2, Put
<1> QED BY <1>1, <1>2, <1>5, ChangeOther

LEMMA PutSame ==
  ASSUME NEW D, NEW v, NEW V, NEW q, Buffered(D, v, V, q), Typed(V), NEW k \in Copies,
         NEW c \in Clusters, q = FatSect(k, c),
         NEW val, NEW w, w = put_fat2(v, k, c, val), NEW W, W = Put(V, k, c, val)
  PROVE  Buffered(D, w, W, FatSect(k, c)) /\ Keeps(v, w)
<1>2. q \in DOMAIN V
  BY DEF Typed
<1>3. v.vol = V
  BY DEF Buffered, Rec
<1>4. PICK d : d = [V[q] EXCEPT ![c] = val]
  OBVIOUS
<1>5. w = Change(v, q, d) /\ W = [V EXCEPT ![q] = d]
  BY ONLY <1>3, <1>4, q = FatSect(k, c), w = put_fat2(v, k, c, val), W = Put(V, k, c, val)
     DEF put_fat2, Put
<1> QED BY <1>2, <1>5, ChangeSame

\* The driver's record between operations: what it sends keeps the volume sound,
\* and its count denies no free cluster.
Good(D, v) ==
  Clean(D, v, v.vol) /\ Counts(v.vol, v)

\* sync_fs writes the FSInfo sector.
LEMMA InfoWritten ==
  ASSUME NEW D, NEW u, NEW V, Clean(D, u, V), NEW ch, SoundWith(V, ch),
         Counts(V, u), NEW w, w = sync_info(u)
  PROVE  /\ Good(D, w) /\ SoundWith(w.vol, ch) /\ FreeClusters(w.vol) = FreeClusters(V)
         /\ w.free_cnt = u.free_cnt
<1>1. PICK d : d = [last_used |-> u.last_used, free_cnt |-> u.free_cnt]
  OBVIOUS
<1>2. d \in [last_used : Int, free_cnt : Int] /\ Counts(V, d)
  <2>1. u.last_used \in Int /\ u.free_cnt \in Int
    BY VolumeFacts DEF Counts
  <2>2. d.last_used = u.last_used /\ d.free_cnt = u.free_cnt
    BY ONLY <1>1
  <2> QED BY <2>1, <2>2, <1>1 DEF Counts
<1>3. Typed(V) /\ Covered(V, ch)
  BY DEF SoundWith
<1>4. InfoSect # NoSect /\ InfoSect \in DOMAIN V /\ DirSect \in DOMAIN V /\ DirSect # InfoSect
  BY <1>3, SectorFacts DEF Typed
<1>5. PICK W : W = [V EXCEPT ![InfoSect] = d]
  OBVIOUS
<1>6. DOMAIN W = DOMAIN V /\ W[InfoSect] = d /\ \A s \in DOMAIN V : s # InfoSect => W[s] = V[s]
  BY ONLY <1>4, <1>5
<1>7. SameTables(V, W)
  BY <1>3, <1>6, SectorFacts DEF SameTables, Typed
<1>8. SoundWith(W, ch) /\ FreeClusters(W) = FreeClusters(V)
  <2>1. W[InfoSect] \in [last_used : Int, free_cnt : Int] /\ W[DirSect] \in [Files -> Nat]
        /\ Counts(V, W[InfoSect]) /\ InfoSect \in DOMAIN W /\ DirSect \in DOMAIN W
    BY <1>2, <1>3, <1>4, <1>6 DEF Typed
  <2>2. \A f \in Files : W[DirSect][f] <= ClustSize * Len(ch[0][f])
    BY <1>3, <1>4, <1>6 DEF Covered
  <2> QED BY <2>1, <2>2, <1>7, TablesKept
<1>9. Sound(W)
  <2>1. ch = Chains(W)
    BY <1>8, SoundChains
  <2> QED BY <2>1, <1>8 DEF Sound
<1>10. PICK x : x = Change(u, InfoSect, d)
  OBVIOUS
<1>11. Buffered(D, x, W, InfoSect) /\ Keeps(u, x)
  BY <1>4, <1>5, <1>10, ChangeClean
<1>12. PICK y : y = sync_buf(x)
  OBVIOUS
<1>13. Clean(D, y, W) /\ Keeps(x, y)
  BY <1>9, <1>11, <1>12, BufferWritten
<1>14. w = [y EXCEPT !.info_dirty = FALSE]
  BY ONLY <1>1, <1>10, <1>12, w = sync_info(u) DEF sync_info
<1>15. y = Rec(W, y.log, NoSect, FALSE, y) /\ Track(D, y.log, W)
  BY <1>13 DEF Clean
<1>16. w = Rec(W, y.log, NoSect, FALSE, w) /\ w.last_used = y.last_used /\ w.free_cnt = y.free_cnt
       /\ w.log = y.log /\ w.vol = W
  <2>1. PICK no, log, l, n, i : no = FALSE /\ log = y.log /\ l = y.last_used /\ n = y.free_cnt
                             /\ i = y.info_dirty
    OBVIOUS
  <2>2. y = [vol |-> W, log |-> log, sect |-> NoSect, dirty |-> no, info_dirty |-> i,
             last_used |-> l, free_cnt |-> n]
    BY ONLY <2>1, <1>15 DEF Rec
  <2>3. w = [vol |-> W, log |-> log, sect |-> NoSect, dirty |-> no, info_dirty |-> no,
             last_used |-> l, free_cnt |-> n]
    <3>1. w = [y EXCEPT !.info_dirty = no]
      BY ONLY <2>1, <1>14
    <3> QED BY ONLY <3>1, <2>2
  <2>4. w.info_dirty = no /\ w.last_used = l /\ w.free_cnt = n /\ w.log = log /\ w.vol = W
    BY ONLY <2>3
  <2>5. w = Rec(W, log, NoSect, no, w)
    BY ONLY <2>3, <2>4 DEF Rec
  <2> QED BY ONLY <2>1, <2>4, <2>5
<1>17. Clean(D, w, w.vol)
  BY ONLY <1>15, <1>16 DEF Clean
<1>18. w.last_used = u.last_used /\ w.free_cnt = u.free_cnt
  BY ONLY <1>11, <1>13, <1>16 DEF Keeps
<1> QED BY <1>8, <1>16, <1>17, <1>18 DEF Good, Counts

\* v sees the volume V, with at most one sector in the buffer.
Sees(D, v, V) == Clean(D, v, V) \/ \E s : Buffered(D, v, V, s)

\* sync_fs of a sound volume.
LEMMA FsWritten ==
  ASSUME NEW D, NEW v, NEW V, Sees(D, v, V),
         NEW ch, SoundWith(V, ch), Counts(V, v), NEW w, w = sync_fs(v)
  PROVE  /\ Good(D, w) /\ SoundWith(w.vol, ch) /\ FreeClusters(w.vol) = FreeClusters(V)
         /\ w.free_cnt = v.free_cnt
<1>1. Sound(V)
  <2>1. ch = Chains(V)
    BY SoundChains
  <2> QED BY <2>1 DEF Sound
<1>2. PICK u : u = sync_buf(v)
  OBVIOUS
<1>3. Clean(D, u, V) /\ Keeps(v, u)
  <2>1. CASE Clean(D, v, V)
    <3>1. v = Rec(V, v.log, NoSect, FALSE, v)
      BY <2>1 DEF Clean
    <3>2. v.dirty = FALSE
      BY ONLY <3>1 DEF Rec
    <3>3. u = v
      BY ONLY <3>2, <1>2 DEF sync_buf
    <3> QED BY <2>1, <3>3 DEF Keeps
  <2>2. CASE \E s : Buffered(D, v, V, s)
    <3>1. PICK s : Buffered(D, v, V, s)
      BY <2>2
    <3> QED BY <3>1, <1>1, <1>2, BufferWritten
  <2> QED BY <2>1, <2>2 DEF Sees
<1>4. Counts(V, u) /\ u.free_cnt = v.free_cnt
  BY <1>3 DEF Keeps, Counts
<1>5. CASE v.info_dirty
  <2>1. w = sync_info(u)
    BY <1>2, <1>5 DEF sync_fs
  <2> QED BY <2>1, <1>3, <1>4, InfoWritten
<1>6. CASE ~v.info_dirty
  <2>1. w = u
    BY <1>2, <1>6 DEF sync_fs
  <2>2. w.vol = V
    BY <2>1, <1>3 DEF Clean, Rec
  <2> QED BY <2>1, <2>2, <1>3, <1>4 DEF Good
<1> QED BY <1>5, <1>6

-----------------------------------------------------------------------------
(* stretch_chain.                                                          *)

\* put_fat of the new cluster's end and of the link to it: a sound volume, and
\* at most its last sector not on its way yet.
LEMMA PutsNew ==
  ASSUME NEW D, NEW v, NEW V, Clean(D, v, V), NEW ch, SoundWith(V, ch), NEW f \in Files,
         NEW p, p = ch[0][f][Len(ch[0][f])], NEW c \in Clusters, Entry(V, 0, c) = FREE,
         NEW w, w = PutNew(v, p, c)
  PROVE  \E W, s, ch2 : /\ Buffered(D, w, W, s) /\ Keeps(v, w)
                        /\ SoundWith(W, ch2) /\ Grew(ch, ch2, f, c)
                        /\ FreeClusters(W) = FreeClusters(V) \ {c}
<1>1. p \in Clusters /\ p # NewChain /\ 0 \in Copies /\ EOC \in Int /\ c \in Int
  <2>1. p \in Clusters /\ 0 \notin Clusters
    BY LastCluster, VolumeFacts DEF FREE
  <2> QED BY <2>1, VolumeFacts DEF NewChain
<1>2. w = put_fat(put_fat(v, c, EOC), p, c)
  BY ONLY <1>1, w = PutNew(v, p, c) DEF PutNew, Link
<1>3. ASSUME NEW U, NEW cu, SoundWith(U, cu) PROVE Sound(U) /\ Typed(U)
  <2>1. cu = Chains(U)
    BY <1>3, SoundChains
  <2> QED BY <1>3, <2>1 DEF Sound, SoundWith
<1>4. CASE Mirror
  <2>1. 1 \in Copies /\ 0 # 1
    BY <1>4 DEF Copies
  <2>2. PICK w1 : w1 = put_fat2(v, 1, c, EOC)
    OBVIOUS
  <2>3. PICK w2 : w2 = put_fat2(w1, 0, c, EOC)
    OBVIOUS
  <2>4. PICK w3 : w3 = put_fat2(w2, 1, p, c)
    OBVIOUS
  <2>5. PICK V1 : V1 = Put(V, 1, c, EOC)
    OBVIOUS
  <2>6. PICK V2 : V2 = Put(V1, 0, c, EOC)
    OBVIOUS
  <2>7. PICK V3 : V3 = Put(V2, 1, p, c)
    OBVIOUS
  <2>8. PICK V4 : V4 = Put(V3, 0, p, c)
    OBVIOUS
  <2>9. w = put_fat2(w3, 0, p, c)
    BY ONLY <1>2, <1>4, <2>2, <2>3, <2>4 DEF put_fat
  <2>10. PICK ch3, ch4 : /\ SoundWith(V1, ch) /\ SoundWith(V2, ch)
                         /\ SoundWith(V3, ch3) /\ SoundWith(V4, ch4)
                         /\ Grew(ch, ch4, f, c)
                         /\ FreeClusters(V4) = FreeClusters(V) \ {c}
    BY <1>4, <2>5, <2>6, <2>7, <2>8, FourPuts
  <2>11. Buffered(D, w1, V1, FatSect(1, c)) /\ Keeps(v, w1)
    BY <1>3, <2>1, <2>2, <2>5, PutClean
  <2>12. Buffered(D, w2, V2, FatSect(0, c)) /\ Keeps(w1, w2)
    <3>1. Sound(V1) /\ FatSect(1, c) # FatSect(0, c)
      BY <1>1, <1>3, <2>1, <2>10, SectorFacts
    <3> QED BY <3>1, <1>1, <2>3, <2>6, <2>11, PutOther
  <2>13. Buffered(D, w3, V3, FatSect(1, p)) /\ Keeps(w2, w3)
    <3>1. Sound(V2) /\ FatSect(0, c) # FatSect(1, p)
      BY <1>1, <1>3, <2>1, <2>10, SectorFacts
    <3> QED BY <3>1, <1>1, <2>1, <2>4, <2>7, <2>12, PutOther
  <2>14. Buffered(D, w, V4, FatSect(0, p)) /\ Keeps(w3, w)
    <3>1. Sound(V3) /\ FatSect(1, p) # FatSect(0, p)
      BY <1>1, <1>3, <2>1, <2>10, SectorFacts
    <3> QED BY <3>1, <1>1, <2>8, <2>9, <2>13, PutOther
  <2>15. Keeps(v, w)
    BY ONLY <2>11, <2>12, <2>13, <2>14 DEF Keeps
  <2> QED BY <2>10, <2>14, <2>15
<1>5. CASE ~Mirror
  <2>1. PICK w1 : w1 = put_fat2(v, 0, c, EOC)
    OBVIOUS
  <2>2. PICK V1 : V1 = Put(V, 0, c, EOC)
    OBVIOUS
  <2>3. PICK V2 : V2 = Put(V1, 0, p, c)
    OBVIOUS
  <2>4. w = put_fat2(w1, 0, p, c)
    BY ONLY <1>2, <1>5, <2>1 DEF put_fat
  <2>5. PICK ch2 : /\ SoundWith(V1, ch) /\ SoundWith(V2, ch2) /\ Grew(ch, ch2, f, c)
                   /\ FreeClusters(V2) = FreeClusters(V) \ {c}
    BY <1>5, <2>2, <2>3, TwoPuts
  <2>6. Buffered(D, w1, V1, FatSect(0, c)) /\ Keeps(v, w1)
    BY <1>1, <1>3, <2>1, <2>2, PutClean
  <2>7. Sound(V1) /\ Typed(V1)
    BY <1>3, <2>5
  <2>8. Buffered(D, w, V2, FatSect(0, p)) /\ Keeps(w1, w)
    <3>1. CASE FatSect(0, c) = FatSect(0, p)
      BY <3>1, <1>1, <2>3, <2>4, <2>6, <2>7, PutSame
    <3>2. CASE FatSect(0, c) # FatSect(0, p)
      BY <3>2, <1>1, <2>3, <2>4, <2>6, <2>7, PutOther
    <3> QED BY <3>1, <3>2
  <2>9. Keeps(v, w)
    BY ONLY <2>6, <2>8 DEF Keeps
  <2> QED BY <2>5, <2>8, <2>9
<1> QED BY <1>4, <1>5

\* The free clusters that the count takes too many.
Slack(v) == v.free_cnt - Cardinality(FreeClusters(v.vol))

\* No cluster is given back.
Fewer(v, w) == FreeClusters(w.vol) \subseteq FreeClusters(v.vol)

\* stretch_chain at the end of a file's chain.
LEMMA StretchGood ==
  ASSUME NEW D, NEW v, Good(D, v), NEW ch, SoundWith(v.vol, ch), NEW f \in Files,
         NEW p, p = ch[0][f][Len(ch[0][f])], NEW c \in Clusters, Entry(v.vol, 0, c) = FREE,
         NEW w, w = StretchBy(v, p, c)
  PROVE  /\ Good(D, w) /\ Slack(w) = Slack(v) /\ Fewer(v, w)
         /\ \E ch2 : SoundWith(w.vol, ch2) /\ Grew(ch, ch2, f, c)
<1>1. PICK V : V = v.vol
  OBVIOUS
<1>2. PICK x : x = PutNew(v, p, c)
  OBVIOUS
<1>3. PICK W, s, ch2 : /\ Buffered(D, x, W, s) /\ Keeps(v, x)
                       /\ SoundWith(W, ch2) /\ Grew(ch, ch2, f, c)
                       /\ FreeClusters(W) = FreeClusters(V) \ {c}
  <2>1. Clean(D, v, V) /\ SoundWith(V, ch) /\ Entry(V, 0, c) = FREE
    BY <1>1 DEF Good
  <2> QED BY <2>1, <1>2, PutsNew
<1>4. PICK y : y = [x EXCEPT !.info_dirty = TRUE, !.last_used = c, !.free_cnt = Taken(@)]
  OBVIOUS
<1>5. w = sync_fs(y)
  <2>1. c # FREE
    BY VolumeFacts
  <2> QED BY ONLY <2>1, <1>2, <1>4, w = StretchBy(v, p, c) DEF StretchBy
<1>6. Buffered(D, y, W, s) /\ y.last_used = c /\ y.free_cnt = x.free_cnt - 1
  <2>1. x = Rec(W, x.log, s, TRUE, x)
    BY <1>3 DEF Buffered
  <2>2. PICK yes, log, l, n, m, i : yes = TRUE /\ log = x.log /\ l = x.last_used /\ n = x.free_cnt
                                 /\ i = x.info_dirty /\ m = Taken(n)
    OBVIOUS
  <2>3. x = [vol |-> W, log |-> log, sect |-> s, dirty |-> yes, info_dirty |-> i,
             last_used |-> l, free_cnt |-> n]
    BY ONLY <2>1, <2>2 DEF Rec
  <2>4. y = [x EXCEPT !.info_dirty = yes, !.last_used = c, !.free_cnt = m]
    BY ONLY <2>2, <1>4
  <2>5. y = [vol |-> W, log |-> log, sect |-> s, dirty |-> yes, info_dirty |-> yes,
             last_used |-> c, free_cnt |-> m]
    BY ONLY <2>3, <2>4
  <2>6. y.log = log /\ y.info_dirty = yes /\ y.last_used = c /\ y.free_cnt = m
    BY ONLY <2>5
  <2>7. y = Rec(W, log, s, yes, y)
    BY ONLY <2>5, <2>6 DEF Rec
  <2>8. \E U : Track(D, log, U) /\ W = [U EXCEPT ![s] = W[s]]
    BY ONLY <1>3, <2>2 DEF Buffered
  <2>9. Buffered(D, y, W, s)
    BY ONLY <2>2, <2>6, <2>7, <2>8 DEF Buffered
  <2> QED BY ONLY <2>2, <2>6, <2>9 DEF Taken
<1>7. /\ Cardinality(FreeClusters(V)) \in Nat
      /\ Cardinality(FreeClusters(W)) = Cardinality(FreeClusters(V)) - 1
  <2>1. IsFiniteSet(FreeClusters(V)) /\ c \in FreeClusters(V)
    BY <1>1, FewerFree DEF FreeClusters, IsFree, get_fat, Entry
  <2> QED BY <2>1, <1>3, FS_RemoveElement, FS_CardinalityType
<1>8. x.free_cnt = v.free_cnt /\ v.free_cnt \in Int /\ Cardinality(FreeClusters(V)) <= v.free_cnt
  BY <1>1, <1>3 DEF Keeps, Good, Counts
<1>9. Counts(W, y) /\ y.free_cnt \in Int
  <2>1. y.last_used \in Clusters \ FreeClusters(W)
    BY <1>3, <1>6
  <2>2. y.free_cnt \in Int /\ Cardinality(FreeClusters(W)) <= y.free_cnt
    BY <1>6, <1>7, <1>8
  <2> QED BY <2>1, <2>2 DEF Counts
<1>10. /\ Good(D, w) /\ SoundWith(w.vol, ch2) /\ FreeClusters(w.vol) = FreeClusters(W)
       /\ w.free_cnt = y.free_cnt
  <2>1. Sees(D, y, W)
    BY <1>6 DEF Sees
  <2>2. SoundWith(W, ch2)
    BY <1>3
  <2> QED BY <2>1, <2>2, <1>5, <1>9, FsWritten
<1>11. Slack(w) = Slack(v)
  BY <1>1, <1>6, <1>7, <1>8, <1>10 DEF Slack
<1>12. Fewer(v, w)
  BY <1>1, <1>3, <1>10 DEF Fewer
<1> QED BY <1>3, <1>10, <1>11, <1>12

-----------------------------------------------------------------------------
(* The cluster that stretch_chain takes.                                   *)

LEMMA MinOf ==
  ASSUME NEW S \in SUBSET Nat, S # {}
  PROVE  Min(S) \in S /\ \A y \in S : Min(S) <= y
<1>1. \E x \in S : \A y \in S : x <= y
  BY LeastOf
<1> QED BY ONLY <1>1 DEF Min

LEMMA PickFree ==
  ASSUME NEW v, Counts(v.vol, v), NEW p \in Clusters, NEW c, c = Pick(v, p), c # FREE
  PROVE  c \in Clusters /\ Entry(v.vol, 0, c) = FREE
<1> DEFINE hits == {i \in 1 .. ClustCnt - 3 : IsFree(v.vol, ScanOrder(v.last_used, i))}
<1>1. ClustCnt \in Nat /\ ClustCnt > 3
  BY FatVolumeAssumption
<1>2. CASE p # NewChain /\ IsFree(v.vol, NextClust(p))
  <2>1. c = NextClust(p)
    BY <1>2 DEF Pick
  <2>2. NextClust(p) \in Clusters
    BY <1>1 DEF NextClust, Clusters
  <2> QED BY <2>1, <2>2, <1>2 DEF IsFree, get_fat, Entry
<1>3. CASE ~(p # NewChain /\ IsFree(v.vol, NextClust(p)))
  <2>1. hits # {} /\ c = ScanOrder(v.last_used, Min(hits))
    BY <1>3 DEF Pick
  <2>2. hits \in SUBSET Nat
    BY <1>1
  <2>3. Min(hits) \in hits
    <3> HIDE DEF hits
    <3> QED BY <2>1, <2>2, MinOf
  <2>4. PICK i \in 1 .. ClustCnt - 3 : i = Min(hits) /\ IsFree(v.vol, ScanOrder(v.last_used, i))
    BY <2>3
  <2>5. c = ScanOrder(v.last_used, i) /\ IsFree(v.vol, c)
    BY <2>1, <2>4
  <2>6. PICK a \in Int : a = v.last_used - 2 + i
    <3>1. v.last_used \in Int
      BY VolumeFacts DEF Counts
    <3> QED BY <3>1, <1>1
  <2>7. PICK m \in Nat : m = ClustCnt - 2 /\ m > 0
    BY <1>1
  <2>8. a % m \in 0 .. m - 1
    BY ONLY a \in Int, m \in Nat, <2>7
  <2>9. c = 2 + (a % m)
    BY <2>5, <2>6, <2>7 DEF ScanOrder
  <2>10. c \in Clusters
    BY ONLY <2>7, <2>8, <2>9, <1>1 DEF Clusters
  <2> QED BY <2>5, <2>10 DEF IsFree, get_fat, Entry
<1> QED BY <1>2, <1>3

-----------------------------------------------------------------------------
(* Files.                                                                  *)

ActiveChain(V, f) == Chain(V, 0, StartClust[f])

\* The active chains only become longer.
Grows(V, W) ==
  \A f \in Files :
    /\ Len(ActiveChain(V, f)) \in Nat /\ Len(ActiveChain(W, f)) \in Nat
    /\ Len(ActiveChain(V, f)) <= Len(ActiveChain(W, f))
    /\ \A i \in 1 .. Len(ActiveChain(V, f)) : ActiveChain(W, f)[i] = ActiveChain(V, f)[i]

\* The chains of all files but g are the same.
OnlyGrows(V, W, g) == \A h \in Files : h # g => ActiveChain(W, h) = ActiveChain(V, h)
SameChains(V, W) == \A h \in Files : ActiveChain(W, h) = ActiveChain(V, h)

\* f has come to the i-th cluster of its file's chain, or further.
Place(V, f, i) ==
  \E j \in 1 .. Len(ActiveChain(V, f.file)) : ActiveChain(V, f.file)[j] = f.clust /\ i <= j

\* A File structure: it is on its file's chain at its offset's cluster or behind
\* it, and the chain is long enough for its size.
HandleOK(V, f) ==
  /\ {"file", "sclust", "clust", "sect", "offset", "size", "dirty", "modified", "accessed", "buf"}
       \subseteq DOMAIN f
  /\ f.file \in Files /\ f.sclust = StartClust[f.file]
  /\ f.offset \in Nat /\ f.size \in Nat
  /\ f.size <= ClustSize * Len(ActiveChain(V, f.file))
  /\ Place(V, f, f.offset \div ClustSize + 1)

\* v, and w later in an operation.
Later(v, w) == Grows(v.vol, w.vol) /\ Slack(w) = Slack(v) /\ Fewer(v, w)

LEMMA LaterTrans ==
  ASSUME NEW u, NEW v, NEW w, Later(u, v), Later(v, w)
  PROVE  Later(u, w)
<1>1. \A f \in Files :
    /\ Len(ActiveChain(u.vol, f)) \in Nat /\ Len(ActiveChain(v.vol, f)) \in Nat
    /\ Len(ActiveChain(w.vol, f)) \in Nat
    /\ Len(ActiveChain(u.vol, f)) <= Len(ActiveChain(v.vol, f))
    /\ Len(ActiveChain(v.vol, f)) <= Len(ActiveChain(w.vol, f))
    /\ \A i \in 1 .. Len(ActiveChain(u.vol, f)) : ActiveChain(v.vol, f)[i] = ActiveChain(u.vol, f)[i]
    /\ \A i \in 1 .. Len(ActiveChain(v.vol, f)) : ActiveChain(w.vol, f)[i] = ActiveChain(v.vol, f)[i]
  BY DEF Later, Grows
<1>2. Grows(u.vol, w.vol)
  BY ONLY <1>1 DEF Grows
<1> QED BY <1>2 DEF Later, Fewer

LEMMA ClustSizeFacts ==
  /\ ClustSize \in Nat \ {0}
  /\ \A n \in Nat : n \div ClustSize \in Nat
  /\ 0 \div ClustSize = 0
  /\ \A n \in Nat, i \in Nat : n \div ClustSize < i => n <= ClustSize * i
<1>1. ClustSize \in Nat \ {0}
  <2>1. SectSize \in Nat /\ SectPerClust \in Nat /\ SectSize > 0 /\ SectPerClust > 0
    BY VolumeFacts
  <2> QED BY <2>1 DEF ClustSize
<1>2. \A m \in Nat \ {0} : 0 \div m = 0
  OBVIOUS
<1>3. \A m \in Nat \ {0}, n \in Nat : n \div m \in Nat
  OBVIOUS
<1>4. ASSUME NEW m \in Nat \ {0}, NEW n \in Nat, NEW i \in Nat, n \div m < i PROVE n <= m * i
  <2>1. PICK q \in Nat : q = n \div m
    BY <1>3
  <2>2. n <= m * q + m
    BY <2>1
  <2>3. m * (q + 1) <= m * i
    BY <2>1, <1>4, TimesMono
  <2>4. m * (q + 1) = m * q + m /\ m * q \in Nat /\ m * i \in Nat
    OBVIOUS
  <2> QED BY ONLY <2>2, <2>3, <2>4, n \in Nat, m \in Nat
<1> QED BY <1>1, <1>2, <1>3, <1>4

LEMMA HandleGrows ==
  ASSUME NEW V, NEW W, Grows(V, W), NEW f, HandleOK(V, f)
  PROVE  HandleOK(W, f)
<1>1. PICK g \in Files : g = f.file
  BY DEF HandleOK
<1>2. PICK s, t : s = ActiveChain(V, g) /\ t = ActiveChain(W, g)
  OBVIOUS
<1>3. Len(s) \in Nat /\ Len(t) \in Nat /\ Len(s) <= Len(t) /\ \A i \in 1 .. Len(s) : t[i] = s[i]
  BY <1>2 DEF Grows
<1>4. f.size <= ClustSize * Len(t)
  <2>1. f.size \in Nat /\ f.size <= ClustSize * Len(s)
    BY <1>1, <1>2 DEF HandleOK
  <2>2. ClustSize * Len(s) <= ClustSize * Len(t)
    BY <1>3, ClustSizeFacts, TimesMono
  <2>3. ClustSize * Len(s) \in Int /\ ClustSize * Len(t) \in Int
    BY <1>3, ClustSizeFacts
  <2> QED BY ONLY <2>1, <2>2, <2>3
<1>5. Place(W, f, f.offset \div ClustSize + 1)
  <2>1. PICK j \in 1 .. Len(s) : s[j] = f.clust /\ f.offset \div ClustSize + 1 <= j
    BY <1>1, <1>2 DEF HandleOK, Place
  <2>2. j \in 1 .. Len(t) /\ t[j] = f.clust
    BY <2>1, <1>3
  <2> QED BY ONLY <2>1, <2>2, <1>1, <1>2 DEF Place
<1> QED BY <1>1, <1>2, <1>4, <1>5 DEF HandleOK

\* The active chains of a good record, and those behind stretch_chain.
LEMMA GoodChains ==
  ASSUME NEW D, NEW v, Good(D, v)
  PROVE  \E ch : SoundWith(v.vol, ch) /\ \A f \in Files : ActiveChain(v.vol, f) = ch[0][f]
<1>1. Sound(v.vol)
  BY TrackEnds DEF Good, Clean
<1>2. SoundWith(v.vol, Chains(v.vol))
  BY <1>1 DEF Sound
<1>3. \A f \in Files : ActiveChain(v.vol, f) = Chains(v.vol)[0][f]
  BY VolumeFacts DEF Chains, ActiveChain
<1> QED BY <1>2, <1>3

LEMMA GoodGrows ==
  ASSUME NEW D, NEW v, Good(D, v)
  PROVE  Later(v, v) /\ \A f \in Files : /\ Len(ActiveChain(v.vol, f)) \in Nat \ {0}
                                         /\ ActiveChain(v.vol, f)[1] = StartClust[f]
<1>1. PICK ch : SoundWith(v.vol, ch) /\ \A f \in Files : ActiveChain(v.vol, f) = ch[0][f]
  BY GoodChains
<1>2. \A f \in Files : Len(ActiveChain(v.vol, f)) \in Nat \ {0}
  BY <1>1, LastCluster
<1>3. \A f \in Files : ActiveChain(v.vol, f)[1] = StartClust[f]
  BY <1>1, VolumeFacts DEF SoundWith, Linked
<1>4. Grows(v.vol, v.vol)
  BY <1>2 DEF Grows
<1> QED BY <1>2, <1>3, <1>4 DEF Later, Fewer

\* A full disk only marks the FSInfo sector.
LEMMA FullGood ==
  ASSUME NEW D, NEW v, Good(D, v), NEW w, w = [v EXCEPT !.info_dirty = TRUE]
  PROVE  Good(D, w) /\ w.vol = v.vol /\ w.free_cnt = v.free_cnt
<1>1. v = Rec(v.vol, v.log, NoSect, FALSE, v) /\ Track(D, v.log, v.vol)
  BY DEF Good, Clean
<1>2. PICK no, yes, V, log, l, m, i :
        /\ no = FALSE /\ yes = TRUE /\ V = v.vol /\ log = v.log /\ l = v.last_used
        /\ m = v.free_cnt /\ i = v.info_dirty
  OBVIOUS
<1>3. v = [vol |-> V, log |-> log, sect |-> NoSect, dirty |-> no, info_dirty |-> i,
           last_used |-> l, free_cnt |-> m]
  BY ONLY <1>1, <1>2 DEF Rec
<1>4. w = [v EXCEPT !.info_dirty = yes]
  BY <1>2
<1>5. w = [vol |-> V, log |-> log, sect |-> NoSect, dirty |-> no, info_dirty |-> yes,
           last_used |-> l, free_cnt |-> m]
  BY ONLY <1>3, <1>4
<1>6. w.info_dirty = yes /\ w.last_used = l /\ w.free_cnt = m /\ w.log = log /\ w.vol = V
  BY ONLY <1>5
<1>7. w = Rec(V, log, NoSect, no, w)
  BY ONLY <1>5, <1>6 DEF Rec
<1>8. Clean(D, w, w.vol)
  BY ONLY <1>1, <1>2, <1>6, <1>7 DEF Clean
<1> QED BY <1>2, <1>6, <1>8 DEF Good, Counts

\* stretch_chain behind the n clusters of f's chain, with the free cluster c.
Stretches(D, v, f, n, c, w) ==
  /\ Good(D, v) /\ f \in Files /\ n = Len(ActiveChain(v.vol, f))
  /\ c \in Clusters /\ Entry(v.vol, 0, c) = FREE
  /\ w = StretchBy(v, ActiveChain(v.vol, f)[n], c)

\* It makes one chain longer by the new cluster.
LEMMA StretchLater ==
  ASSUME NEW D, NEW v, NEW f, NEW n, NEW c, NEW w, Stretches(D, v, f, n, c, w)
  PROVE  /\ Good(D, w) /\ Later(v, w) /\ OnlyGrows(v.vol, w.vol, f)
         /\ n \in Nat /\ Len(ActiveChain(w.vol, f)) = n + 1 /\ ActiveChain(w.vol, f)[n + 1] = c
<1>0. /\ Good(D, v) /\ f \in Files /\ n = Len(ActiveChain(v.vol, f))
      /\ c \in Clusters /\ Entry(v.vol, 0, c) = FREE
  BY DEF Stretches
<1>1. PICK ch : SoundWith(v.vol, ch) /\ \A g \in Files : ActiveChain(v.vol, g) = ch[0][g]
  BY <1>0, GoodChains
<1>2. /\ Good(D, w) /\ Slack(w) = Slack(v) /\ Fewer(v, w)
      /\ \E ch2 : SoundWith(w.vol, ch2) /\ Grew(ch, ch2, f, c)
  <2>1. PICK p : p = ActiveChain(v.vol, f)[n]
    OBVIOUS
  <2>2. p = ch[0][f][Len(ch[0][f])] /\ w = StretchBy(v, p, c)
    BY <1>0, <1>1, <2>1 DEF Stretches
  <2>3. SoundWith(v.vol, ch)
    BY <1>1
  <2> QED BY <2>2, <2>3, <1>0, StretchGood
<1>3. PICK ch2 : SoundWith(w.vol, ch2) /\ Grew(ch, ch2, f, c)
  BY <1>2
<1>4. \A g \in Files : ActiveChain(w.vol, g) = ch2[0][g]
  BY <1>3, SoundChains, VolumeFacts DEF ActiveChain
<1>5. \A g \in Files : ch[0][g] \in Seq(Clusters \ {Root}) /\ Len(ch[0][g]) \in Nat
  BY <1>1, LastCluster
<1>6. c \in Clusters \ {Root}
  BY <1>0, <1>1 DEF SoundWith
<1>7. PICK s, t : s = ch[0][f] /\ t = ch2[0][f]
  OBVIOUS
<1>8. t = Append(s, c) /\ s \in Seq(Clusters \ {Root}) /\ Len(s) = n /\ n \in Nat
  BY <1>0, <1>1, <1>3, <1>5, <1>7 DEF Grew
<1>9. Len(t) = n + 1 /\ t[n + 1] = c /\ \A i \in 1 .. n : t[i] = s[i]
  BY ONLY <1>6, <1>8, AppendProperties
<1>10. Grows(v.vol, w.vol)
  <2>1. ASSUME NEW g \in Files
        PROVE  /\ Len(ActiveChain(v.vol, g)) \in Nat /\ Len(ActiveChain(w.vol, g)) \in Nat
               /\ Len(ActiveChain(v.vol, g)) <= Len(ActiveChain(w.vol, g))
               /\ \A i \in 1 .. Len(ActiveChain(v.vol, g)) :
                    ActiveChain(w.vol, g)[i] = ActiveChain(v.vol, g)[i]
    <3>1. CASE g = f
      <4>1. ActiveChain(v.vol, g) = s /\ ActiveChain(w.vol, g) = t
        BY <3>1, <1>0, <1>1, <1>4, <1>7
      <4>2. n \in Nat /\ Len(s) = n
        BY <1>8
      <4> QED BY ONLY <4>1, <4>2, <1>9
    <3>2. CASE g # f
      <4>1. ActiveChain(w.vol, g) = ActiveChain(v.vol, g)
        BY <3>2, <1>1, <1>3, <1>4 DEF Grew
      <4> QED BY <4>1, <1>1, <1>5
    <3> QED BY <3>1, <3>2
  <2> QED BY ONLY <2>1 DEF Grows
<1>11. OnlyGrows(v.vol, w.vol, f)
  BY <1>1, <1>3, <1>4 DEF Grew, OnlyGrows
<1> QED BY <1>0, <1>2, <1>4, <1>7, <1>8, <1>9, <1>10, <1>11 DEF Later

\* A sector of data written past the buffer.
LEMMA DataLater ==
  ASSUME NEW D, NEW v, Good(D, v), NEW n, NEW d, NEW w, w = WriteThrough(v, DataSect(n), d)
  PROVE  /\ Good(D, w) /\ Later(v, w) /\ SameChains(v.vol, w.vol)
         /\ w.vol = [v.vol EXCEPT ![DataSect(n)] = d]
<1>1. PICK V, s, W : V = v.vol /\ s = DataSect(n) /\ W = [V EXCEPT ![s] = d]
  OBVIOUS
<1>2. v = Rec(V, v.log, NoSect, FALSE, v) /\ Track(D, v.log, V)
  BY <1>1 DEF Good, Clean
<1>3. PICK log2 : log2 = Append(v.log, [sect |-> s, data |-> d])
  OBVIOUS
<1>4. w = [v EXCEPT !.vol = W, !.log = log2]
  BY ONLY <1>1, <1>3, w = WriteThrough(v, DataSect(n), d) DEF WriteThrough
<1>5. w = Rec(W, log2, NoSect, FALSE, w) /\ w.last_used = v.last_used /\ w.free_cnt = v.free_cnt
      /\ w.log = log2 /\ w.vol = W
  <2>1. PICK no, log, l, m, i : no = FALSE /\ log = v.log /\ l = v.last_used /\ m = v.free_cnt
                             /\ i = v.info_dirty
    OBVIOUS
  <2>2. v = [vol |-> V, log |-> log, sect |-> NoSect, dirty |-> no, info_dirty |-> i,
             last_used |-> l, free_cnt |-> m]
    BY ONLY <2>1, <1>2 DEF Rec
  <2>3. w = [vol |-> W, log |-> log2, sect |-> NoSect, dirty |-> no, info_dirty |-> i,
             last_used |-> l, free_cnt |-> m]
    BY ONLY <2>2, <1>4
  <2>4. w.info_dirty = i /\ w.last_used = l /\ w.free_cnt = m /\ w.log = log2 /\ w.vol = W
    BY ONLY <2>3
  <2>5. w = Rec(W, log2, NoSect, no, w)
    BY ONLY <2>3, <2>4 DEF Rec
  <2> QED BY ONLY <2>1, <2>4, <2>5
<1>6. PICK ch : SoundWith(V, ch) /\ \A f \in Files : ActiveChain(V, f) = ch[0][f]
  BY <1>1, GoodChains
<1>7. DOMAIN W = DOMAIN V /\ \A q \in DOMAIN V : q # s => W[q] = V[q]
  BY ONLY <1>1
<1>8. /\ s # InfoSect /\ s # DirSect /\ \A k \in Copies, c \in Clusters : s # FatSect(k, c)
  BY <1>1, SectorFacts
<1>9. Typed(V) /\ Covered(V, ch) /\ Counted(V)
  BY <1>6 DEF SoundWith
<1>10. SameTables(V, W) /\ W[InfoSect] = V[InfoSect] /\ W[DirSect] = V[DirSect]
       /\ InfoSect \in DOMAIN W /\ DirSect \in DOMAIN W
  BY <1>7, <1>8, <1>9 DEF SameTables, Typed
<1>11. SoundWith(W, ch) /\ FreeClusters(W) = FreeClusters(V)
  <2>1. W[InfoSect] \in [last_used : Int, free_cnt : Int] /\ W[DirSect] \in [Files -> Nat]
        /\ Counts(V, W[InfoSect])
    BY <1>9, <1>10 DEF Typed, Counted
  <2>2. \A f \in Files : W[DirSect][f] <= ClustSize * Len(ch[0][f])
    BY <1>9, <1>10 DEF Covered
  <2>3. SoundWith(V, ch)
    BY <1>6
  <2> QED BY <2>1, <2>2, <2>3, <1>10, TablesKept
<1>12. Sound(W)
  <2>1. ch = Chains(W)
    BY <1>11, SoundChains
  <2> QED BY <2>1, <1>11 DEF Sound
<1>13. Track(D, log2, W)
  BY <1>1, <1>2, <1>3, <1>12, TrackMore
<1>14. Clean(D, w, w.vol)
  BY ONLY <1>5, <1>13 DEF Clean
<1>15. Good(D, w) /\ Slack(w) = Slack(v)
  BY <1>1, <1>5, <1>11, <1>14 DEF Good, Slack, Counts
<1>16. Grows(V, W) /\ SameChains(V, W)
  <2>1. \A f \in Files : ActiveChain(W, f) = ch[0][f]
    BY <1>11, SoundChains, VolumeFacts DEF ActiveChain
  <2>2. \A f \in Files : Len(ch[0][f]) \in Nat
    BY <1>6, LastCluster
  <2> QED BY <2>1, <2>2, <1>6 DEF Grows, SameChains
<1> QED BY <1>1, <1>5, <1>11, <1>15, <1>16 DEF Later, Fewer

-----------------------------------------------------------------------------
(* fat_file_seek.                                                          *)

\* An operation's record.
WorkOK(D, r) ==
  /\ {"fs", "f", "err", "len", "bytes"} \subseteq DOMAIN r
  /\ Good(D, r.fs) /\ HandleOK(r.fs.vol, r.f) /\ r.len \in Nat

\* What a turn of the loop keeps of r.
Carries(r, w) ==
  /\ Later(r.fs, w.fs) /\ w.len = r.len
  /\ w.f.file = r.f.file /\ w.f.offset = r.f.offset /\ w.f.size = r.f.size

\* It moves the file along its chain.
LEMMA FollowOn ==
  ASSUME NEW D, NEW r, WorkOK(D, r), NEW i \in Nat, r.err = "NONE" => Place(r.fs.vol, r.f, i),
         NEW w, w = Follow(r)
  PROVE  /\ WorkOK(D, w) /\ Carries(r, w)
         /\ w.err = "NONE" => Place(w.fs.vol, w.f, i + 1)
<1>1. Good(D, r.fs) /\ HandleOK(r.fs.vol, r.f) /\ r.len \in Nat
      /\ {"fs", "f", "err", "len", "bytes"} \subseteq DOMAIN r
  BY DEF WorkOK
<1>2. Later(r.fs, r.fs)
  BY <1>1, GoodGrows
<1>3. CASE r.err # "NONE"
  <2>1. w = r
    BY <1>3 DEF Follow
  <2> QED BY <2>1, <1>2, <1>3 DEF Carries
<1>4. CASE r.err = "NONE"
  <2>1. PICK g \in Files : g = r.f.file
    BY <1>1 DEF HandleOK
  <2>2. PICK s : s = ActiveChain(r.fs.vol, g)
    OBVIOUS
  <2>3. PICK ch : SoundWith(r.fs.vol, ch) /\ s = ch[0][g]
    BY <1>1, <2>2, GoodChains
  <2>4. PICK n \in Nat : n = Len(s) /\ n > 0
    BY <2>3, LastCluster
  <2>5. PICK j \in 1 .. n : s[j] = r.f.clust /\ i <= j /\ r.f.offset \div ClustSize + 1 <= j
    <3>1. PICK a \in 1 .. n : s[a] = r.f.clust /\ i <= a
      BY <1>4, <2>1, <2>2, <2>4 DEF Place
    <3>2. PICK b \in 1 .. n : s[b] = r.f.clust /\ r.f.offset \div ClustSize + 1 <= b
      BY <1>1, <2>1, <2>2, <2>4 DEF Place, HandleOK
    <3>3. a = b
      <4>1. \A x, y \in 1 .. Len(ch[0][g]) : ch[0][g][x] = ch[0][g][y] => x = y
        BY <2>3, VolumeFacts DEF SoundWith, Apart
      <4> QED BY ONLY <4>1, <3>1, <3>2, <2>3, <2>4
    <3> QED BY ONLY <3>1, <3>2, <3>3
  <2>6. PICK next : next = get_fat(r.fs.vol, r.f.clust)
    OBVIOUS
  <2>7. next = IF j < n THEN s[j + 1] ELSE EOC
    <3>1. next = Entry(r.fs.vol, 0, s[j])
      BY <2>5, <2>6 DEF get_fat, Entry
    <3>2. \A x \in 1 .. n - 1 : Entry(r.fs.vol, 0, s[x]) = s[x + 1]
      BY <2>3, <2>4, VolumeFacts DEF SoundWith, Linked
    <3>3. Entry(r.fs.vol, 0, s[n]) = EOC
      BY <2>3, <2>4, VolumeFacts DEF SoundWith, Linked
    <3> QED BY ONLY <3>1, <3>2, <3>3, j \in 1 .. n, n \in Nat
  <2>8. \A x \in 1 .. n : s[x] \in Clusters
    <3>1. s \in Seq(Clusters \ {Root})
      BY <2>1, <2>3, LastCluster
    <3> QED BY <3>1, <2>4
  <2>9. r.f.offset \in Nat /\ r.f.offset \div ClustSize \in Nat
    BY <1>1, ClustSizeFacts DEF HandleOK
  <2>10. CASE j < n
    <3>1. j + 1 \in 1 .. n
      BY <2>10
    <3>2. next = s[j + 1] /\ next \in Clusters /\ next # FREE /\ next # EOC
      BY <3>1, <2>7, <2>8, <2>10, VolumeFacts
    <3>3. w = [r EXCEPT !.f.clust = next]
      BY <1>4, <2>6, <3>2 DEF Follow
    <3>4. w.fs = r.fs /\ w.f = [r.f EXCEPT !.clust = next] /\ w.len = r.len /\ w.err = r.err
          /\ DOMAIN w = DOMAIN r
      BY ONLY <3>3, <1>1
    <3>5. w.f.clust = next /\ w.f.file = r.f.file /\ w.f.offset = r.f.offset /\ w.f.size = r.f.size
          /\ w.f.sclust = r.f.sclust /\ DOMAIN w.f = DOMAIN r.f
      <4>1. {"file", "sclust", "clust", "offset", "size"} \subseteq DOMAIN r.f
        BY ONLY <1>1 DEF HandleOK
      <4> QED BY ONLY <4>1, <3>4
    <3>6. i + 1 <= j + 1 /\ r.f.offset \div ClustSize + 1 <= j + 1
      BY <2>5, <2>9
    <3>7. Place(w.fs.vol, w.f, i + 1) /\ Place(w.fs.vol, w.f, w.f.offset \div ClustSize + 1)
      BY ONLY <3>1, <3>2, <3>4, <3>5, <3>6, <2>1, <2>2, <2>4 DEF Place
    <3>8. HandleOK(w.fs.vol, w.f)
      BY ONLY <3>4, <3>5, <3>7, <1>1 DEF HandleOK
    <3> QED BY <3>4, <3>5, <3>7, <3>8, <1>1, <1>2 DEF WorkOK, Carries
  <2>11. CASE ~(j < n)
    <3>1. j = n /\ next = EOC /\ next # FREE
      BY <2>7, <2>11, VolumeFacts
    <3>2. PICK c : c = Pick(r.fs, r.f.clust)
      OBVIOUS
    <3>3. w = stretch_chain(r, c)
      BY <1>4, <2>6, <3>1, <3>2 DEF Follow
    <3>4. CASE c = FREE
      <4>1. PICK x, full : x = StretchBy(r.fs, r.f.clust, c) /\ full = "FULL"
        OBVIOUS
      <4>2. w = [r EXCEPT !.fs = x, !.err = full]
        BY ONLY <3>3, <3>4, <4>1 DEF stretch_chain
      <4>3. w.fs = x /\ w.f = r.f /\ w.len = r.len /\ w.err = full /\ DOMAIN w = DOMAIN r
        BY ONLY <4>2, <1>1
      <4>4. x = [r.fs EXCEPT !.info_dirty = TRUE]
        BY ONLY <3>4, <4>1 DEF StretchBy
      <4>5. Good(D, x) /\ x.vol = r.fs.vol /\ x.free_cnt = r.fs.free_cnt
        BY <4>4, <1>1, FullGood
      <4>6. Later(r.fs, x)
        BY <4>5, <1>2 DEF Later, Slack, Fewer
      <4> QED BY <4>1, <4>3, <4>5, <4>6, <1>1 DEF WorkOK, Carries
    <3>5. CASE c # FREE
      <4>1. PICK x : x = StretchBy(r.fs, s[n], c)
        OBVIOUS
      <4>2. r.f.clust = s[n] /\ s[n] \in Clusters /\ Counts(r.fs.vol, r.fs)
        BY <2>5, <2>8, <3>1, <1>1 DEF Good
      <4>3. c \in Clusters /\ Entry(r.fs.vol, 0, c) = FREE
        BY <3>2, <3>5, <4>2, PickFree
      <4>4. /\ Good(D, x) /\ Later(r.fs, x)
            /\ Len(ActiveChain(x.vol, g)) = n + 1 /\ ActiveChain(x.vol, g)[n + 1] = c
        <5>1. PICK v : v = r.fs
          OBVIOUS
        <5>2. Stretches(D, v, g, n, c, x)
          BY <5>1, <4>1, <4>3, <2>2, <2>4, <1>1 DEF Stretches
        <5>3. Good(D, x) /\ Later(v, x) /\ Len(ActiveChain(x.vol, g)) = n + 1
              /\ ActiveChain(x.vol, g)[n + 1] = c
          BY ONLY <5>2, StretchLater
        <5> QED BY ONLY <5>1, <5>3
      <4>5. w = [r EXCEPT !.fs = x, !.f.clust = c]
        BY ONLY <3>3, <3>5, <4>1, <4>2 DEF stretch_chain
      <4>6. w.fs = x /\ w.f = [r.f EXCEPT !.clust = c] /\ w.len = r.len /\ w.err = r.err
            /\ DOMAIN w = DOMAIN r
        BY ONLY <4>5, <1>1
      <4>7. w.f.clust = c /\ w.f.file = r.f.file /\ w.f.offset = r.f.offset /\ w.f.size = r.f.size
            /\ w.f.sclust = r.f.sclust /\ DOMAIN w.f = DOMAIN r.f
        <5>1. {"file", "sclust", "clust", "offset", "size"} \subseteq DOMAIN r.f
          BY ONLY <1>1 DEF HandleOK
        <5> QED BY ONLY <5>1, <4>6
      <4>8. i + 1 <= n + 1 /\ r.f.offset \div ClustSize + 1 <= n + 1 /\ n + 1 \in 1 .. n + 1
        BY <2>5, <2>9, <3>1
      <4>9. Place(w.fs.vol, w.f, i + 1) /\ Place(w.fs.vol, w.f, w.f.offset \div ClustSize + 1)
        BY ONLY <4>4, <4>6, <4>7, <4>8, <2>1 DEF Place
      <4>10. HandleOK(x.vol, r.f)
        BY <4>4, <1>1, HandleGrows DEF Later
      <4>11. HandleOK(w.fs.vol, w.f)
        BY ONLY <4>6, <4>7, <4>9, <4>10 DEF HandleOK
      <4> QED BY <4>4, <4>6, <4>7, <4>9, <4>11, <1>1 DEF WorkOK, Carries
    <3> QED BY <3>4, <3>5
  <2> QED BY <2>10, <2>11
<1> QED BY <1>3, <1>4
LEMMA CarriesTrans ==
  ASSUME NEW u, NEW v, NEW w, Carries(u, v), Carries(v, w)
  PROVE  Carries(u, w)
BY LaterTrans DEF Carries

\* The loop comes to the cluster of offset off, or meets an error.
LEMMA FollowedOn ==
  ASSUME NEW D, NEW r, WorkOK(D, r), NEW off \in Nat, NEW q \in Nat, q = r.f.offset \div ClustSize,
         NEW p \in Nat, p = off \div ClustSize, q <= p, NEW w, w = Followed(r, off)
  PROVE  /\ WorkOK(D, w) /\ Carries(r, w) /\ (p = q => w = r)
         /\ w.err = "NONE" => Place(w.fs.vol, w.f, p + 1)
<1>1. PICK m \in Nat : m = p - q
  OBVIOUS
<1>2. \E h : IsLoop(h, "seek", 0, 0, r, m)
  BY <1>1, LoopRuns
<1>3. PICK h : IsLoop(h, "seek", 0, 0, r, m) /\ w = h[m]
  <2>1. m = off \div ClustSize - r.f.offset \div ClustSize /\ w = Followed(r, off)
    BY <1>1
  <2>2. \A h : IsLoop(h, "seek", 0, 0, r, m) <=>
                 h = [i \in 0 .. m |-> IF i = 0 THEN r ELSE Follow(h[i - 1])]
    BY DEF IsLoop, Turn
  <2> QED BY ONLY <1>2, <2>1, <2>2 DEF Followed
<1>4. h[0] = r /\ \A i \in 0 .. m - 1 : h[i + 1] = Follow(h[i])
  BY <1>1, <1>3, LoopTurns DEF Turn
<1> DEFINE P(i) == /\ WorkOK(D, h[i]) /\ Carries(r, h[i])
                   /\ h[i].err = "NONE" => Place(h[i].fs.vol, h[i].f, q + 1 + i)
           S == {i \in Nat : P(i)}
<1>5. 0 \in S
  <2>1. Later(r.fs, r.fs)
    BY GoodGrows DEF WorkOK
  <2>2. Place(r.fs.vol, r.f, q + 1) /\ q + 1 + 0 = q + 1
    BY DEF WorkOK, HandleOK
  <2>3. WorkOK(D, h[0]) /\ Carries(r, h[0]) /\ Place(h[0].fs.vol, h[0].f, q + 1 + 0)
    BY <2>1, <2>2, <1>4 DEF Carries
  <2> QED BY <2>3
<1>6. ASSUME NEW i \in 0 .. m - 1, i \in S PROVE i + 1 \in S
  <2>1. i \in Nat /\ WorkOK(D, h[i]) /\ Carries(r, h[i])
        /\ (h[i].err = "NONE" => Place(h[i].fs.vol, h[i].f, q + 1 + i))
    BY <1>6
  <2>2. PICK j \in Nat : j = q + 1 + i
    BY <2>1
  <2>0. PICK x, y : x = h[i] /\ y = h[i + 1]
    OBVIOUS
  <2>3. WorkOK(D, x) /\ (x.err = "NONE" => Place(x.fs.vol, x.f, j)) /\ y = Follow(x)
    BY ONLY <2>0, <2>1, <2>2, <1>4, i \in 0 .. m - 1
  <2>4. WorkOK(D, y) /\ Carries(x, y) /\ (y.err = "NONE" => Place(y.fs.vol, y.f, j + 1))
    BY ONLY <2>3, j \in Nat, FollowOn
  <2>5. Carries(r, y)
    BY ONLY <2>0, <2>1, <2>4, CarriesTrans
  <2>6. q + 1 + (i + 1) = j + 1
    BY ONLY <2>1, <2>2, q \in Nat
  <2>7. P(i + 1)
    BY ONLY <2>0, <2>4, <2>5, <2>6
  <2> QED BY <2>1, <2>7
<1>7. \A i \in 0 .. m : i \in S
  <2> HIDE DEF S
  <2> QED BY <1>1, <1>5, <1>6, UpTo
<1>8. P(m)
  BY <1>7
<1>9. q + 1 + m = p + 1
  BY <1>1
<1>10. p = q => w = r
  <2>1. p = q => m = 0
    BY <1>1
  <2> QED BY ONLY <2>1, <1>3, <1>4
<1> QED BY ONLY <1>3, <1>8, <1>9, <1>10

\* A seek to an earlier cluster begins again at the first one.
LEMMA RewoundOn ==
  ASSUME NEW D, NEW r, WorkOK(D, r), NEW off \in Nat, NEW w, w = Rewound(r, off)
  PROVE  /\ WorkOK(D, w) /\ Later(r.fs, w.fs) /\ w.len = r.len
         /\ w.f.offset \div ClustSize <= off \div ClustSize
<1>1. Good(D, r.fs) /\ HandleOK(r.fs.vol, r.f) /\ r.len \in Nat
      /\ {"fs", "f", "err", "len", "bytes"} \subseteq DOMAIN r
  BY DEF WorkOK
<1>2. Later(r.fs, r.fs)
  BY <1>1, GoodGrows
<1>3. PICK q \in Nat : q = r.f.offset \div ClustSize
  BY <1>1, ClustSizeFacts DEF HandleOK
<1>4. PICK p \in Nat : p = off \div ClustSize
  BY ClustSizeFacts
<1>5. CASE p < q
  <2>1. PICK a : a = clust_to_sect(r.f.sclust)
    OBVIOUS
  <2>2. w = [r EXCEPT !.f.clust = r.f.sclust, !.f.sect = a, !.f.offset = 0]
    BY ONLY <2>1, <1>3, <1>4, <1>5, w = Rewound(r, off) DEF Rewound
  <2>3. PICK c, k : c = r.f.sclust /\ k = 0
    OBVIOUS
  <2>4. PICK f : f = [r.f EXCEPT !.clust = c, !.sect = a, !.offset = k]
    OBVIOUS
  <2>5. w.fs = r.fs /\ w.f = f /\ w.len = r.len /\ DOMAIN w = DOMAIN r
    BY ONLY <2>2, <2>3, <2>4, <1>1
  <2>6. {"file", "sclust", "clust", "sect", "offset", "size"} \subseteq DOMAIN r.f
    BY ONLY <1>1 DEF HandleOK
  <2>7. f.clust = c /\ f.file = r.f.file /\ f.offset = k /\ f.size = r.f.size
        /\ f.sclust = r.f.sclust /\ DOMAIN f = DOMAIN r.f
    BY ONLY <2>4, <2>6
  <2>8. r.f.file \in Files /\ c = StartClust[r.f.file]
    BY <1>1, <2>3 DEF HandleOK
  <2>9. 1 \in 1 .. Len(ActiveChain(r.fs.vol, f.file)) /\ ActiveChain(r.fs.vol, f.file)[1] = c
    BY <1>1, <2>7, <2>8, GoodGrows
  <2>10. k \in Nat /\ k \div ClustSize = 0 /\ k \div ClustSize + 1 <= 1
    BY <2>3, ClustSizeFacts
  <2>11. Place(r.fs.vol, f, k \div ClustSize + 1)
    BY ONLY <2>7, <2>9, <2>10 DEF Place
  <2>12. HandleOK(r.fs.vol, f)
    BY ONLY <2>7, <2>8, <2>10, <2>11, <1>1 DEF HandleOK
  <2>13. w.f.offset \div ClustSize <= p
    BY ONLY <2>5, <2>7, <2>10, p \in Nat
  <2> QED BY <2>5, <2>12, <2>13, <1>1, <1>2, <1>4 DEF WorkOK
<1>6. CASE ~(p < q)
  <2>1. w = r
    BY ONLY <1>3, <1>4, <1>6, w = Rewound(r, off) DEF Rewound
  <2> QED BY <2>1, <1>2, <1>3, <1>4, <1>6
<1> QED BY <1>5, <1>6

\* The buffer of the file is written to the sector it came from and filled anew.
LEMMA ArrivedOn ==
  ASSUME NEW D, NEW r, WorkOK(D, r), NEW off \in Nat,
         r.err = "NONE" => Place(r.fs.vol, r.f, off \div ClustSize + 1),
         NEW a, NEW w, w = Arrived(r, a, off)
  PROVE  /\ WorkOK(D, w) /\ Later(r.fs, w.fs) /\ w.len = r.len
         /\ ~r.f.dirty => w.fs = r.fs
<1>1. Good(D, r.fs) /\ HandleOK(r.fs.vol, r.f) /\ r.len \in Nat
      /\ {"fs", "f", "err", "len", "bytes"} \subseteq DOMAIN r
  BY DEF WorkOK
<1>2. Later(r.fs, r.fs)
  BY <1>1, GoodGrows
<1>3. CASE r.err # "NONE"
  <2>1. w = r
    BY ONLY <1>3, w = Arrived(r, a, off) DEF Arrived
  <2> QED BY <2>1, <1>2
<1>4. CASE r.err = "NONE"
  <2>1. PICK n : n = SectorOf(r.f.clust, off)
    OBVIOUS
  <2>2. PICK at : at = [r EXCEPT !.f.sect = n, !.f.offset = off]
    OBVIOUS
  <2>3. w = IF at.f.sect = a THEN at ELSE Loaded(Flushed(at, a))
    BY ONLY <2>1, <2>2, <1>4, w = Arrived(r, a, off) DEF Arrived
  <2>4. {"file", "sclust", "clust", "sect", "offset", "size", "dirty", "buf"} \subseteq DOMAIN r.f
    BY ONLY <1>1 DEF HandleOK
  <2>5. at.fs = r.fs /\ at.f = [r.f EXCEPT !.sect = n, !.offset = off] /\ at.len = r.len
        /\ DOMAIN at = DOMAIN r
    BY ONLY <2>2, <1>1
  <2>6. at.f.clust = r.f.clust /\ at.f.file = r.f.file /\ at.f.offset = off /\ at.f.size = r.f.size
        /\ at.f.sclust = r.f.sclust /\ at.f.dirty = r.f.dirty /\ DOMAIN at.f = DOMAIN r.f
    BY ONLY <2>4, <2>5
  <2>7. Place(r.fs.vol, at.f, off \div ClustSize + 1)
    BY ONLY <2>6, <1>4, r.err = "NONE" => Place(r.fs.vol, r.f, off \div ClustSize + 1) DEF Place
  <2>8. WorkOK(D, at)
    <3>1. HandleOK(at.fs.vol, at.f)
      BY ONLY <2>5, <2>6, <2>7, <1>1, off \in Nat DEF HandleOK
    <3> QED BY <3>1, <2>5, <1>1 DEF WorkOK
  <2>9. CASE at.f.sect = a
    BY <2>3, <2>5, <2>8, <2>9, <1>2
  <2>10. CASE at.f.sect # a
    <3>1. PICK x : x = Flushed(at, a)
      OBVIOUS
    <3>2. w = Loaded(x)
      BY ONLY <2>3, <2>10, <3>1
    <3>3. /\ WorkOK(D, x) /\ Later(r.fs, x.fs) /\ x.len = r.len
          /\ ~r.f.dirty => x.fs = r.fs
      <4>1. CASE at.f.dirty
        <5>1. PICK v, no : v = WriteThrough(at.fs, DataSect(a), at.f.buf) /\ no = FALSE
          OBVIOUS
        <5>2. x = [at EXCEPT !.fs = v, !.f.dirty = no]
          BY ONLY <3>1, <4>1, <5>1 DEF Flushed
        <5>3. x.fs = v /\ x.f = [at.f EXCEPT !.dirty = no] /\ x.len = at.len /\ DOMAIN x = DOMAIN at
          BY ONLY <5>2, <1>1, <2>5
        <5>4. x.f.clust = at.f.clust /\ x.f.file = at.f.file /\ x.f.offset = at.f.offset
              /\ x.f.size = at.f.size /\ x.f.sclust = at.f.sclust /\ DOMAIN x.f = DOMAIN at.f
          BY ONLY <5>3, <2>4, <2>6
        <5>5. Good(D, v) /\ Later(r.fs, v)
          BY <5>1, <2>5, <1>1, DataLater
        <5>6. HandleOK(v.vol, at.f)
          BY <5>5, <2>5, <2>8, HandleGrows DEF Later, WorkOK
        <5>7. Place(v.vol, x.f, x.f.offset \div ClustSize + 1)
          BY ONLY <5>4, <5>6 DEF HandleOK, Place
        <5>8. HandleOK(v.vol, x.f)
          BY ONLY <5>4, <5>6, <5>7 DEF HandleOK
        <5> QED BY <4>1, <5>3, <5>5, <5>8, <2>5, <2>6, <1>1 DEF WorkOK
      <4>2. CASE ~at.f.dirty
        <5>1. x = at
          BY ONLY <3>1, <4>2 DEF Flushed
        <5> QED BY <5>1, <2>5, <2>8, <1>2
      <4> QED BY <4>1, <4>2
    <3>4. PICK b : b = x.fs.vol[DataSect(x.f.sect)]
      OBVIOUS
    <3>5. w = [x EXCEPT !.f.buf = b]
      BY ONLY <3>2, <3>4 DEF Loaded
    <3>6. {"fs", "f", "err", "len", "bytes"} \subseteq DOMAIN x /\ HandleOK(x.fs.vol, x.f)
      BY <3>3 DEF WorkOK
    <3>7. w.fs = x.fs /\ w.f = [x.f EXCEPT !.buf = b] /\ w.len = x.len /\ DOMAIN w = DOMAIN x
      BY ONLY <3>5, <3>6
    <3>8. {"file", "sclust", "clust", "sect", "offset", "size", "dirty", "buf"} \subseteq DOMAIN x.f
      BY ONLY <3>6 DEF HandleOK
    <3>9. w.f.clust = x.f.clust /\ w.f.file = x.f.file /\ w.f.offset = x.f.offset
          /\ w.f.size = x.f.size /\ w.f.sclust = x.f.sclust /\ DOMAIN w.f = DOMAIN x.f
      BY ONLY <3>7, <3>8
    <3>10. Place(x.fs.vol, w.f, w.f.offset \div ClustSize + 1)
      BY ONLY <3>6, <3>9 DEF HandleOK, Place
    <3>11. HandleOK(x.fs.vol, w.f)
      BY ONLY <3>6, <3>9, <3>10 DEF HandleOK
    <3> QED BY <3>3, <3>6, <3>7, <3>11 DEF WorkOK
  <2> QED BY <2>9, <2>10
<1> QED BY <1>3, <1>4

\* fat_file_seek.
LEMMA SeekOK ==
  ASSUME NEW D, NEW r, WorkOK(D, r), NEW off \in Int, NEW w, w = fat_file_seek(r, off)
  PROVE  WorkOK(D, w) /\ Later(r.fs, w.fs) /\ w.len = r.len
<1>1. CASE off < 0
  <2>1. PICK e : e = "EOF"
    OBVIOUS
  <2>2. w = [r EXCEPT !.err = e]
    BY ONLY <2>1, <1>1, w = fat_file_seek(r, off) DEF fat_file_seek
  <2>3. {"fs", "f", "err", "len", "bytes"} \subseteq DOMAIN r
    BY DEF WorkOK
  <2>4. w.fs = r.fs /\ w.f = r.f /\ w.len = r.len /\ DOMAIN w = DOMAIN r
    BY ONLY <2>2, <2>3
  <2>5. Later(r.fs, r.fs)
    BY GoodGrows DEF WorkOK
  <2> QED BY <2>3, <2>4, <2>5 DEF WorkOK
<1>2. CASE ~(off < 0)
  <2>1. off \in Nat
    BY <1>2
  <2>2. PICK x : x = Rewound(r, off)
    OBVIOUS
  <2>3. PICK y : y = Followed(x, off)
    OBVIOUS
  <2>4. PICK a : a = r.f.sect
    OBVIOUS
  <2>5. w = Arrived(y, a, off)
    BY ONLY <2>2, <2>3, <2>4, <1>2, w = fat_file_seek(r, off) DEF fat_file_seek
  <2>6. WorkOK(D, x) /\ Later(r.fs, x.fs) /\ x.len = r.len
        /\ x.f.offset \div ClustSize <= off \div ClustSize
    BY <2>1, <2>2, RewoundOn
  <2>7. PICK q \in Nat : q = x.f.offset \div ClustSize
    BY <2>6, ClustSizeFacts DEF WorkOK, HandleOK
  <2>8. PICK p \in Nat : p = off \div ClustSize
    BY <2>1, ClustSizeFacts
  <2>9. /\ WorkOK(D, y) /\ Carries(x, y)
        /\ y.err = "NONE" => Place(y.fs.vol, y.f, p + 1)
    <3>1. q <= p
      BY <2>6, <2>7, <2>8
    <3> QED BY ONLY <3>1, <2>1, <2>3, <2>6, <2>7, <2>8, q \in Nat, p \in Nat, FollowedOn
  <2>10. WorkOK(D, w) /\ Later(y.fs, w.fs) /\ w.len = y.len
    BY <2>1, <2>5, <2>8, <2>9, ArrivedOn
  <2>11. Later(x.fs, y.fs) /\ y.len = x.len
    BY <2>9 DEF Carries
  <2>12. Later(r.fs, y.fs)
    BY ONLY <2>6, <2>11, LaterTrans
  <2> QED BY ONLY <2>6, <2>10, <2>11, <2>12, LaterTrans
<1> QED BY <1>1, <1>2

-----------------------------------------------------------------------------
(* fat_file_read, fat_file_write.                                          *)

LEMMA SectorOffset ==
  ASSUME NEW off \in Nat
  PROVE  off % SectSize \in Nat /\ SectSize - (off % SectSize) \in Nat
<1>1. SectSize \in Nat /\ SectSize > 0
  BY VolumeFacts
<1>2. \A m \in Nat : m > 0 => off % m \in 0 .. m - 1
  OBVIOUS
<1>3. off % SectSize \in 0 .. SectSize - 1
  BY ONLY <1>1, <1>2
<1> QED BY ONLY <1>1, <1>3

\* A turn of fat_file_read, whatever it copies, is a seek.
LEMMA ReadTurnOK ==
  ASSUME NEW D, NEW r, WorkOK(D, r), NEW w, w = ReadTurn(r)
  PROVE  WorkOK(D, w) /\ Later(r.fs, w.fs)
<1>1. Good(D, r.fs) /\ HandleOK(r.fs.vol, r.f) /\ r.len \in Nat
      /\ {"fs", "f", "err", "len", "bytes"} \subseteq DOMAIN r
  BY DEF WorkOK
<1>2. CASE r.err # "NONE" \/ r.len = 0 \/ r.f.offset >= r.f.size
  <2>1. w = r
    BY ONLY <1>2, w = ReadTurn(r) DEF ReadTurn
  <2> QED BY <2>1, <1>1, GoodGrows
<1>3. CASE ~(r.err # "NONE" \/ r.len = 0 \/ r.f.offset >= r.f.size)
  <2>1. PICK len, off, size, idx : /\ len = r.len /\ off = r.f.offset /\ size = r.f.size
                                   /\ idx = off % SectSize
    OBVIOUS
  <2>2. len \in Nat /\ off \in Nat /\ size \in Nat
    BY <1>1, <2>1 DEF HandleOK
  <2>3. SectSize - idx \in Nat /\ size - off \in Nat
    BY <2>1, <2>2, <1>3, SectorOffset
  <2>4. PICK S : S = {len, SectSize - idx, size - off}
    OBVIOUS
  <2>5. S \in SUBSET Nat /\ S # {} /\ len \in S
    BY ONLY <2>2, <2>3, <2>4
  <2>6. PICK cnt \in Nat : cnt = Min(S) /\ cnt <= len
    BY <2>5, MinOf
  <2>7. PICK b : b = r.bytes \o [j \in 1 .. cnt |-> r.f.buf[idx + j - 1]]
    OBVIOUS
  <2>8. PICK l, to : l = r.len - cnt /\ to = off + cnt
    OBVIOUS
  <2>9. PICK x : x = [r EXCEPT !.len = l, !.bytes = b]
    OBVIOUS
  <2>10. w = fat_file_seek(x, to)
    BY ONLY <2>1, <2>4, <2>6, <2>7, <2>8, <2>9, <1>3, w = ReadTurn(r) DEF ReadTurn
  <2>11. l \in Nat /\ to \in Int
    BY ONLY <2>1, <2>2, <2>6, <2>8, cnt \in Nat
  <2>12. x.fs = r.fs /\ x.f = r.f /\ x.len = l /\ DOMAIN x = DOMAIN r
    BY ONLY <2>9, <1>1
  <2>13. WorkOK(D, x)
    BY <2>11, <2>12, <1>1 DEF WorkOK
  <2>14. WorkOK(D, w) /\ Later(x.fs, w.fs)
    BY ONLY <2>10, <2>11, <2>13, SeekOK
  <2> QED BY ONLY <2>12, <2>14
<1> QED BY <1>2, <1>3

LEMMA WriteTurnOK ==
  ASSUME NEW D, NEW r, WorkOK(D, r), NEW w, w = WriteTurn(r)
  PROVE  WorkOK(D, w) /\ Later(r.fs, w.fs)
<1>1. Good(D, r.fs) /\ HandleOK(r.fs.vol, r.f) /\ r.len \in Nat
      /\ {"fs", "f", "err", "len", "bytes"} \subseteq DOMAIN r
  BY DEF WorkOK
<1>2. CASE r.err # "NONE" \/ r.len = 0
  <2>1. w = r
    BY ONLY <1>2, w = WriteTurn(r) DEF WriteTurn
  <2> QED BY <2>1, <1>1, GoodGrows
<1>3. CASE ~(r.err # "NONE" \/ r.len = 0)
  <2>1. PICK len, off, idx : len = r.len /\ off = r.f.offset /\ idx = off % SectSize
    OBVIOUS
  <2>2. len \in Nat /\ off \in Nat
    BY <1>1, <2>1 DEF HandleOK
  <2>3. SectSize - idx \in Nat
    BY <2>1, <2>2, SectorOffset
  <2>4. PICK S : S = {len, SectSize - idx}
    OBVIOUS
  <2>5. S \in SUBSET Nat /\ S # {} /\ len \in S
    BY ONLY <2>2, <2>3, <2>4
  <2>6. PICK cnt \in Nat : cnt = Min(S) /\ cnt <= len
    BY <2>5, MinOf
  <2>7. PICK b : b = [j \in 0 .. SectSize - 1 |-> IF j \in idx .. idx + cnt - 1
                                                  THEN NewByte ELSE r.f.buf[j]]
    OBVIOUS
  <2>8. PICK l, to, yes : l = r.len - cnt /\ to = off + cnt /\ yes = TRUE
    OBVIOUS
  <2>9. PICK x : x = [r EXCEPT !.len = l, !.f.buf = b, !.f.dirty = yes]
    OBVIOUS
  <2>10. w = fat_file_seek(x, to)
    BY ONLY <2>1, <2>4, <2>6, <2>7, <2>8, <2>9, <1>3, w = WriteTurn(r) DEF WriteTurn
  <2>11. l \in Nat /\ to \in Int
    BY ONLY <2>1, <2>2, <2>6, <2>8, cnt \in Nat
  <2>12. x.fs = r.fs /\ x.f = [r.f EXCEPT !.buf = b, !.dirty = yes] /\ x.len = l
         /\ DOMAIN x = DOMAIN r
    BY ONLY <2>9, <1>1
  <2>13. {"file", "sclust", "clust", "sect", "offset", "size", "dirty", "buf"} \subseteq DOMAIN r.f
    BY ONLY <1>1 DEF HandleOK
  <2>14. x.f.clust = r.f.clust /\ x.f.file = r.f.file /\ x.f.offset = r.f.offset
         /\ x.f.size = r.f.size /\ x.f.sclust = r.f.sclust /\ DOMAIN x.f = DOMAIN r.f
    BY ONLY <2>12, <2>13
  <2>15. Place(r.fs.vol, x.f, x.f.offset \div ClustSize + 1)
    BY ONLY <2>14, <1>1 DEF HandleOK, Place
  <2>16. HandleOK(r.fs.vol, x.f)
    BY ONLY <2>14, <2>15, <1>1 DEF HandleOK
  <2>17. WorkOK(D, x)
    BY <2>11, <2>12, <2>16, <1>1 DEF WorkOK
  <2>18. WorkOK(D, w) /\ Later(x.fs, w.fs)
    BY ONLY <2>10, <2>11, <2>17, SeekOK
  <2> QED BY ONLY <2>12, <2>18
<1> QED BY <1>2, <1>3

\* And so are any number of them.
LEMMA TurnsOK ==
  ASSUME NEW D, NEW r, WorkOK(D, r), NEW loop \in {"read", "write"}, NEW m \in Nat,
         NEW h, IsLoop(h, loop, 0, 0, r, m)
  PROVE  WorkOK(D, h[m]) /\ Later(r.fs, h[m].fs)
<1>1. h[0] = r /\ \A i \in 0 .. m - 1 : h[i + 1] = Turn(loop, 0, 0, h[i])
  BY LoopTurns
<1>2. \A x : Turn(loop, 0, 0, x) = ReadTurn(x) \/ Turn(loop, 0, 0, x) = WriteTurn(x)
  BY DEF Turn
<1> DEFINE S == {i \in Nat : WorkOK(D, h[i]) /\ Later(r.fs, h[i].fs)}
<1>3. 0 \in S
  <2>1. Later(r.fs, r.fs)
    BY GoodGrows DEF WorkOK
  <2> QED BY <2>1, <1>1
<1>4. ASSUME NEW i \in 0 .. m - 1, i \in S PROVE i + 1 \in S
  <2>1. PICK x, y : x = h[i] /\ y = h[i + 1]
    OBVIOUS
  <2>2. i \in Nat /\ WorkOK(D, x) /\ Later(r.fs, x.fs)
    BY <1>4, <2>1
  <2>3. y = ReadTurn(x) \/ y = WriteTurn(x)
    BY <1>1, <1>2, <2>1
  <2>4. WorkOK(D, y) /\ Later(x.fs, y.fs)
    BY ONLY <2>2, <2>3, ReadTurnOK, WriteTurnOK
  <2>5. Later(r.fs, y.fs)
    BY ONLY <2>2, <2>4, LaterTrans
  <2> QED BY <2>1, <2>2, <2>4, <2>5
<1>5. \A i \in 0 .. m : i \in S
  <2> HIDE DEF S
  <2> QED BY <1>3, <1>4, UpTo
<1> QED BY <1>5

\* An open file before and after one of these operations.
Opened(D, v, f) == Good(D, v) /\ HandleOK(v.vol, f)

LEMMA ReadOK ==
  ASSUME NEW D, NEW v, NEW f, Opened(D, v, f), NEW len \in Nat, NEW w, w = fat_file_read(v, f, len)
  PROVE  WorkOK(D, w) /\ Later(v, w.fs)
<1>1. PICK g, yes : g = [f EXCEPT !.accessed = yes] /\ yes = TRUE
  OBVIOUS
<1>2. PICK r : r = Work(v, g, len)
  OBVIOUS
<1>3. Good(D, v) /\ HandleOK(v.vol, f)
  BY DEF Opened
<1>4. {"file", "sclust", "clust", "sect", "offset", "size", "accessed", "buf"} \subseteq DOMAIN f
  BY ONLY <1>3 DEF HandleOK
<1>5. g.clust = f.clust /\ g.file = f.file /\ g.offset = f.offset
      /\ g.size = f.size /\ g.sclust = f.sclust /\ DOMAIN g = DOMAIN f
  BY ONLY <1>1, <1>4
<1>6. Place(v.vol, g, g.offset \div ClustSize + 1)
  BY ONLY <1>3, <1>5 DEF HandleOK, Place
<1>7. HandleOK(v.vol, g)
  BY ONLY <1>3, <1>5, <1>6 DEF HandleOK
<1>8. r.fs = v /\ r.f = g /\ r.len = len /\ {"fs", "f", "err", "len", "bytes"} \subseteq DOMAIN r
  BY ONLY <1>2 DEF Work
<1>9. WorkOK(D, r)
  BY <1>3, <1>7, <1>8 DEF WorkOK
<1>10. \E h : IsLoop(h, "read", 0, 0, r, len)
  BY LoopRuns
<1>11. PICK h : IsLoop(h, "read", 0, 0, r, len) /\ w = h[len]
  <2>1. \A h : IsLoop(h, "read", 0, 0, r, len) <=>
                 h = [i \in 0 .. len |-> IF i = 0 THEN r ELSE ReadTurn(h[i - 1])]
    BY DEF IsLoop, Turn
  <2>2. w = ReadTurns(r)
    BY ONLY <1>1, <1>2, w = fat_file_read(v, f, len) DEF fat_file_read
  <2>3. r.len = len
    BY <1>8
  <2> QED BY ONLY <1>10, <2>1, <2>2, <2>3 DEF ReadTurns
<1>12. WorkOK(D, h[len]) /\ Later(r.fs, h[len].fs)
  BY <1>9, <1>11, TurnsOK
<1> QED BY ONLY <1>8, <1>11, <1>12

\* The size of a written file does not pass the end of its chain.
LEMMA SizedOK ==
  ASSUME NEW D, NEW r, WorkOK(D, r), NEW w, w = Sized(r)
  PROVE  WorkOK(D, w) /\ w.fs = r.fs
<1>1. Good(D, r.fs) /\ HandleOK(r.fs.vol, r.f) /\ r.len \in Nat
      /\ {"fs", "f", "err", "len", "bytes"} \subseteq DOMAIN r
  BY DEF WorkOK
<1>2. PICK a, b : a = r.f.size /\ b = r.f.offset
  OBVIOUS
<1>3. a \in Nat /\ b \in Nat
  BY <1>1, <1>2 DEF HandleOK
<1>4. PICK n : n = Max({a, b})
  OBVIOUS
<1>5. n \in {a, b}
  <2>1. \E x \in {a, b} : \A y \in {a, b} : x >= y
    BY <1>3
  <2> QED BY ONLY <2>1, <1>4 DEF Max
<1>6. PICK l : l = Len(ActiveChain(r.fs.vol, r.f.file))
  OBVIOUS
<1>7. l \in Nat
  BY <1>1, <1>6, GoodGrows DEF HandleOK
<1>8. b <= ClustSize * l
  <2>1. PICK j \in 1 .. l : b \div ClustSize + 1 <= j
    BY <1>1, <1>2, <1>6 DEF HandleOK, Place
  <2>2. b \div ClustSize \in Nat
    BY <1>3, ClustSizeFacts
  <2>3. b \div ClustSize < l
    BY ONLY <2>1, <2>2, <1>7, j \in 1 .. l
  <2> QED BY <2>3, <1>3, <1>7, ClustSizeFacts
<1>9. a <= ClustSize * l
  BY <1>1, <1>2, <1>6 DEF HandleOK
<1>10. n \in Nat /\ n <= ClustSize * l
  BY ONLY <1>3, <1>5, <1>8, <1>9
<1>11. PICK e : e = "NONE"
  OBVIOUS
<1>12. w = [r EXCEPT !.f.size = n, !.err = e]
  BY ONLY <1>2, <1>4, <1>11, w = Sized(r) DEF Sized
<1>13. w.fs = r.fs /\ w.f = [r.f EXCEPT !.size = n] /\ w.len = r.len /\ DOMAIN w = DOMAIN r
  BY ONLY <1>12, <1>1
<1>14. {"file", "sclust", "clust", "sect", "offset", "size", "dirty", "buf"} \subseteq DOMAIN r.f
  BY ONLY <1>1 DEF HandleOK
<1>15. w.f.clust = r.f.clust /\ w.f.file = r.f.file /\ w.f.offset = r.f.offset
       /\ w.f.size = n /\ w.f.sclust = r.f.sclust /\ DOMAIN w.f = DOMAIN r.f
  BY ONLY <1>13, <1>14
<1>16. Place(r.fs.vol, w.f, w.f.offset \div ClustSize + 1)
  BY ONLY <1>1, <1>15 DEF HandleOK, Place
<1>17. HandleOK(r.fs.vol, w.f)
  BY ONLY <1>1, <1>6, <1>10, <1>15, <1>16 DEF HandleOK
<1> QED BY <1>1, <1>13, <1>17 DEF WorkOK

LEMMA WriteOK ==
  ASSUME NEW D, NEW v, NEW f, Opened(D, v, f), NEW len \in Nat, NEW w, w = fat_file_write(v, f, len)
  PROVE  WorkOK(D, w) /\ Later(v, w.fs)
<1>1. PICK g, yes : g = [f EXCEPT !.modified = yes, !.accessed = yes] /\ yes = TRUE
  OBVIOUS
<1>2. PICK r : r = Work(v, g, len)
  OBVIOUS
<1>3. Good(D, v) /\ HandleOK(v.vol, f)
  BY DEF Opened
<1>4. {"file", "sclust", "clust", "sect", "offset", "size", "modified", "accessed", "buf"}
        \subseteq DOMAIN f
  BY ONLY <1>3 DEF HandleOK
<1>5. g.clust = f.clust /\ g.file = f.file /\ g.offset = f.offset
      /\ g.size = f.size /\ g.sclust = f.sclust /\ DOMAIN g = DOMAIN f
  BY ONLY <1>1, <1>4
<1>6. Place(v.vol, g, g.offset \div ClustSize + 1)
  BY ONLY <1>3, <1>5 DEF HandleOK, Place
<1>7. HandleOK(v.vol, g)
  BY ONLY <1>3, <1>5, <1>6 DEF HandleOK
<1>8. r.fs = v /\ r.f = g /\ r.len = len /\ {"fs", "f", "err", "len", "bytes"} \subseteq DOMAIN r
  BY ONLY <1>2 DEF Work
<1>9. WorkOK(D, r)
  BY <1>3, <1>7, <1>8 DEF WorkOK
<1>10. \E h : IsLoop(h, "write", 0, 0, r, len)
  BY LoopRuns
<1>11. PICK h : IsLoop(h, "write", 0, 0, r, len) /\ w = Sized(h[len])
  <2>1. \A h : IsLoop(h, "write", 0, 0, r, len) <=>
                 h = [i \in 0 .. len |-> IF i = 0 THEN r ELSE WriteTurn(h[i - 1])]
    BY DEF IsLoop, Turn
  <2>2. w = Sized(WriteTurns(r))
    BY ONLY <1>1, <1>2, w = fat_file_write(v, f, len) DEF fat_file_write
  <2>3. r.len = len
    BY <1>8
  <2> QED BY ONLY <1>10, <2>1, <2>2, <2>3 DEF WriteTurns
<1>12. PICK x : x = h[len]
  OBVIOUS
<1>13. WorkOK(D, x) /\ Later(r.fs, x.fs)
  BY <1>9, <1>11, <1>12, TurnsOK
<1>14. WorkOK(D, w) /\ w.fs = x.fs
  BY ONLY <1>11, <1>12, <1>13, SizedOK
<1> QED BY ONLY <1>8, <1>13, <1>14

-----------------------------------------------------------------------------
(* fat_file_sync.                                                          *)

\* A directory whose sizes the chains cover.
LEMMA DirWritten ==
  ASSUME NEW D, NEW v, Good(D, v), NEW d \in [Files -> Nat],
         \A f \in Files : d[f] <= ClustSize * Len(ActiveChain(v.vol, f)),
         NEW x, x = Change(v, DirSect, d), NEW w, w = sync_fs(x)
  PROVE  Good(D, w) /\ Later(v, w) /\ SameChains(v.vol, w.vol)
<1>1. PICK V, W : V = v.vol /\ W = [V EXCEPT ![DirSect] = d]
  OBVIOUS
<1>2. PICK ch : SoundWith(V, ch) /\ \A f \in Files : ActiveChain(V, f) = ch[0][f]
  BY <1>1, GoodChains
<1>3. Typed(V) /\ Counted(V)
  BY <1>2 DEF SoundWith
<1>4. DirSect \in DOMAIN V /\ InfoSect \in DOMAIN V /\ DirSect # NoSect /\ DirSect # InfoSect
      /\ \A k \in Copies, c \in Clusters : FatSect(k, c) # DirSect
  BY <1>3, SectorFacts DEF Typed, DirSect, NoSect, InfoSect
<1>5. DOMAIN W = DOMAIN V /\ W[DirSect] = d /\ \A q \in DOMAIN V : q # DirSect => W[q] = V[q]
  BY ONLY <1>1, <1>4
<1>6. SameTables(V, W) /\ W[InfoSect] = V[InfoSect]
  BY <1>3, <1>4, <1>5 DEF SameTables, Typed
<1>7. SoundWith(W, ch) /\ FreeClusters(W) = FreeClusters(V)
  <2>1. W[InfoSect] \in [last_used : Int, free_cnt : Int] /\ W[DirSect] \in [Files -> Nat]
        /\ Counts(V, W[InfoSect]) /\ InfoSect \in DOMAIN W /\ DirSect \in DOMAIN W
    BY <1>3, <1>4, <1>5, <1>6 DEF Typed, Counted
  <2>2. \A f \in Files : W[DirSect][f] <= ClustSize * Len(ch[0][f])
    BY <1>1, <1>2, <1>5
  <2>3. SoundWith(V, ch)
    BY <1>2
  <2> QED BY <2>1, <2>2, <2>3, <1>6, TablesKept
<1>8. Clean(D, v, V)
  BY <1>1 DEF Good
<1>9. Buffered(D, x, W, DirSect) /\ Keeps(v, x)
  <2>1. PICK s : s = DirSect
    OBVIOUS
  <2>2. s # NoSect /\ s \in DOMAIN V /\ x = Change(v, s, d) /\ W = [V EXCEPT ![s] = d]
    BY <2>1, <1>1, <1>4
  <2> QED BY <2>1, <2>2, <1>8, ChangeClean
<1>10. Sees(D, x, W) /\ Counts(W, x) /\ x.free_cnt = v.free_cnt
  BY <1>1, <1>7, <1>9 DEF Sees, Keeps, Good, Counts
<1>11. /\ Good(D, w) /\ SoundWith(w.vol, ch) /\ FreeClusters(w.vol) = FreeClusters(W)
       /\ w.free_cnt = x.free_cnt
  <2>1. SoundWith(W, ch)
    BY <1>7
  <2> QED BY <2>1, <1>10, FsWritten
<1>12. \A f \in Files : ActiveChain(w.vol, f) = ch[0][f] /\ Len(ch[0][f]) \in Nat
  BY <1>11, SoundChains, VolumeFacts, LastCluster DEF ActiveChain
<1>13. Grows(V, w.vol)
  BY <1>2, <1>12 DEF Grows
<1>14. Slack(w) = Slack(v)
  BY <1>1, <1>7, <1>10, <1>11 DEF Slack
<1>15. SameChains(v.vol, w.vol)
  BY <1>1, <1>2, <1>12 DEF SameChains
<1> QED BY <1>1, <1>7, <1>11, <1>13, <1>14, <1>15 DEF Later, Fewer

LEMMA SyncOK ==
  ASSUME NEW D, NEW v, NEW f, Opened(D, v, f), NEW w, w = fat_file_sync(v, f)
  PROVE  Good(D, w) /\ Later(v, w) /\ SameChains(v.vol, w.vol)
<1>1. PICK n, b : n = f.sect /\ b = f.buf
  OBVIOUS
<1>2. PICK u : u = WriteThrough(v, DataSect(n), b)
  OBVIOUS
<1>3. Good(D, u) /\ Later(v, u) /\ SameChains(v.vol, u.vol)
  BY <1>2, DataLater DEF Opened
<1>4. HandleOK(u.vol, f)
  BY <1>3, HandleGrows DEF Opened, Later
<1>5. PICK x : x = SyncEntry(u, f)
  OBVIOUS
<1>6. w = sync_fs(x)
  BY ONLY <1>1, <1>2, <1>5, w = fat_file_sync(v, f) DEF fat_file_sync
<1>7. PICK ch : SoundWith(u.vol, ch) /\ \A g \in Files : ActiveChain(u.vol, g) = ch[0][g]
  BY <1>3, GoodChains
<1>8. PICK d : d = u.vol[DirSect]
  OBVIOUS
<1>9. d \in [Files -> Nat] /\ \A g \in Files : d[g] <= ClustSize * Len(ActiveChain(u.vol, g))
  BY <1>7, <1>8 DEF SoundWith, Typed, Covered
<1>10. Good(D, w) /\ Later(u, w) /\ SameChains(u.vol, w.vol)
  <2>1. CASE f.modified
    <3>1. PICK e : e = [d EXCEPT ![f.file] = f.size]
      OBVIOUS
    <3>2. x = Change(u, DirSect, e)
      BY ONLY <1>5, <1>8, <2>1, <3>1 DEF SyncEntry
    <3>3. f.file \in Files /\ f.size \in Nat /\ f.size <= ClustSize * Len(ActiveChain(u.vol, f.file))
      BY <1>4 DEF HandleOK
    <3>4. e \in [Files -> Nat] /\ \A g \in Files : e[g] <= ClustSize * Len(ActiveChain(u.vol, g))
      BY ONLY <1>9, <3>1, <3>3
    <3> QED BY ONLY <3>2, <3>4, <1>3, <1>6, DirWritten
  <2>2. CASE ~f.modified /\ f.accessed
    <3>1. x = Change(u, DirSect, d)
      BY ONLY <1>5, <1>8, <2>2 DEF SyncEntry
    <3> QED BY ONLY <3>1, <1>3, <1>6, <1>9, DirWritten
  <2>3. CASE ~f.modified /\ ~f.accessed
    <3>1. x = u
      BY ONLY <1>5, <2>3 DEF SyncEntry
    <3>2. Sees(D, u, u.vol) /\ Counts(u.vol, u)
      BY <1>3 DEF Sees, Good
    <3>3. PICK U : U = u.vol
      OBVIOUS
    <3>4. /\ Good(D, w) /\ SoundWith(w.vol, ch) /\ FreeClusters(w.vol) = FreeClusters(U)
          /\ w.free_cnt = u.free_cnt
      <4>1. Sees(D, u, U) /\ Counts(U, u) /\ w = sync_fs(u)
            /\ SoundWith(U, ch)
        BY <3>1, <3>2, <3>3, <1>6, <1>7
      <4> QED BY <4>1, <3>2, FsWritten
    <3>5. \A g \in Files : ActiveChain(w.vol, g) = ch[0][g] /\ Len(ch[0][g]) \in Nat
      BY <3>4, SoundChains, VolumeFacts, LastCluster DEF ActiveChain
    <3>6. Grows(u.vol, w.vol) /\ Slack(w) = Slack(u)
          /\ Fewer(u, w)
      BY <3>3, <3>4, <3>5, <1>7 DEF Grows, Slack, Fewer
    <3>7. SameChains(u.vol, w.vol)
      BY <3>5, <1>7 DEF SameChains
    <3> QED BY <3>4, <3>6, <3>7 DEF Later
  <2> QED BY <2>1, <2>2, <2>3
<1>11. SameChains(v.vol, w.vol)
  BY ONLY <1>3, <1>10 DEF SameChains
<1> QED BY ONLY <1>3, <1>10, <1>11, LaterTrans

-----------------------------------------------------------------------------
(* The inductive invariant of FatFile.                                     *)

HandlesOK(V, hd) ==
  /\ DOMAIN hd = Handles
  /\ \A h \in Handles : hd[h] # Closed => HandleOK(V, hd[h])

\* The chains are long enough for the cached sizes too.
SizesOK(V, sz) ==
  /\ DOMAIN sz = Files
  /\ \A f \in Files : sz[f] # Closed =>
       sz[f] \in Nat /\ sz[f] <= ClustSize * Len(ActiveChain(V, f))

FatInv ==
  /\ Good(disk, fs)
  /\ HandlesOK(fs.vol, handle)
  /\ SizesOK(fs.vol, isize)
  /\ ~crashed => Slack(fs) = 0

LEMMA AllGrow ==
  ASSUME NEW V, NEW W, Grows(V, W), NEW hd, HandlesOK(V, hd), NEW sz, SizesOK(V, sz)
  PROVE  HandlesOK(W, hd) /\ SizesOK(W, sz)
<1>1. HandlesOK(W, hd)
  BY HandleGrows DEF HandlesOK
<1>2. ASSUME NEW f \in Files, sz[f] # Closed
      PROVE  sz[f] \in Nat /\ sz[f] <= ClustSize * Len(ActiveChain(W, f))
  <2>1. PICK n, a, b : n = sz[f] /\ a = Len(ActiveChain(V, f)) /\ b = Len(ActiveChain(W, f))
    OBVIOUS
  <2>2. n \in Nat /\ n <= ClustSize * a
    BY <1>2, <2>1 DEF SizesOK
  <2>3. a \in Nat /\ b \in Nat /\ a <= b
    BY <2>1 DEF Grows
  <2>4. ClustSize * a <= ClustSize * b /\ ClustSize * a \in Int /\ ClustSize * b \in Int
    BY <2>3, ClustSizeFacts, TimesMono
  <2>5. n <= ClustSize * b
    BY ONLY <2>2, <2>4
  <2> QED BY ONLY <2>1, <2>2, <2>5
<1>3. SizesOK(W, sz)
  BY <1>2 DEF SizesOK
<1> QED BY <1>1, <1>3

\* The freshly formatted volume.
LEMMA FormattedEntries ==
  /\ InfoSect \in DOMAIN Volume0 /\ DirSect \in DOMAIN Volume0
  /\ Volume0[DirSect] = Size0
  /\ Volume0[InfoSect] = [last_used |-> Root,
                          free_cnt |-> Cardinality(Clusters) - Cardinality(Used)]
  /\ \A k \in Copies, c \in Clusters :
       /\ FatSect(k, c) \in DOMAIN Volume0
       /\ Volume0[FatSect(k, c)] = [x \in Table(c) |-> IF x \in Used THEN EOC ELSE FREE]
       /\ Entry(Volume0, k, c) = IF c \in Used THEN EOC ELSE FREE
<1>1. DOMAIN Volume0 = FatSects \union DataSects \union {InfoSect, DirSect}
  BY DEF Volume0
<1>2. InfoSect \notin FatSects /\ DirSect \notin FatSects
  BY SectorFacts DEF FatSects
<1>3. InfoSect \notin DataSects /\ DirSect \notin DataSects
  BY SectorFacts DEF DataSects
<1>4. InfoSect # DirSect
  BY SectorFacts
<1>5. Volume0[DirSect] = Size0
  <2>1. DirSect \in FatSects \union DataSects \union {InfoSect, DirSect}
    OBVIOUS
  <2> QED BY ONLY <2>1, <1>2, <1>3 DEF Volume0
<1>6. Volume0[InfoSect] = [last_used |-> Root,
                           free_cnt |-> Cardinality(Clusters) - Cardinality(Used)]
  <2>1. InfoSect \in FatSects \union DataSects \union {InfoSect, DirSect}
    OBVIOUS
  <2> QED BY ONLY <2>1, <1>2, <1>3, <1>4 DEF Volume0
<1>7. ASSUME NEW k \in Copies, NEW c \in Clusters
      PROVE  /\ FatSect(k, c) \in DOMAIN Volume0
             /\ Volume0[FatSect(k, c)] = [x \in Table(c) |-> IF x \in Used THEN EOC ELSE FREE]
             /\ Entry(Volume0, k, c) = IF c \in Used THEN EOC ELSE FREE
  <2>1. FatSect(k, c) \in FatSects /\ FatSect(k, c)[3] = c \div PerSect
    BY DEF FatSects, FatSect
  <2>2. PICK s : s = FatSect(k, c)
    OBVIOUS
  <2>3. s \in FatSects \union DataSects \union {InfoSect, DirSect} /\ s \in FatSects
    BY <2>1, <2>2
  <2>4. Volume0[s] = [x \in {y \in Clusters : y \div PerSect = s[3]} |->
                        IF x \in Used THEN EOC ELSE FREE]
    BY ONLY <2>3 DEF Volume0
  <2>5. {y \in Clusters : y \div PerSect = s[3]} = Table(c)
    BY ONLY <2>1, <2>2 DEF Table
  <2>6. Volume0[s] = [x \in Table(c) |-> IF x \in Used THEN EOC ELSE FREE]
    BY ONLY <2>4, <2>5
  <2>7. c \in Table(c)
    BY DEF Table
  <2>8. Volume0[s][c] = IF c \in Used THEN EOC ELSE FREE
    BY ONLY <2>6, <2>7
  <2> QED BY <1>1, <2>2, <2>3, <2>6, <2>8 DEF Entry
<1> QED BY <1>1, <1>5, <1>6, <1>7

LEMMA FormattedSound ==
  Sound(Volume0) /\ Volume0[InfoSect].free_cnt = Cardinality(FreeClusters(Volume0))
<1>1. PICK V : V = Volume0
  OBVIOUS
<1>2. /\ InfoSect \in DOMAIN V /\ DirSect \in DOMAIN V
      /\ V[DirSect] = Size0
      /\ V[InfoSect] = [last_used |-> Root,
                        free_cnt |-> Cardinality(Clusters) - Cardinality(Used)]
      /\ \A k \in Copies, c \in Clusters :
           /\ FatSect(k, c) \in DOMAIN V
           /\ V[FatSect(k, c)] = [x \in Table(c) |-> IF x \in Used THEN EOC ELSE FREE]
           /\ Entry(V, k, c) = IF c \in Used THEN EOC ELSE FREE
  BY <1>1, FormattedEntries
<1>3. StartClust \in [Files -> Clusters \ {Root}] /\ Size0 \in [Files -> 0 .. ClustSize]
      /\ \A f, g \in Files : StartClust[f] = StartClust[g] => f = g
  BY FatFileAssumption DEF IsInjective
<1>4. Used \subseteq Clusters /\ Root \in Used /\ \A f \in Files : StartClust[f] \in Used
  BY <1>3, VolumeFacts DEF Used, Range
<1>5. FreeClusters(V) = Clusters \ Used
  <2>1. \A c \in Clusters : Entry(V, 0, c) = FREE <=> c \notin Used
    BY <1>2, VolumeFacts
  <2> QED BY <2>1 DEF FreeClusters, IsFree, get_fat, Entry
<1>6. /\ Cardinality(Used) \in Nat /\ Cardinality(Clusters) \in Nat
      /\ Cardinality(FreeClusters(V)) = Cardinality(Clusters) - Cardinality(Used)
  <2>1. IsFiniteSet(Clusters) /\ Clusters \cap Used = Used /\ IsFiniteSet(Used)
    BY <1>4, VolumeFacts, FS_Subset
  <2>2. Cardinality(Clusters \ Used) = Cardinality(Clusters) - Cardinality(Used)
    BY <2>1, FS_Difference
  <2> QED BY <2>1, <2>2, <1>5, FS_CardinalityType
<1>7. V[InfoSect].free_cnt = Cardinality(FreeClusters(V)) /\ Counted(V)
  BY <1>2, <1>4, <1>5, <1>6 DEF Counted, Counts
<1>8. PICK ch : ch = [k \in Copies |-> [f \in Files |-> <<StartClust[f]>>]]
  OBVIOUS
<1>9. \A k \in Copies, f \in Files : /\ ch[k][f] = <<StartClust[f]>> /\ Len(ch[k][f]) = 1
                                     /\ ch[k][f][1] = StartClust[f]
  BY <1>8
<1>10. ch \in ChainSets
  <2>1. \A f \in Files : <<StartClust[f]>> \in Seq(Clusters \ {Root})
    BY <1>3
  <2> QED BY ONLY <2>1, <1>8 DEF ChainSets
<1>11. Typed(V)
  <2>1. \A c \in Clusters : [x \in Table(c) |-> IF x \in Used THEN EOC ELSE FREE] \in [Table(c) -> Int]
    BY VolumeFacts DEF FREE
  <2>2. V[InfoSect] \in [last_used : Int, free_cnt : Int]
    BY <1>2, <1>6, VolumeFacts
  <2>3. V[DirSect] \in [Files -> Nat]
    BY <1>2, <1>3, ClustSizeFacts
  <2>4. DataSects \subseteq DOMAIN V
    BY <1>1 DEF Volume0
  <2> QED BY <2>1, <2>2, <2>3, <2>4, <1>2 DEF Typed
<1>12. Linked(V, ch)
  <2>1. ASSUME NEW k \in Copies, NEW f \in Files
        PROVE  /\ Len(ch[k][f]) >= 1 /\ ch[k][f][1] = StartClust[f]
               /\ \A i \in 1 .. Len(ch[k][f]) - 1 : Entry(V, k, ch[k][f][i]) = ch[k][f][i + 1]
               /\ Entry(V, k, ch[k][f][Len(ch[k][f])]) = EOC
               /\ \A i \in 1 .. Len(ch[k][f]) : Entry(V, 0, ch[k][f][i]) # FREE
    <3>1. Len(ch[k][f]) = 1 /\ ch[k][f][1] = StartClust[f]
      BY <1>9
    <3>2. StartClust[f] \in Clusters /\ StartClust[f] \in Used
      BY <1>3, <1>4
    <3>3. Entry(V, k, StartClust[f]) = EOC /\ Entry(V, 0, StartClust[f]) = EOC /\ EOC # FREE
      BY <3>2, <1>2, VolumeFacts
    <3> QED BY ONLY <3>1, <3>3
  <2> QED BY ONLY <2>1 DEF Linked
<1>13. Apart(ch) /\ Ahead(ch)
  <2>1. \A k \in Copies, f \in Files : Len(ch[k][f]) = 1 /\ ch[k][f][1] = StartClust[f]
    BY <1>9
  <2>2. Apart(ch)
    BY ONLY <2>1, <1>3 DEF Apart
  <2>3. Ahead(ch)
    BY ONLY <2>1, VolumeFacts DEF Ahead
  <2> QED BY <2>2, <2>3
<1>14. Mirrored(V)
  BY <1>2, VolumeFacts DEF Mirrored
<1>15. Covered(V, ch)
  <2>1. \A f \in Files : Size0[f] \in Int /\ Size0[f] <= ClustSize
    BY <1>3, ClustSizeFacts
  <2>2. \A f \in Files : Len(ch[0][f]) = 1
    BY <1>9, VolumeFacts
  <2>3. ClustSize * 1 = ClustSize
    BY ClustSizeFacts
  <2> QED BY ONLY <2>1, <2>2, <2>3, <1>2 DEF Covered
<1>16. Entry(V, 0, Root) # FREE
  BY <1>2, <1>4, VolumeFacts
<1>17. SoundWith(V, ch)
  BY <1>7, <1>10, <1>11, <1>12, <1>13, <1>14, <1>15, <1>16 DEF SoundWith
<1>18. Sound(V)
  <2>1. ch = Chains(V)
    BY <1>17, SoundChains
  <2> QED BY <2>1, <1>17 DEF Sound
<1> QED BY <1>1, <1>7, <1>18

\* fat_mount of a sound volume.
LEMMA MountGood ==
  ASSUME NEW V, Sound(V), NEW w, w = Mounted(V)
  PROVE  Good(V, w) /\ w.vol = V /\ w.free_cnt = V[InfoSect].free_cnt
<1>1. Counts(V, V[InfoSect])
  BY DEF Sound, SoundWith, Counted
<1>2. PICK no, l, n, log : no = FALSE /\ l = V[InfoSect].last_used /\ n = V[InfoSect].free_cnt
                           /\ log = <<>>
  OBVIOUS
<1>3. w = [vol |-> V, log |-> log, sect |-> NoSect, dirty |-> no, info_dirty |-> no,
           last_used |-> l, free_cnt |-> n]
  BY ONLY <1>2, w = Mounted(V) DEF Mounted
<1>4. w.vol = V /\ w.log = log /\ w.info_dirty = no /\ w.last_used = l /\ w.free_cnt = n
  BY ONLY <1>3
<1>5. w = Rec(V, log, NoSect, no, w)
  BY ONLY <1>3, <1>4 DEF Rec
<1>6. Track(V, log, V)
  BY <1>2, TrackNone
<1>7. Clean(V, w, V)
  BY ONLY <1>2, <1>4, <1>5, <1>6 DEF Clean
<1> QED BY <1>1, <1>2, <1>4, <1>7 DEF Good, Counts

-----------------------------------------------------------------------------
(* The steps.                                                              *)

LEMMA InitFat ==
  ASSUME Init
  PROVE  FatInv
<1>1. PICK V, w : V = disk /\ w = fs
  OBVIOUS
<1>2. V = Volume0 /\ w = Mounted(V)
  BY <1>1 DEF Init
<1>3. Sound(V) /\ V[InfoSect].free_cnt = Cardinality(FreeClusters(V))
  BY <1>2, FormattedSound
<1>4. Good(V, w) /\ w.vol = V /\ w.free_cnt = V[InfoSect].free_cnt
  BY <1>2, <1>3, MountGood
<1>5. Slack(w) = 0
  BY <1>3, <1>4, FewerFree DEF Slack
<1>6. HandlesOK(w.vol, handle) /\ SizesOK(w.vol, isize)
  BY DEF Init, HandlesOK, SizesOK
<1> QED BY <1>1, <1>4, <1>5, <1>6 DEF FatInv

\* The parts of the invariant, of named values.
Holds(D, v, hd, sz) == Good(D, v) /\ HandlesOK(v.vol, hd) /\ SizesOK(v.vol, sz)

\* A call that leaves f in the handle h, and the volume as w has it.
Leaves(D, v, w, hd, he, h, f) ==
  /\ Good(D, w) /\ Later(v, w)
  /\ h \in Handles /\ he = [hd EXCEPT ![h] = f] /\ (f # Closed => HandleOK(w.vol, f))

LEMMA HandleSet ==
  ASSUME NEW D, NEW v, NEW hd, NEW sz, Holds(D, v, hd, sz),
         NEW w, NEW he, NEW h, NEW f, Leaves(D, v, w, hd, he, h, f)
  PROVE  Holds(D, w, he, sz) /\ Slack(w) = Slack(v)
<1>0. /\ Good(D, w) /\ Later(v, w)
      /\ h \in Handles /\ he = [hd EXCEPT ![h] = f] /\ (f # Closed => HandleOK(w.vol, f))
  BY DEF Leaves
<1>1. HandlesOK(w.vol, hd) /\ SizesOK(w.vol, sz) /\ Slack(w) = Slack(v)
  BY <1>0, AllGrow DEF Holds, Later
<1>2. DOMAIN he = Handles /\ \A g \in Handles : he[g] = IF g = h THEN f ELSE hd[g]
  BY <1>0, <1>1 DEF HandlesOK
<1>3. HandlesOK(w.vol, he)
  BY <1>0, <1>1, <1>2 DEF HandlesOK
<1> QED BY <1>0, <1>1, <1>3 DEF Holds

\* The step of a call that works on an open file.
LEMMA CallStep ==
  ASSUME FatInv, NEW h \in Handles, NEW r, WorkOK(disk, r), Later(fs, r.fs), Done(h, r),
         UNCHANGED <<disk, isize, crashed>>
  PROVE  FatInv'
<1>1. PICK D, v, hd, sz, w, f, he : /\ D = disk /\ v = fs /\ hd = handle /\ sz = isize
                                    /\ w = r.fs /\ f = r.f /\ he = handle'
  OBVIOUS
<1>2. Holds(D, v, hd, sz) /\ Good(D, w) /\ Later(v, w) /\ HandleOK(w.vol, f)
  BY <1>1 DEF FatInv, Holds, WorkOK
<1>3. he = [hd EXCEPT ![h] = f] /\ fs' = w
  BY <1>1 DEF Done
<1>4. Holds(D, w, he, sz) /\ Slack(w) = Slack(v)
  <2>1. Leaves(D, v, w, hd, he, h, f)
    BY <1>2, <1>3 DEF Leaves
  <2> QED BY ONLY <2>1, <1>2, HandleSet
<1>5. ~crashed => Slack(v) = 0
  BY <1>1 DEF FatInv
<1> QED BY <1>1, <1>3, <1>4, <1>5 DEF FatInv, Holds

\* fat32_open: the seek to offset 0 has arrived at once.
LEMMA OpenArrives ==
  ASSUME NEW D, NEW v, NEW f, Opened(D, v, f), f.offset = 0, NEW r, r = Work(v, f, 0),
         NEW w, w = fat_file_seek(r, 0)
  PROVE  /\ WorkOK(D, r) /\ r.fs = v /\ r.f = f /\ r.err = "NONE"
         /\ w = Arrived(r, f.sect, 0)
<1>2. r.fs = v /\ r.f = f /\ r.len = 0 /\ r.err = "NONE"
      /\ {"fs", "f", "err", "len", "bytes"} \subseteq DOMAIN r
  BY ONLY r = Work(v, f, 0) DEF Work
<1>3. WorkOK(D, r)
  BY <1>2 DEF WorkOK, Opened
<1>4. 0 \div ClustSize = 0
  BY ClustSizeFacts
<1>5. Rewound(r, 0) = r
  BY <1>2, <1>4 DEF Rewound
<1>6. PICK y : y = Followed(r, 0)
  OBVIOUS
<1>7. y = r
  <2>1. PICK q \in Nat : q = 0
    OBVIOUS
  <2>2. q = r.f.offset \div ClustSize /\ q <= q /\ q = q \div ClustSize /\ y = Followed(r, q)
    BY <2>1, <1>2, <1>4, <1>6
  <2> QED BY ONLY <2>2, q \in Nat, <1>3, FollowedOn
<1>8. w = Arrived(r, f.sect, 0)
  <2>1. w = fat_file_seek(r, 0) /\ ~(0 < 0)
    OBVIOUS
  <2> QED BY ONLY <2>1, <1>2, <1>5, <1>6, <1>7 DEF fat_file_seek
<1> QED BY <1>2, <1>3, <1>8

\* And it leaves the volume alone.
LEMMA OpenSeek ==
  ASSUME NEW D, NEW v, NEW f, Opened(D, v, f), f.offset = 0, ~f.dirty,
         NEW w, w = fat_file_seek(Work(v, f, 0), 0)
  PROVE  HandleOK(v.vol, w.f)
<1>1. PICK r, a : r = Work(v, f, 0) /\ a = f.sect
  OBVIOUS
<1>2. WorkOK(D, r) /\ r.fs = v /\ r.f = f /\ w = Arrived(r, a, 0)
  BY <1>1, OpenArrives
<1>10. Place(r.fs.vol, r.f, 0 \div ClustSize + 1)
  BY <1>2 DEF Opened, HandleOK
<1>11. WorkOK(D, w) /\ (~r.f.dirty => w.fs = r.fs)
  <2>1. 0 \in Nat
    OBVIOUS
  <2> QED BY ONLY <2>1, <1>2, <1>10, ArrivedOn
<1>12. w.fs = v
  BY <1>2, <1>11
<1> QED BY <1>11, <1>12 DEF WorkOK

LEMMA OpenStep ==
  ASSUME FatInv, NEW h \in Handles, NEW f \in Files, NEW wr \in Modes, fat32_open(h, f, wr)
  PROVE  FatInv'
<1>1. PICK D, v, hd, sz : D = disk /\ v = fs /\ hd = handle /\ sz = isize
  OBVIOUS
<1>2. Holds(D, v, hd, sz) /\ Good(D, v)
  BY <1>1 DEF FatInv, Holds
<1>3. PICK size : size = IF sz[f] = Closed THEN v.vol[DirSect][f] ELSE sz[f]
  OBVIOUS
<1>4. PICK no : no = FALSE
  OBVIOUS
<1>5. PICK new : new = [file |-> f, sclust |-> StartClust[f], clust |-> StartClust[f],
                        sect |-> -1, offset |-> 0, size |-> size, write |-> wr, dirty |-> no,
                        modified |-> no, accessed |-> no, buf |-> <<>>]
  OBVIOUS
<1>6. PICK w : w = fat_file_seek(Work(v, new, 0), 0)
  OBVIOUS
<1>7. /\ isize' = [sz EXCEPT ![f] = size] /\ handle' = [hd EXCEPT ![h] = w.f]
      /\ fs' = v /\ disk' = D /\ crashed' = crashed
  BY ONLY <1>1, <1>3, <1>4, <1>5, <1>6, fat32_open(h, f, wr) DEF fat32_open
<1>8. size \in Nat /\ size <= ClustSize * Len(ActiveChain(v.vol, f))
  <2>1. CASE sz[f] = Closed
    <3>1. PICK ch : SoundWith(v.vol, ch) /\ \A g \in Files : ActiveChain(v.vol, g) = ch[0][g]
      BY <1>2, GoodChains
    <3>2. v.vol[DirSect] \in [Files -> Nat]
          /\ \A g \in Files : v.vol[DirSect][g] <= ClustSize * Len(ch[0][g])
      BY <3>1 DEF SoundWith, Typed, Covered
    <3> QED BY <2>1, <3>1, <3>2, <1>3
  <2>2. CASE sz[f] # Closed
    BY <2>2, <1>2, <1>3 DEF Holds, SizesOK
  <2> QED BY <2>1, <2>2
<1>9. /\ {"file", "sclust", "clust", "sect", "offset", "size", "dirty", "modified", "accessed", "buf"}
           \subseteq DOMAIN new
      /\ new.file = f /\ new.sclust = StartClust[f] /\ new.clust = StartClust[f]
      /\ new.offset = 0 /\ new.size = size /\ new.dirty = no
  BY ONLY <1>5
<1>10. Place(v.vol, new, new.offset \div ClustSize + 1)
  <2>1. 1 \in 1 .. Len(ActiveChain(v.vol, f)) /\ ActiveChain(v.vol, f)[1] = StartClust[f]
    BY <1>2, GoodGrows
  <2>2. 0 \div ClustSize + 1 <= 1
    BY ClustSizeFacts
  <2> QED BY ONLY <2>1, <2>2, <1>9 DEF Place
<1>11. HandleOK(v.vol, new)
  <2>1. 0 \in Nat
    OBVIOUS
  <2> QED BY ONLY <2>1, <1>8, <1>9, <1>10, f \in Files DEF HandleOK
<1>12. HandleOK(v.vol, w.f)
  <2>1. Opened(D, v, new) /\ new.offset = 0 /\ ~new.dirty
    BY <1>2, <1>4, <1>9, <1>11 DEF Opened
  <2> QED BY ONLY <2>1, <1>6, OpenSeek
<1>13. HandlesOK(v.vol, handle')
  <2>1. Later(v, v)
    BY <1>2, GoodGrows
  <2>2. PICK g, he : g = w.f /\ he = [hd EXCEPT ![h] = g]
    OBVIOUS
  <2>3. Leaves(D, v, v, hd, he, h, g)
    BY <2>1, <2>2, <1>2, <1>12 DEF Leaves
  <2>4. Holds(D, v, he, sz)
    BY ONLY <2>3, <1>2, HandleSet
  <2> QED BY <2>2, <2>4, <1>7 DEF Holds
<1>14. SizesOK(v.vol, isize')
  BY <1>2, <1>7, <1>8 DEF Holds, SizesOK
<1> QED BY <1>1, <1>2, <1>7, <1>13, <1>14 DEF FatInv

LEMMA CloseStep ==
  ASSUME FatInv, NEW h \in Handles, fat32_close(h)
  PROVE  FatInv'
<1>1. PICK D, v, hd, sz, f, he : /\ D = disk /\ v = fs /\ hd = handle /\ sz = isize
                                 /\ f = handle[h] /\ he = handle'
  OBVIOUS
<1>2. Holds(D, v, hd, sz)
  BY <1>1 DEF FatInv, Holds
<1>3. PICK w : w = fat_file_sync(v, f)
  OBVIOUS
<1>4. fs' = w /\ he = [hd EXCEPT ![h] = Closed] /\ f # Closed /\ UNCHANGED <<disk, isize, crashed>>
  BY <1>1, <1>3 DEF fat32_close, IsOpen
<1>5. Opened(D, v, f)
  BY <1>1, <1>2, <1>4 DEF Opened, Holds, HandlesOK
<1>6. Good(D, w) /\ Later(v, w)
  BY <1>3, <1>5, SyncOK
<1>7. Holds(D, w, he, sz) /\ Slack(w) = Slack(v)
  <2>1. PICK c : c = Closed
    OBVIOUS
  <2>2. Leaves(D, v, w, hd, he, h, c)
    BY <2>1, <1>4, <1>6 DEF Leaves
  <2> QED BY ONLY <2>2, <1>2, HandleSet
<1>8. ~crashed => Slack(v) = 0
  BY <1>1 DEF FatInv
<1> QED BY <1>1, <1>4, <1>7, <1>8 DEF FatInv, Holds

\* The handle of a call on an open file.
LEMMA OpenHandle ==
  ASSUME FatInv, NEW h \in Handles, IsOpen(h)
  PROVE  Opened(disk, fs, handle[h])
BY DEF FatInv, HandlesOK, Opened, IsOpen

LEMMA ReadStep ==
  ASSUME FatInv, NEW h \in Handles, NEW len \in Lens, fat32_read(h, len)
  PROVE  FatInv'
<1>1. PICK D, v, f, w : D = disk /\ v = fs /\ f = handle[h] /\ w = fat_file_read(v, f, len)
  OBVIOUS
<1>2. Done(h, w) /\ UNCHANGED <<disk, isize, crashed>> /\ IsOpen(h)
  BY <1>1 DEF fat32_read
<1>3. Opened(D, v, f) /\ len \in Nat
  BY <1>1, <1>2, OpenHandle, FatFileAssumption
<1>4. WorkOK(D, w) /\ Later(v, w.fs)
  BY <1>1, <1>3, ReadOK
<1> QED BY <1>1, <1>2, <1>4, CallStep

LEMMA WriteStep ==
  ASSUME FatInv, NEW h \in Handles, NEW len \in Lens, fat32_write(h, len)
  PROVE  FatInv'
<1>1. PICK D, v, f, w : D = disk /\ v = fs /\ f = handle[h] /\ w = fat_file_write(v, f, len)
  OBVIOUS
<1>2. Done(h, w) /\ UNCHANGED <<disk, isize, crashed>> /\ IsOpen(h)
  BY <1>1 DEF fat32_write
<1>3. Opened(D, v, f) /\ len \in Nat
  BY <1>1, <1>2, OpenHandle, FatFileAssumption
<1>4. WorkOK(D, w) /\ Later(v, w.fs)
  BY <1>1, <1>3, WriteOK
<1> QED BY <1>1, <1>2, <1>4, CallStep

LEMMA SeekStep ==
  ASSUME FatInv, NEW h \in Handles, NEW off \in -1 .. MaxOff, fat32_lseek(h, off)
  PROVE  FatInv'
<1>1. PICK D, v, f : D = disk /\ v = fs /\ f = handle[h]
  OBVIOUS
<1>2. PICK r : r = Work(v, f, 0)
  OBVIOUS
<1>3. PICK w : w = fat_file_seek(r, off)
  OBVIOUS
<1>4. Done(h, w) /\ UNCHANGED <<disk, isize, crashed>> /\ IsOpen(h)
  BY <1>1, <1>2, <1>3 DEF fat32_lseek
<1>5. Opened(D, v, f) /\ off \in Int
  BY <1>1, <1>4, OpenHandle, FatFileAssumption
<1>6. r.fs = v /\ r.f = f /\ r.len = 0 /\ {"fs", "f", "err", "len", "bytes"} \subseteq DOMAIN r
  BY ONLY <1>2 DEF Work
<1>7. WorkOK(D, r)
  BY <1>5, <1>6 DEF WorkOK, Opened
<1>8. WorkOK(D, w) /\ Later(v, w.fs)
  BY <1>3, <1>5, <1>6, <1>7, SeekOK
<1> QED BY <1>1, <1>4, <1>8, CallStep

LEMMA DiskStep ==
  ASSUME FatInv, disk_write
  PROVE  FatInv'
<1>1. PICK D, E, v, w : D = disk /\ E = disk' /\ v = fs /\ w = fs'
  OBVIOUS
<1>2. PICK V, log, rest, no, l, n, i :
        /\ V = v.vol /\ log = v.log /\ rest = Tail(log) /\ no = FALSE /\ l = v.last_used
        /\ n = v.free_cnt /\ i = v.info_dirty
  OBVIOUS
<1>3. log # <<>> /\ E = [D EXCEPT ![Head(log).sect] = Head(log).data]
      /\ w = [v EXCEPT !.log = Tail(@)] /\ UNCHANGED <<isize, handle, crashed>>
  BY <1>1, <1>2 DEF disk_write
<1>4. Good(D, v)
  BY <1>1 DEF FatInv
<1>5. v = Rec(V, log, NoSect, FALSE, v) /\ Track(D, log, V)
  BY <1>2, <1>4 DEF Good, Clean
<1>6. v = [vol |-> V, log |-> log, sect |-> NoSect, dirty |-> no, info_dirty |-> i,
           last_used |-> l, free_cnt |-> n]
  BY ONLY <1>2, <1>5 DEF Rec
<1>7. w = [v EXCEPT !.log = rest]
  BY ONLY <1>2, <1>3
<1>8. w = [vol |-> V, log |-> rest, sect |-> NoSect, dirty |-> no, info_dirty |-> i,
           last_used |-> l, free_cnt |-> n]
  BY ONLY <1>6, <1>7
<1>9. w.vol = V /\ w.log = rest /\ w.info_dirty = i /\ w.last_used = l /\ w.free_cnt = n
  BY ONLY <1>8
<1>10. w = Rec(V, rest, NoSect, no, w)
  BY ONLY <1>8, <1>9 DEF Rec
<1>11. Track(E, rest, V)
  BY <1>2, <1>3, <1>5, TrackLess
<1>12. Clean(E, w, V)
  BY ONLY <1>2, <1>9, <1>10, <1>11 DEF Clean
<1>13. Good(E, w) /\ Slack(w) = Slack(v) /\ w.vol = v.vol
  BY <1>2, <1>4, <1>9, <1>12 DEF Good, Slack, Counts
<1> QED BY <1>1, <1>3, <1>13 DEF FatInv

LEMMA FailureStep ==
  ASSUME FatInv, power_failure
  PROVE  FatInv'
<1>1. PICK D, w : D = disk /\ w = fs'
  OBVIOUS
<1>2. Sound(D)
  BY <1>1, TrackEnds DEF FatInv, Good, Clean
<1>3. w = Mounted(D) /\ disk' = D /\ crashed'
  BY <1>1 DEF power_failure
<1>4. Good(D, w)
  BY <1>2, <1>3, MountGood
<1>5. HandlesOK(w.vol, handle') /\ SizesOK(w.vol, isize')
  BY DEF power_failure, HandlesOK, SizesOK
<1> QED BY <1>1, <1>3, <1>4, <1>5 DEF FatInv

\* The inductive invariant of the FAT driver's file operations: what the disk
\* holds, after each sector that is still on its way, is a sound volume, and
\* the open files are on the chains of the volume that the driver sees.
THEOREM FatInvariant == Spec => []FatInv
<1>1. Init => FatInv
  BY InitFat
<1>2. FatInv /\ [Next]_vars => FatInv'
  <2> SUFFICES ASSUME FatInv, [Next]_vars PROVE FatInv'
    OBVIOUS
  <2>1. ASSUME NEW h \in Handles, NEW f \in Files, NEW w \in Modes, fat32_open(h, f, w)
        PROVE  FatInv'
    BY <2>1, OpenStep
  <2>2. ASSUME NEW h \in Handles, fat32_close(h) PROVE FatInv'
    BY <2>2, CloseStep
  <2>3. ASSUME NEW h \in Handles, NEW len \in Lens, fat32_read(h, len) PROVE FatInv'
    BY <2>3, ReadStep
  <2>4. ASSUME NEW h \in Handles, NEW len \in Lens, fat32_write(h, len) PROVE FatInv'
    BY <2>4, WriteStep
  <2>5. ASSUME NEW h \in Handles, NEW off \in -1 .. MaxOff, fat32_lseek(h, off) PROVE FatInv'
    BY <2>5, SeekStep
  <2>6. CASE disk_write
    BY <2>6, DiskStep
  <2>7. CASE power_failure
    BY <2>7, FailureStep
  <2>8. CASE UNCHANGED vars
    BY <2>8 DEF vars, FatInv
  <2> QED BY <2>1, <2>2, <2>3, <2>4, <2>5, <2>6, <2>7, <2>8 DEF Next
<1> QED BY <1>1, <1>2, PTL DEF Spec

LEMMA FatInvSound ==
  ASSUME FatInv
  PROVE  VolumeSound
<1>1. PICK D : D = disk
  OBVIOUS
<1>2. PICK ch : SoundWith(D, ch) /\ ch = Chains(D)
  BY <1>1, TrackEnds DEF FatInv, Good, Clean, Sound
<1>3. \A k \in Copies, f \in Files : Chain(D, k, StartClust[f]) = ch[k][f]
  BY <1>2, SoundChains
<1>4. \A k \in Copies, f \in Files : ch[k][f] \in Seq(Clusters \ {Root}) /\ Len(ch[k][f]) \in Nat
  BY <1>2 DEF SoundWith, ChainSets
<1>5. DiskChainsSound
  <2>1. ASSUME NEW k \in Copies, NEW f \in Files
        PROVE  /\ Entry(D, k, Last(ch[k][f])) = EOC
               /\ IsInjective(ch[k][f])
               /\ Root \notin Range(ch[k][f])
               /\ \A g \in Files \ {f} : Range(ch[k][f]) \cap Range(ch[k][g]) = {}
    <3>1. Entry(D, k, Last(ch[k][f])) = EOC
      BY <1>2 DEF SoundWith, Linked, Last
    <3>2. \A g \in Files : DOMAIN ch[k][g] = 1 .. Len(ch[k][g])
                           /\ \A i \in 1 .. Len(ch[k][g]) : ch[k][g][i] # Root
      BY <1>4
    <3>3. Root \notin Range(ch[k][f])
      BY <3>2 DEF Range
    <3>4. \A g \in Files : \A i \in 1 .. Len(ch[k][f]), j \in 1 .. Len(ch[k][g]) :
            ch[k][f][i] = ch[k][g][j] => f = g /\ i = j
      BY <1>2 DEF SoundWith, Apart
    <3>5. IsInjective(ch[k][f])
      BY <3>2, <3>4 DEF IsInjective
    <3>6. \A g \in Files \ {f} : Range(ch[k][f]) \cap Range(ch[k][g]) = {}
      <4>1. SUFFICES ASSUME NEW g \in Files \ {f}, NEW x \in Range(ch[k][f]), x \in Range(ch[k][g])
                     PROVE  FALSE
        OBVIOUS
      <4>2. PICK i \in 1 .. Len(ch[k][f]) : x = ch[k][f][i]
        BY <4>1, <3>2 DEF Range
      <4>3. PICK j \in 1 .. Len(ch[k][g]) : x = ch[k][g][j]
        BY <4>1, <3>2 DEF Range
      <4> QED BY <4>1, <4>2, <4>3, <3>4
    <3> QED BY <3>1, <3>3, <3>5, <3>6
  <2>2. \A k \in Copies : [f \in Files |-> Chain(D, k, StartClust[f])] = [f \in Files |-> ch[k][f]]
    BY <1>3
  <2>3. \A k \in Copies :
          LET chain == [f \in Files |-> ch[k][f]]
          IN \A f \in Files :
               /\ Entry(D, k, Last(chain[f])) = EOC
               /\ IsInjective(chain[f])
               /\ Root \notin Range(chain[f])
               /\ \A g \in Files \ {f} : Range(chain[f]) \cap Range(chain[g]) = {}
    BY <2>1
  <2> QED BY ONLY <2>2, <2>3, <1>1 DEF DiskChainsSound
<1>6. SizeCovered
  <2>1. \A f \in Files : D[DirSect][f] <= ClustSize * Len(ch[0][f])
    BY <1>2 DEF SoundWith, Covered
  <2> QED BY <2>1, <1>1, <1>3, VolumeFacts DEF SizeCovered
<1>7. MirrorAhead
  BY <1>1, <1>2 DEF SoundWith, Mirrored, MirrorAhead, Copies
<1>8. FreeCountSafe
  <2>1. fs.free_cnt \in Int /\ Cardinality(FreeClusters(fs.vol)) <= fs.free_cnt
        /\ (~crashed => fs.free_cnt - Cardinality(FreeClusters(fs.vol)) = 0)
    BY DEF FatInv, Good, Slack, Counts
  <2>2. Cardinality(FreeClusters(fs.vol)) \in Nat
    BY FewerFree
  <2> QED BY <2>1, <2>2 DEF FreeCountSafe
<1>9. HandleOnChain
  <2>1. ASSUME NEW h \in Handles, IsOpen(h)
        PROVE  Contains(Chain(fs.vol, 0, handle[h].sclust), handle[h].clust)
    <3>1. PICK f, V : f = handle[h] /\ V = fs.vol
      OBVIOUS
    <3>2. HandleOK(V, f)
      BY <2>1, <3>1 DEF FatInv, HandlesOK, IsOpen
    <3>3. f.sclust = StartClust[f.file]
          /\ \E j \in 1 .. Len(ActiveChain(V, f.file)) : ActiveChain(V, f.file)[j] = f.clust
      BY <3>2 DEF HandleOK, Place
    <3> QED BY <3>1, <3>3 DEF Contains, ActiveChain
  <2> QED BY <2>1 DEF HandleOnChain
<1> QED BY <1>5, <1>6, <1>7, <1>8, <1>9 DEF VolumeSound

\* Whatever sector was written last when the power fails, and however calls of
\* several handles follow each other: the chains of both tables end properly and
\* share no cluster, the sizes in the directory are covered, the mirror is never
\* behind, free_cnt denies no free cluster (and is exact until the power first
\* fails), and no handle leaves its file's chain.
THEOREM FatVolumeSound == Spec => []VolumeSound
<1>1. FatInv => VolumeSound
  BY FatInvSound
<1> QED BY <1>1, FatInvariant, PTL

-----------------------------------------------------------------------------
(* Offsets, clusters and sectors.                                          *)

LEMMA Quotient ==
  ASSUME NEW m \in Nat \ {0}, NEW a \in Nat
  PROVE  a \div m \in Nat /\ a % m \in 0 .. m - 1 /\ a = m * (a \div m) + (a % m)
OBVIOUS

LEMMA Divided ==
  ASSUME NEW m \in Nat \ {0}, NEW q \in Nat, NEW x \in 0 .. m - 1, NEW a, a = m * q + x
  PROVE  a \in Nat /\ a \div m = q /\ a % m = x
<1>1. a \in Nat
  OBVIOUS
<1>2. PICK p \in Nat, y \in 0 .. m - 1 : p = a \div m /\ y = a % m /\ a = m * p + y
  BY <1>1, Quotient
<1>3. p <= q
  <2>1. SUFFICES ASSUME q + 1 <= p PROVE FALSE
    OBVIOUS
  <2>2. m * (q + 1) <= m * p
    BY <2>1, TimesMono
  <2>3. m * (q + 1) = m * q + m /\ m * q \in Nat /\ m * p \in Nat
    OBVIOUS
  <2> QED BY ONLY <2>2, <2>3, <1>2, a = m * q + x, x \in 0 .. m - 1, y \in 0 .. m - 1, m \in Nat
<1>4. q <= p
  <2>1. SUFFICES ASSUME p + 1 <= q PROVE FALSE
    OBVIOUS
  <2>2. m * (p + 1) <= m * q
    BY <2>1, TimesMono
  <2>3. m * (p + 1) = m * p + m /\ m * q \in Nat /\ m * p \in Nat
    OBVIOUS
  <2> QED BY ONLY <2>2, <2>3, <1>2, a = m * q + x, x \in 0 .. m - 1, y \in 0 .. m - 1, m \in Nat
<1>5. p = q
  BY <1>3, <1>4
<1> QED BY <1>1, <1>2, <1>5

\* The cluster of an offset, from its sector.
LEMMA ClusterOf ==
  ASSUME NEW o \in Nat
  PROVE  /\ o \div SectSize \in Nat
         /\ (o \div SectSize) % SectPerClust \in 0 .. SectPerClust - 1
         /\ o \div ClustSize = (o \div SectSize) \div SectPerClust
<1>1. PICK m \in Nat \ {0}, n \in Nat \ {0} : m = SectSize /\ n = SectPerClust
  BY VolumeFacts
<1>2. PICK q \in Nat, x \in 0 .. m - 1 : q = o \div m /\ o = m * q + x
  BY Quotient
<1>3. PICK c \in Nat, y \in 0 .. n - 1 : c = q \div n /\ y = q % n /\ q = n * c + y
  BY Quotient
<1>4. PICK b : b = m * y + x
  OBVIOUS
<1>5. m * n \in Nat \ {0} /\ b \in 0 .. m * n - 1
  <2>1. m * y <= m * (n - 1)
    BY TimesMono
  <2>2. m * (n - 1) = m * n - m /\ m * n \in Nat /\ m * y \in Nat
    OBVIOUS
  <2> QED BY ONLY <2>1, <2>2, <1>4, x \in 0 .. m - 1, m \in Nat \ {0}
<1>6. o = (m * n) * c + b
  <2>1. m * (n * c + y) = (m * n) * c + m * y
    OBVIOUS
  <2>2. PICK s \in Nat, t \in Nat : s = (m * n) * c /\ t = m * y
    OBVIOUS
  <2>3. m * q = s + t
    BY ONLY <2>1, <2>2, <1>3
  <2>4. o = s + (t + x)
    BY ONLY <2>3, <1>2, s \in Nat, t \in Nat, x \in 0 .. m - 1, m \in Nat
  <2> QED BY ONLY <2>2, <2>4, <1>4
<1>7. o \div (m * n) = c
  <2>1. PICK k \in Nat \ {0} : k = m * n
    BY <1>5
  <2>2. b \in 0 .. k - 1 /\ o = k * c + b
    BY ONLY <2>1, <1>5, <1>6
  <2>3. o \div k = c
    BY ONLY <2>2, k \in Nat \ {0}, c \in Nat, Divided
  <2> QED BY ONLY <2>1, <2>3
<1> QED BY ONLY <1>1, <1>2, <1>3, <1>7 DEF ClustSize

\* Bytes in one sector.
LEMMA SameSector ==
  ASSUME NEW a \in Nat, NEW o \in Nat, NEW n \in Nat, (a % SectSize) + n <= SectSize
  PROVE  o \div SectSize = a \div SectSize =>
           (o \in a .. a + n - 1 <=> o % SectSize \in a % SectSize .. (a % SectSize) + n - 1)
<1>1. PICK m \in Nat \ {0} : m = SectSize
  BY VolumeFacts
<1>2. PICK q \in Nat, x \in 0 .. m - 1 : q = a \div m /\ x = a % m /\ a = m * q + x
  BY Quotient
<1>3. PICK p \in Nat, y \in 0 .. m - 1 : p = o \div m /\ y = o % m /\ o = m * p + y
  BY Quotient
<1>4. m * q \in Nat
  OBVIOUS
<1>5. p = q => (o \in a .. a + n - 1 <=> y \in x .. x + n - 1)
  BY ONLY <1>2, <1>3, <1>4, n \in Nat, x \in 0 .. m - 1, y \in 0 .. m - 1, m \in Nat
<1> QED BY ONLY <1>1, <1>2, <1>3, <1>5

LEMMA NextBytes ==
  ASSUME NEW a \in Nat, NEW o \in Nat, NEW n \in Nat, (a % SectSize) + n <= SectSize,
         o \in a .. a + n - 1
  PROVE  o \div SectSize = a \div SectSize /\ o % SectSize = (a % SectSize) + (o - a)
<1>1. PICK m \in Nat \ {0} : m = SectSize
  BY VolumeFacts
<1>2. PICK q \in Nat, x \in 0 .. m - 1 : q = a \div m /\ x = a % m /\ a = m * q + x
  BY Quotient
<1>3. PICK y : y = x + (o - a)
  OBVIOUS
<1>4. m * q \in Nat /\ x + n <= m
  BY <1>1, <1>2
<1>5. y \in 0 .. m - 1 /\ o = m * q + y
  BY ONLY <1>2, <1>3, <1>4, o \in a .. a + n - 1, a \in Nat, n \in Nat, x \in 0 .. m - 1, m \in Nat
<1>6. o \div m = q /\ o % m = y
  BY ONLY <1>5, m \in Nat \ {0}, q \in Nat, Divided
<1> QED BY ONLY <1>1, <1>2, <1>3, <1>6

\* Different sectors hold different parts of different clusters.
LEMMA SectorsApart ==
  ASSUME NEW c \in Clusters, NEW d \in Clusters, NEW o \in Nat, NEW p \in Nat,
         SectorOf(c, o) = SectorOf(d, p)
  PROVE  c = d /\ (o \div SectSize) % SectPerClust = (p \div SectSize) % SectPerClust
<1>1. PICK n \in Nat \ {0} : n = SectPerClust
  BY VolumeFacts
<1>2. PICK x \in 0 .. n - 1, y \in 0 .. n - 1 : /\ x = (o \div SectSize) % SectPerClust
                                               /\ y = (p \div SectSize) % SectPerClust
  BY <1>1, ClusterOf
<1>3. PICK i \in Nat, j \in Nat : i = c - 2 /\ j = d - 2
  BY FatVolumeAssumption DEF Clusters
<1>4. PICK a : a = SectorOf(c, o)
  OBVIOUS
<1>5. a = i * n + x /\ a = j * n + y
  BY ONLY <1>1, <1>2, <1>3, <1>4, SectorOf(c, o) = SectorOf(d, p) DEF SectorOf, clust_to_sect
<1>6. a = n * i + x /\ a = n * j + y
  BY <1>5
<1>7. a \div n = i /\ a % n = x /\ a \div n = j /\ a % n = y
  BY ONLY <1>6, n \in Nat \ {0}, i \in Nat, j \in Nat, x \in 0 .. n - 1, y \in 0 .. n - 1, Divided
<1>8. c \in Int /\ d \in Int
  BY VolumeFacts
<1> QED BY ONLY <1>1, <1>2, <1>3, <1>7, <1>8

LEMMA SectorThere ==
  ASSUME NEW c \in Clusters, NEW o \in Nat, NEW V, Typed(V)
  PROVE  DataSect(SectorOf(c, o)) \in DataSects /\ DataSect(SectorOf(c, o)) \in DOMAIN V
<1>1. PICK n \in Nat \ {0} : n = SectPerClust
  BY VolumeFacts
<1>2. PICK x \in 0 .. n - 1 : x = (o \div SectSize) % SectPerClust
  BY <1>1, ClusterOf
<1>3. PICK i \in Nat, m \in Nat : i = c - 2 /\ m = ClustCnt - 2 /\ i + 1 <= m
  BY FatVolumeAssumption DEF Clusters
<1>4. SectorOf(c, o) = i * n + x
  BY ONLY <1>1, <1>2, <1>3 DEF SectorOf, clust_to_sect
<1>5. n * (i + 1) <= n * m
  BY <1>3, TimesMono
<1>6. n * (i + 1) = i * n + n /\ i * n \in Nat /\ n * m \in Nat
  OBVIOUS
<1>7. i * n + x \in 0 .. n * m - 1
  BY ONLY <1>5, <1>6, x \in 0 .. n - 1, n \in Nat
<1>8. SectorOf(c, o) \in 0 .. SectPerClust * (ClustCnt - 2) - 1
  BY ONLY <1>1, <1>3, <1>4, <1>7
<1> QED BY <1>8 DEF Typed, DataSects

-----------------------------------------------------------------------------
(* The bytes of a file.                                                    *)

\* Offset o of file g lies on its chain, and in this sector.
InChain(V, g, o) == o \div ClustSize + 1 <= Len(ActiveChain(V, g))
Sector(V, g, o) == SectorOf(ActiveChain(V, g)[o \div ClustSize + 1], o)

\* Files are laid out in sectors of their own.
Laid(V) ==
  /\ \A g \in Files : Len(ActiveChain(V, g)) \in Nat
  /\ \A g \in Files, o \in Nat : InChain(V, g, o) => DataSect(Sector(V, g, o)) \in DOMAIN V
  /\ \A g, h \in Files, o, p \in Nat :
       InChain(V, g, o) /\ InChain(V, h, p) /\ Sector(V, g, o) = Sector(V, h, p) =>
         g = h /\ o \div SectSize = p \div SectSize

LEMMA GoodLaid ==
  ASSUME NEW D, NEW v, Good(D, v)
  PROVE  Laid(v.vol)
<1>1. PICK V : V = v.vol
  OBVIOUS
<1>2. PICK ch : SoundWith(V, ch) /\ \A g \in Files : ActiveChain(V, g) = ch[0][g]
  BY <1>1, GoodChains
<1>3. Typed(V)
  BY <1>2 DEF SoundWith
<1>4. \A g \in Files : /\ Len(ActiveChain(V, g)) \in Nat
                       /\ \A i \in 1 .. Len(ActiveChain(V, g)) : ActiveChain(V, g)[i] \in Clusters
  <2>1. \A g \in Files : ch[0][g] \in Seq(Clusters \ {Root})
    BY <1>2, LastCluster
  <2> QED BY <2>1, <1>2
<1>5. ASSUME NEW g \in Files, NEW o \in Nat, InChain(V, g, o)
      PROVE  /\ o \div ClustSize \in Nat
             /\ o \div ClustSize + 1 \in 1 .. Len(ActiveChain(V, g))
             /\ ActiveChain(V, g)[o \div ClustSize + 1] \in Clusters
  <2>1. o \div ClustSize \in Nat
    BY ClustSizeFacts
  <2>2. o \div ClustSize + 1 \in 1 .. Len(ActiveChain(V, g))
    BY <2>1, <1>4, <1>5 DEF InChain
  <2> QED BY <2>1, <2>2, <1>4
<1>6. ASSUME NEW g \in Files, NEW o \in Nat, InChain(V, g, o)
      PROVE  DataSect(Sector(V, g, o)) \in DOMAIN V
  <2>1. PICK c \in Clusters : c = ActiveChain(V, g)[o \div ClustSize + 1]
    BY <1>5, <1>6
  <2> QED BY <2>1, <1>3, SectorThere DEF Sector
<1>7. ASSUME NEW g \in Files, NEW h \in Files, NEW o \in Nat, NEW p \in Nat,
             InChain(V, g, o), InChain(V, h, p), Sector(V, g, o) = Sector(V, h, p)
      PROVE  g = h /\ o \div SectSize = p \div SectSize
  <2>1. PICK i \in 1 .. Len(ActiveChain(V, g)) : /\ i = o \div ClustSize + 1
                                                 /\ ActiveChain(V, g)[i] \in Clusters
    BY <1>5, <1>7
  <2>2. PICK j \in 1 .. Len(ActiveChain(V, h)) : /\ j = p \div ClustSize + 1
                                                 /\ ActiveChain(V, h)[j] \in Clusters
    BY <1>5, <1>7
  <2>3. PICK c \in Clusters, d \in Clusters : c = ActiveChain(V, g)[i] /\ d = ActiveChain(V, h)[j]
    BY <2>1, <2>2
  <2>4. SectorOf(c, o) = SectorOf(d, p)
    BY ONLY <2>1, <2>2, <2>3, <1>7 DEF Sector
  <2>5. c = d /\ (o \div SectSize) % SectPerClust = (p \div SectSize) % SectPerClust
    BY ONLY <2>4, c \in Clusters, d \in Clusters, o \in Nat, p \in Nat, SectorsApart
  <2>6. g = h /\ i = j
    <3>1. ch[0][g][i] = ch[0][h][j] /\ i \in 1 .. Len(ch[0][g]) /\ j \in 1 .. Len(ch[0][h])
      BY <2>3, <2>5, <1>2
    <3> QED BY <3>1, <1>2, VolumeFacts DEF SoundWith, Apart
  <2>7. PICK m \in Nat \ {0}, x \in Nat, y \in Nat :
          m = SectPerClust /\ x = o \div SectSize /\ y = p \div SectSize
    BY ClusterOf, VolumeFacts
  <2>8. o \div ClustSize = x \div m /\ p \div ClustSize = y \div m
    BY <2>7, ClusterOf
  <2>9. x \div m = y \div m
    <3>1. o \div ClustSize \in Nat /\ p \div ClustSize \in Nat
      BY ClustSizeFacts
    <3> QED BY ONLY <3>1, <2>1, <2>2, <2>6, <2>8
  <2>10. x % m = y % m
    BY <2>5, <2>7
  <2>11. x = m * (x \div m) + (x % m) /\ y = m * (y \div m) + (y % m)
    BY Quotient
  <2>12. x = y
    BY ONLY <2>9, <2>10, <2>11
  <2> QED BY <2>6, <2>7, <2>12
<1> QED BY <1>1, <1>4, <1>6, <1>7 DEF Laid

\* What a handle on g shows of it, with the buffer b for the sector a.
Shows(V, g, a, b, o) ==
  IF InChain(V, g, o)
  THEN IF Sector(V, g, o) = a THEN b[o % SectSize]
       ELSE V[DataSect(Sector(V, g, o))][o % SectSize]
  ELSE Unknown

LEMMA ByteShown ==
  ASSUME NEW V, Laid(V), NEW g \in Files, NEW o \in Nat
  PROVE  /\ \A a : Shows(V, g, a, V[DataSect(a)], o) = ByteAt(V, g, o)
         /\ InChain(V, g, o) => ByteAt(V, g, o) = V[DataSect(Sector(V, g, o))][o % SectSize]
         /\ ~InChain(V, g, o) => ByteAt(V, g, o) = Unknown
<1>1. PICK i, s : i = o \div ClustSize + 1 /\ s = ActiveChain(V, g)
  OBVIOUS
<1>2. i \in Nat /\ Len(s) \in Nat
  BY <1>1, ClustSizeFacts DEF Laid
<1>3. (i > Len(s)) <=> ~InChain(V, g, o)
  BY ONLY <1>1, <1>2 DEF InChain
<1>4. ByteAt(V, g, o) = IF i > Len(s) THEN Unknown ELSE V[DataSect(SectorOf(s[i], o))][o % SectSize]
  BY ONLY <1>1 DEF ByteAt, ActiveChain
<1>5. Sector(V, g, o) = SectorOf(s[i], o)
  BY ONLY <1>1 DEF Sector
<1> QED BY ONLY <1>3, <1>4, <1>5 DEF Shows

\* The sectors of data are the same in W.
SameData(V, W) ==
  /\ DOMAIN W = DOMAIN V
  /\ \A n : DataSect(n) \in DOMAIN V => W[DataSect(n)] = V[DataSect(n)]

\* And so is the directory.
SameDir(V, W) == DirSect \in DOMAIN V => DirSect \in DOMAIN W /\ W[DirSect] = V[DirSect]

\* The file g is the same in W.
Untouched(V, W, g) ==
  /\ ActiveChain(W, g) = ActiveChain(V, g)
  /\ \A o \in Nat : InChain(V, g, o) =>
       W[DataSect(Sector(V, g, o))] = V[DataSect(Sector(V, g, o))]

\* What is shown of g with the buffer b for the sector a is still shown in W with
\* b2 for a2, and the other files are the same.
Carried(V, a, b, W, a2, b2, g) ==
  /\ \A h \in Files : h # g => Untouched(V, W, h)
  /\ \A o \in Nat : Shows(V, g, a, b, o) \in {Unknown, Shows(W, g, a2, b2, o)}

LEMMA CarriedTrans ==
  ASSUME NEW U, NEW a, NEW b, NEW V, NEW a2, NEW b2, NEW W, NEW a3, NEW b3, NEW g,
         Carried(U, a, b, V, a2, b2, g), Carried(V, a2, b2, W, a3, b3, g)
  PROVE  Carried(U, a, b, W, a3, b3, g)
<1>1. \A o \in Nat : Shows(U, g, a, b, o) \in {Unknown, Shows(W, g, a3, b3, o)}
  BY DEF Carried
<1>2. ASSUME NEW h \in Files, h # g PROVE Untouched(U, W, h)
  <2>1. Untouched(U, V, h) /\ Untouched(V, W, h)
    BY <1>2 DEF Carried
  <2>2. ActiveChain(V, h) = ActiveChain(U, h) /\ ActiveChain(W, h) = ActiveChain(U, h)
    BY ONLY <2>1 DEF Untouched
  <2>3. \A o : /\ InChain(V, h, o) <=> InChain(U, h, o)
               /\ Sector(V, h, o) = Sector(U, h, o)
    BY ONLY <2>2 DEF InChain, Sector
  <2> QED BY ONLY <2>1, <2>2, <2>3 DEF Untouched
<1> QED BY <1>1, <1>2 DEF Carried

LEMMA GrownSector ==
  ASSUME NEW V, NEW W, NEW g \in Files, Grows(V, W), NEW o \in Nat, InChain(V, g, o)
  PROVE  InChain(W, g, o) /\ Sector(W, g, o) = Sector(V, g, o)
<1>1. PICK i, s, t : i = o \div ClustSize + 1 /\ s = ActiveChain(V, g) /\ t = ActiveChain(W, g)
  OBVIOUS
<1>2. o \div ClustSize \in Nat
  BY ClustSizeFacts
<1>3. Len(s) \in Nat /\ Len(t) \in Nat /\ Len(s) <= Len(t) /\ \A j \in 1 .. Len(s) : t[j] = s[j]
  BY <1>1 DEF Grows
<1>4. i <= Len(s)
  BY ONLY <1>1, InChain(V, g, o) DEF InChain
<1>5. i <= Len(t) /\ t[i] = s[i]
  BY ONLY <1>1, <1>2, <1>3, <1>4
<1> QED BY ONLY <1>1, <1>5 DEF InChain, Sector

\* Chains that only grow, and the same data.
LEMMA ChainsCarried ==
  ASSUME NEW V, NEW W, NEW g \in Files, Laid(V), SameData(V, W), Grows(V, W), OnlyGrows(V, W, g),
         NEW a, NEW b
  PROVE  Carried(V, a, b, W, a, b, g)
<1>1. ASSUME NEW h \in Files, h # g PROVE Untouched(V, W, h)
  <2>1. \A o \in Nat : InChain(V, h, o) => DataSect(Sector(V, h, o)) \in DOMAIN V
    BY DEF Laid
  <2> QED BY <2>1, <1>1 DEF Untouched, OnlyGrows, SameData
<1>2. ASSUME NEW o \in Nat PROVE Shows(V, g, a, b, o) \in {Unknown, Shows(W, g, a, b, o)}
  <2>1. CASE InChain(V, g, o)
    <3>6. InChain(W, g, o) /\ Sector(W, g, o) = Sector(V, g, o)
      BY <2>1, GrownSector
    <3>7. W[DataSect(Sector(V, g, o))] = V[DataSect(Sector(V, g, o))]
      BY <2>1 DEF Laid, SameData
    <3>8. Shows(V, g, a, b, o) = Shows(W, g, a, b, o)
      BY ONLY <2>1, <3>6, <3>7 DEF Shows
    <3> QED BY <3>8
  <2>2. CASE ~InChain(V, g, o)
    <3>1. Shows(V, g, a, b, o) = Unknown
      BY ONLY <2>2 DEF Shows
    <3> QED BY <3>1
  <2> QED BY <2>1, <2>2
<1> QED BY <1>1, <1>2 DEF Carried

\* The file's buffer b is written to its sector a, that of its offset p.
Flushes(V, W, g, p, a, b) ==
  /\ Laid(V) /\ InChain(V, g, p) /\ a = Sector(V, g, p)
  /\ W = [V EXCEPT ![DataSect(a)] = b] /\ SameChains(V, W)

LEMMA FlushCarried ==
  ASSUME NEW V, NEW W, NEW g \in Files, NEW p \in Nat, NEW a, NEW b, Flushes(V, W, g, p, a, b)
  PROVE  Carried(V, a, b, W, a, b, g) /\ W[DataSect(a)] = b
<1>0. /\ Laid(V) /\ InChain(V, g, p) /\ a = Sector(V, g, p)
      /\ W = [V EXCEPT ![DataSect(a)] = b] /\ SameChains(V, W)
  BY DEF Flushes
<1>1. DataSect(a) \in DOMAIN V
  BY <1>0 DEF Laid
<1>2. DOMAIN W = DOMAIN V /\ W[DataSect(a)] = b /\ \A q \in DOMAIN V : q # DataSect(a) => W[q] = V[q]
  BY ONLY <1>1, <1>0
<1>3. \A m, n : DataSect(m) = DataSect(n) => m = n
  BY DEF DataSect
<1>4. \A h \in Files, o \in Nat : InChain(V, h, o) /\ Sector(V, h, o) # a =>
        W[DataSect(Sector(V, h, o))] = V[DataSect(Sector(V, h, o))]
  BY <1>0, <1>2, <1>3 DEF Laid
<1>5. ASSUME NEW h \in Files, h # g PROVE Untouched(V, W, h)
  <2>1. \A o \in Nat : InChain(V, h, o) => Sector(V, h, o) # a
    BY <1>0, <1>5 DEF Laid
  <2> QED BY <2>1, <1>0, <1>4 DEF Untouched, SameChains
<1>6. ASSUME NEW o \in Nat PROVE Shows(V, g, a, b, o) = Shows(W, g, a, b, o)
  <2>1. ActiveChain(W, g) = ActiveChain(V, g)
    BY <1>0 DEF SameChains
  <2>2. (InChain(W, g, o) <=> InChain(V, g, o)) /\ Sector(W, g, o) = Sector(V, g, o)
    BY ONLY <2>1 DEF InChain, Sector
  <2>3. InChain(V, g, o) /\ Sector(V, g, o) # a =>
          W[DataSect(Sector(V, g, o))] = V[DataSect(Sector(V, g, o))]
    BY <1>4
  <2> QED BY ONLY <2>2, <2>3 DEF Shows
<1> QED BY <1>2, <1>5, <1>6 DEF Carried

\* A clean buffer gives way to another sector.
LEMMA LoadCarried ==
  ASSUME NEW V, NEW g \in Files, NEW a, NEW b, NEW a2, NEW b2, Laid(V),
         b = V[DataSect(a)], b2 = V[DataSect(a2)]
  PROVE  Carried(V, a, b, V, a2, b2, g)
<1>1. \A o \in Nat : Shows(V, g, a, b, o) = Shows(V, g, a2, b2, o)
  BY ByteShown
<1>2. \A h \in Files : Untouched(V, V, h)
  BY DEF Untouched
<1> QED BY <1>1, <1>2 DEF Carried

-----------------------------------------------------------------------------
(* stretch_chain and sync_fs change no data and no entry of the directory. *)

Fielded(v) == {"vol", "log", "sect", "dirty", "info_dirty", "last_used", "free_cnt"} \subseteq DOMAIN v

\* w is a record of the driver like v, with the same data and the same directory.
KeepsData(v, w) ==
  Fielded(v) => Fielded(w) /\ SameData(v.vol, w.vol) /\ SameDir(v.vol, w.vol)

LEMMA KeepsTrans ==
  ASSUME NEW u, NEW v, NEW w, KeepsData(u, v), KeepsData(v, w)
  PROVE  KeepsData(u, w)
BY DEF KeepsData, SameData, SameDir

LEMMA BufData ==
  ASSUME NEW v, Fielded(v), NEW w, w = sync_buf(v)
  PROVE  Fielded(w) /\ w.vol = v.vol
<1>1. CASE v.dirty
  <2>1. PICK no, log : no = FALSE /\ log = Append(v.log, [sect |-> v.sect, data |-> v.vol[v.sect]])
    OBVIOUS
  <2>2. w = [v EXCEPT !.log = log, !.dirty = no, !.sect = NoSect]
    BY ONLY <2>1, <1>1, w = sync_buf(v) DEF sync_buf
  <2>3. w.vol = v.vol /\ DOMAIN w = DOMAIN v
    BY ONLY <2>2, Fielded(v) DEF Fielded
  <2> QED BY <2>3 DEF Fielded
<1>2. CASE ~v.dirty
  <2>1. w = v
    BY ONLY <1>2, w = sync_buf(v) DEF sync_buf
  <2> QED BY <2>1
<1> QED BY <1>1, <1>2

LEMMA ChangeData ==
  ASSUME NEW v, NEW s, \A n : s # DataSect(n), NEW d, NEW w, w = Change(v, s, d)
  PROVE  /\ Fielded(v) => Fielded(w) /\ SameData(v.vol, w.vol)
         /\ Fielded(v) /\ s \in DOMAIN v.vol => w.vol[s] = d
         /\ s # DirSect => KeepsData(v, w)
<1>1. SUFFICES ASSUME Fielded(v)
               PROVE  /\ Fielded(w) /\ SameData(v.vol, w.vol)
                      /\ s \in DOMAIN v.vol => w.vol[s] = d
                      /\ s # DirSect => SameDir(v.vol, w.vol)
  BY DEF KeepsData
<1>2. PICK u : u = update_buf(v, s)
  OBVIOUS
<1>3. Fielded(u) /\ u.vol = v.vol
  <2>1. CASE v.sect = s
    <3>1. u = v
      BY ONLY <2>1, <1>2 DEF update_buf
    <3> QED BY <3>1, <1>1
  <2>2. CASE v.sect # s
    <3>1. PICK x : x = sync_buf(v)
      OBVIOUS
    <3>2. Fielded(x) /\ x.vol = v.vol
      BY <3>1, <1>1, BufData
    <3>3. u = [x EXCEPT !.sect = s]
      BY ONLY <2>2, <3>1, <1>2 DEF update_buf
    <3>4. u.vol = x.vol /\ DOMAIN u = DOMAIN x
      BY ONLY <3>2, <3>3 DEF Fielded
    <3> QED BY <3>2, <3>4 DEF Fielded
  <2> QED BY <2>1, <2>2
<1>4. PICK V, W, yes : V = u.vol /\ W = [V EXCEPT ![s] = d] /\ yes = TRUE
  OBVIOUS
<1>5. w = [u EXCEPT !.vol = W, !.dirty = yes]
  BY ONLY <1>2, <1>4, w = Change(v, s, d) DEF Change
<1>6. w.vol = W /\ DOMAIN w = DOMAIN u
  BY ONLY <1>3, <1>5 DEF Fielded
<1>7. DOMAIN W = DOMAIN V /\ \A q \in DOMAIN V : q # s => W[q] = V[q]
  BY ONLY <1>4
<1>8. SameData(V, W) /\ (s \in DOMAIN V => W[s] = d) /\ (s # DirSect => SameDir(V, W))
  BY <1>4, <1>7 DEF SameData, SameDir
<1> QED BY <1>3, <1>4, <1>6, <1>8 DEF Fielded

LEMMA PutData ==
  ASSUME NEW v, NEW c, NEW val, NEW w, w = put_fat(v, c, val)
  PROVE  KeepsData(v, w)
<1>1. ASSUME NEW x, NEW k, NEW y, y = put_fat2(x, k, c, val) PROVE KeepsData(x, y)
  <2>1. PICK s, d : s = FatSect(k, c) /\ d = [x.vol[s] EXCEPT ![c] = val]
    OBVIOUS
  <2>2. y = Change(x, s, d)
    BY ONLY <2>1, <1>1 DEF put_fat2
  <2>3. s # DirSect /\ \A n : s # DataSect(n)
    BY <2>1 DEF FatSect, DataSect, DirSect
  <2> QED BY ONLY <2>2, <2>3, ChangeData
<1>2. PICK u : u = IF Mirror THEN put_fat2(v, 1, c, val) ELSE v
  OBVIOUS
<1>3. KeepsData(v, u)
  <2>1. CASE Mirror
    BY <2>1, <1>1, <1>2
  <2>2. CASE ~Mirror
    <3>1. u = v
      BY <2>2, <1>2
    <3> QED BY <3>1 DEF KeepsData, SameData, SameDir
  <2> QED BY <2>1, <2>2
<1>4. w = put_fat2(u, 0, c, val)
  BY ONLY <1>2, w = put_fat(v, c, val) DEF put_fat
<1>5. KeepsData(u, w)
  BY ONLY <1>1, <1>4
<1> QED BY ONLY <1>3, <1>5, KeepsTrans

LEMMA FsData ==
  ASSUME NEW v, NEW w, w = sync_fs(v)
  PROVE  KeepsData(v, w)
<1>1. SUFFICES ASSUME Fielded(v)
               PROVE  Fielded(w) /\ SameData(v.vol, w.vol) /\ SameDir(v.vol, w.vol)
  BY DEF KeepsData
<1>2. PICK u : u = sync_buf(v)
  OBVIOUS
<1>3. Fielded(u) /\ u.vol = v.vol
  BY <1>1, <1>2, BufData
<1>4. CASE v.info_dirty
  <2>1. PICK d : d = [last_used |-> u.last_used, free_cnt |-> u.free_cnt]
    OBVIOUS
  <2>2. PICK x : x = Change(u, InfoSect, d)
    OBVIOUS
  <2>3. Fielded(x) /\ SameData(u.vol, x.vol) /\ SameDir(u.vol, x.vol)
    <3>1. PICK s : s = InfoSect
      OBVIOUS
    <3>2. x = Change(u, s, d) /\ s # DirSect /\ \A n : s # DataSect(n)
      BY <2>2, <3>1, SectorFacts DEF InfoSect, DirSect
    <3>3. KeepsData(u, x)
      BY ONLY <3>2, ChangeData
    <3> QED BY <3>3, <1>3 DEF KeepsData
  <2>4. PICK y : y = sync_buf(x)
    OBVIOUS
  <2>5. Fielded(y) /\ y.vol = x.vol
    BY <2>3, <2>4, BufData
  <2>6. PICK no : no = FALSE
    OBVIOUS
  <2>7. w = [y EXCEPT !.info_dirty = no]
    BY ONLY <1>2, <1>4, <2>1, <2>2, <2>4, <2>6, w = sync_fs(v) DEF sync_fs, sync_info
  <2>8. w.vol = y.vol /\ DOMAIN w = DOMAIN y
    BY ONLY <2>5, <2>7 DEF Fielded
  <2> QED BY <2>3, <2>5, <2>8, <1>3 DEF Fielded
<1>5. CASE ~v.info_dirty
  <2>1. w = u
    BY ONLY <1>2, <1>5, w = sync_fs(v) DEF sync_fs
  <2> QED BY <2>1, <1>3 DEF SameData, SameDir
<1> QED BY <1>4, <1>5

LEMMA StretchData ==
  ASSUME NEW v, NEW p, NEW c, NEW w, w = StretchBy(v, p, c)
  PROVE  KeepsData(v, w)
<1>1. CASE c = FREE
  <2>1. PICK yes : yes = TRUE
    OBVIOUS
  <2>2. w = [v EXCEPT !.info_dirty = yes]
    BY ONLY <2>1, <1>1, w = StretchBy(v, p, c) DEF StretchBy
  <2>3. Fielded(v) => w.vol = v.vol /\ DOMAIN w = DOMAIN v
    BY ONLY <2>2 DEF Fielded
  <2> QED BY <2>3 DEF KeepsData, SameData, SameDir, Fielded
<1>2. CASE c # FREE
  <2>1. PICK x, y : x = put_fat(v, c, EOC) /\ y = Link(x, p, c)
    OBVIOUS
  <2>2. KeepsData(v, x)
    BY <2>1, PutData
  <2>3. KeepsData(x, y)
    <3>1. CASE p = NewChain
      <4>1. y = x
        BY ONLY <2>1, <3>1 DEF Link
      <4> QED BY <4>1 DEF KeepsData, SameData, SameDir
    <3>2. CASE p # NewChain
      <4>1. y = put_fat(x, p, c)
        BY ONLY <2>1, <3>2 DEF Link
      <4> QED BY ONLY <4>1, PutData
    <3> QED BY <3>1, <3>2
  <2>4. PICK yes, n : yes = TRUE /\ n = Taken(y.free_cnt)
    OBVIOUS
  <2>5. PICK z : z = [y EXCEPT !.info_dirty = yes, !.last_used = c, !.free_cnt = n]
    OBVIOUS
  <2>6. KeepsData(y, z)
    <3>1. Fielded(y) => z.vol = y.vol /\ DOMAIN z = DOMAIN y
      BY ONLY <2>5 DEF Fielded
    <3> QED BY <3>1 DEF KeepsData, SameData, SameDir, Fielded
  <2>7. w = sync_fs(z)
    BY ONLY <1>2, <2>1, <2>4, <2>5, w = StretchBy(v, p, c) DEF StretchBy, PutNew
  <2>8. KeepsData(z, w)
    BY ONLY <2>7, FsData
  <2>9. KeepsData(v, y)
    BY ONLY <2>2, <2>3, KeepsTrans
  <2>10. KeepsData(v, z)
    BY ONLY <2>6, <2>9, KeepsTrans
  <2> QED BY ONLY <2>8, <2>10, KeepsTrans
<1> QED BY <1>1, <1>2

-----------------------------------------------------------------------------
(* A seek that meets no full disk.                                         *)

\* stretch_chain finds a free cluster if there is one.
LEMMA PickNone ==
  ASSUME NEW v, Counts(v.vol, v), NEW p \in Clusters, Pick(v, p) = FREE
  PROVE  FreeClusters(v.vol) = {}
<1>1. SUFFICES ASSUME NEW x \in FreeClusters(v.vol) PROVE FALSE
  OBVIOUS
<1>2. PICK l : l = v.last_used
  OBVIOUS
<1>3. ClustCnt \in Nat /\ ClustCnt > 3
  BY FatVolumeAssumption
<1>4. x \in Clusters /\ l \in Clusters /\ x # l /\ IsFree(v.vol, x)
  BY <1>1, <1>2 DEF Counts, FreeClusters
<1>5. PICK m \in Nat \ {0} : m = ClustCnt - 2
  BY <1>3
<1>6. x - 2 \in 0 .. m - 1 /\ l - 2 \in 0 .. m - 1 /\ x \in Int /\ l \in Int
  BY <1>3, <1>4, <1>5 DEF Clusters
<1>7. PICK i : i = IF x > l THEN x - l ELSE x - l + m
  OBVIOUS
<1>8. i \in 1 .. ClustCnt - 3
  BY ONLY <1>4, <1>5, <1>6, <1>7, <1>3, m \in Nat
<1>9. (l - 2 + i) % m = x - 2
  <2>1. PICK a, q, y : a = l - 2 + i /\ y = x - 2 /\ q = IF x > l THEN 0 ELSE 1
    OBVIOUS
  <2>2. q \in Nat /\ y \in 0 .. m - 1
    BY ONLY <2>1, <1>6
  <2>3. a = m * q + y
    BY ONLY <2>1, <1>4, <1>6, <1>7, m \in Nat
  <2>4. a % m = y
    BY ONLY <2>2, <2>3, m \in Nat \ {0}, Divided
  <2> QED BY ONLY <2>1, <2>4
<1>10. ScanOrder(l, i) = x
  <2>1. 2 + ((l - 2 + i) % m) = x
    BY ONLY <1>6, <1>9
  <2> QED BY ONLY <2>1, <1>5 DEF ScanOrder
<1> DEFINE hits == {j \in 1 .. ClustCnt - 3 : IsFree(v.vol, ScanOrder(v.last_used, j))}
<1>11. i \in hits
  BY <1>2, <1>4, <1>8, <1>10
<1>12. CASE p # NewChain /\ IsFree(v.vol, NextClust(p))
  <2>1. NextClust(p) = FREE
    BY <1>12 DEF Pick
  <2>2. NextClust(p) \in Clusters
    BY <1>3 DEF NextClust, Clusters
  <2> QED BY <2>1, <2>2, VolumeFacts
<1>13. CASE ~(p # NewChain /\ IsFree(v.vol, NextClust(p)))
  <2>1. ScanOrder(v.last_used, Min(hits)) = FREE
    BY <1>11, <1>13 DEF Pick
  <2>2. Min(hits) \in hits
    <3>1. hits \in SUBSET Nat /\ hits # {}
      BY <1>3, <1>11
    <3> HIDE DEF hits
    <3> QED BY <3>1, MinOf
  <2>3. PICK a \in Int : a = l - 2 + Min(hits)
    <3>1. Min(hits) \in Int
      BY <2>2, <1>3
    <3> HIDE DEF hits
    <3> QED BY <3>1, <1>6
  <2>4. a % m \in 0 .. m - 1
    BY ONLY a \in Int, m \in Nat \ {0}
  <2>5. ScanOrder(v.last_used, Min(hits)) = 2 + (a % m)
    BY ONLY <1>2, <1>5, <2>3 DEF ScanOrder
  <2> QED BY ONLY <2>1, <2>4, <2>5 DEF FREE
<1> QED BY <1>12, <1>13

\* f is on the i-th cluster of its file's chain.
At(V, f, i) == i \in 1 .. Len(ActiveChain(V, f.file)) /\ ActiveChain(V, f.file)[i] = f.clust

\* What the loop of fat_file_seek leaves alone.
SameFile(r, w) ==
  /\ w.bytes = r.bytes /\ w.len = r.len
  /\ w.f.file = r.f.file /\ w.f.sclust = r.f.sclust /\ w.f.offset = r.f.offset
  /\ w.f.dirty = r.f.dirty /\ w.f.buf = r.f.buf

\* A turn of it that leaves room has found or made the next cluster.
Follows(r, w) ==
  /\ SameFile(r, w) /\ SameData(r.fs.vol, w.fs.vol)
  /\ Grows(r.fs.vol, w.fs.vol) /\ OnlyGrows(r.fs.vol, w.fs.vol, r.f.file)

LEMMA FollowExact ==
  ASSUME NEW D, NEW r, WorkOK(D, r), r.err = "NONE", NEW i \in Nat, At(r.fs.vol, r.f, i),
         NEW w, w = Follow(r), FreeClusters(w.fs.vol) # {}
  PROVE  w.err = "NONE" /\ At(w.fs.vol, w.f, i + 1) /\ Follows(r, w)
<1>1. Good(D, r.fs) /\ HandleOK(r.fs.vol, r.f)
      /\ {"fs", "f", "err", "len", "bytes"} \subseteq DOMAIN r
  BY DEF WorkOK
<1>2. {"file", "sclust", "clust", "offset", "dirty", "buf"} \subseteq DOMAIN r.f
  BY ONLY <1>1 DEF HandleOK
<1>3. PICK g \in Files : g = r.f.file
  BY <1>1 DEF HandleOK
<1>4. PICK s : s = ActiveChain(r.fs.vol, g)
  OBVIOUS
<1>5. PICK ch : SoundWith(r.fs.vol, ch) /\ s = ch[0][g]
  BY <1>1, <1>4, GoodChains
<1>6. PICK n \in Nat : n = Len(s) /\ n > 0
  BY <1>5, LastCluster
<1>7. i \in 1 .. n /\ s[i] = r.f.clust
  BY <1>3, <1>4, <1>6 DEF At
<1>8. PICK next : next = get_fat(r.fs.vol, r.f.clust)
  OBVIOUS
<1>9. next = IF i < n THEN s[i + 1] ELSE EOC
  <2>1. next = Entry(r.fs.vol, 0, s[i])
    BY <1>7, <1>8 DEF get_fat, Entry
  <2>2. \A x \in 1 .. n - 1 : Entry(r.fs.vol, 0, s[x]) = s[x + 1]
    BY <1>5, <1>6, VolumeFacts DEF SoundWith, Linked
  <2>3. Entry(r.fs.vol, 0, s[n]) = EOC
    BY <1>5, <1>6, VolumeFacts DEF SoundWith, Linked
  <2> QED BY ONLY <2>1, <2>2, <2>3, <1>7, n \in Nat
<1>10. \A x \in 1 .. n : s[x] \in Clusters
  <2>1. s \in Seq(Clusters \ {Root})
    BY <1>3, <1>5, LastCluster
  <2> QED BY <2>1, <1>6
<1>11. CASE i < n
  <2>1. i + 1 \in 1 .. n
    BY <1>11, <1>7
  <2>2. next = s[i + 1] /\ next # FREE /\ next # EOC
    BY <2>1, <1>9, <1>10, <1>11, VolumeFacts
  <2>3. w = [r EXCEPT !.f.clust = next]
    BY <1>8, <2>2 DEF Follow
  <2>4. w.fs = r.fs /\ w.f = [r.f EXCEPT !.clust = next] /\ w.len = r.len /\ w.err = r.err
        /\ w.bytes = r.bytes
    BY ONLY <2>3, <1>1
  <2>5. w.f.clust = next /\ SameFile(r, w)
    BY ONLY <2>4, <1>2 DEF SameFile
  <2>6. At(w.fs.vol, w.f, i + 1)
    BY ONLY <2>1, <2>2, <2>4, <2>5, <1>3, <1>4, <1>6 DEF At, SameFile
  <2>7. SameData(r.fs.vol, w.fs.vol) /\ OnlyGrows(r.fs.vol, w.fs.vol, r.f.file)
    BY <2>4 DEF SameData, OnlyGrows
  <2>8. Grows(r.fs.vol, w.fs.vol)
    BY <2>4, <1>1, GoodGrows DEF Later
  <2> QED BY <2>4, <2>5, <2>6, <2>7, <2>8 DEF Follows
<1>12. CASE ~(i < n)
  <2>1. i = n /\ next = EOC /\ next # FREE
    BY <1>7, <1>9, <1>12, VolumeFacts
  <2>2. PICK c : c = Pick(r.fs, r.f.clust)
    OBVIOUS
  <2>3. w = stretch_chain(r, c)
    BY <1>8, <2>1, <2>2 DEF Follow
  <2>4. r.f.clust = s[n] /\ s[n] \in Clusters /\ Counts(r.fs.vol, r.fs)
    BY <1>1, <1>7, <1>10, <2>1 DEF Good
  <2>5. c # FREE
    <3>1. SUFFICES ASSUME c = FREE PROVE FALSE
      OBVIOUS
    <3>2. PICK x, full : x = StretchBy(r.fs, r.f.clust, c) /\ full = "FULL"
      OBVIOUS
    <3>3. w = [r EXCEPT !.fs = x, !.err = full]
      BY ONLY <2>3, <3>1, <3>2 DEF stretch_chain
    <3>4. w.fs = x
      BY ONLY <3>3, <1>1
    <3>5. x = [r.fs EXCEPT !.info_dirty = TRUE]
      BY ONLY <3>1, <3>2 DEF StretchBy
    <3>6. x.vol = r.fs.vol
      BY <3>5, <1>1, FullGood
    <3>7. FreeClusters(r.fs.vol) = {}
      BY <2>2, <2>4, <3>1, PickNone
    <3> QED BY <3>4, <3>6, <3>7
  <2>6. c \in Clusters /\ Entry(r.fs.vol, 0, c) = FREE
    BY <2>2, <2>4, <2>5, PickFree
  <2>7. PICK x : x = StretchBy(r.fs, s[n], c)
    OBVIOUS
  <2>8. /\ Later(r.fs, x) /\ OnlyGrows(r.fs.vol, x.vol, g)
        /\ Len(ActiveChain(x.vol, g)) = n + 1 /\ ActiveChain(x.vol, g)[n + 1] = c
    <3>1. PICK v : v = r.fs
      OBVIOUS
    <3>2. Stretches(D, v, g, n, c, x)
      BY <3>1, <2>6, <2>7, <1>4, <1>6, <1>1 DEF Stretches
    <3>3. Later(v, x) /\ OnlyGrows(v.vol, x.vol, g) /\ Len(ActiveChain(x.vol, g)) = n + 1
          /\ ActiveChain(x.vol, g)[n + 1] = c
      BY ONLY <3>2, StretchLater
    <3> QED BY ONLY <3>1, <3>3
  <2>9. SameData(r.fs.vol, x.vol)
    <3>1. PICK v, p : v = r.fs /\ p = s[n]
      OBVIOUS
    <3>2. KeepsData(v, x)
      BY ONLY <3>1, <2>7, StretchData
    <3>3. v = Rec(v.vol, v.log, NoSect, FALSE, v)
      BY <3>1, <1>1 DEF Good, Clean
    <3>4. Fielded(v)
      BY ONLY <3>3 DEF Rec, Fielded
    <3> QED BY <3>1, <3>2, <3>4 DEF KeepsData
  <2>10. w = [r EXCEPT !.fs = x, !.f.clust = c]
    BY ONLY <2>3, <2>4, <2>5, <2>7 DEF stretch_chain
  <2>11. w.fs = x /\ w.f = [r.f EXCEPT !.clust = c] /\ w.len = r.len /\ w.err = r.err
         /\ w.bytes = r.bytes
    BY ONLY <2>10, <1>1
  <2>12. w.f.clust = c /\ SameFile(r, w)
    BY ONLY <2>11, <1>2 DEF SameFile
  <2>13. i + 1 \in 1 .. n + 1 /\ i + 1 = n + 1
    BY <2>1
  <2>14. At(w.fs.vol, w.f, i + 1)
    BY ONLY <2>8, <2>11, <2>12, <2>13, <1>3 DEF At, SameFile
  <2> QED BY <2>8, <2>9, <2>11, <2>12, <2>14, <1>3 DEF Follows, Later
<1> QED BY <1>11, <1>12

LEMMA FollowsTrans ==
  ASSUME NEW u, NEW v, NEW w, Follows(u, v), Follows(v, w)
  PROVE  Follows(u, w)
<1>1. SameFile(u, w)
  BY DEF Follows, SameFile
<1>2. SameData(u.fs.vol, w.fs.vol)
  BY DEF Follows, SameData
<1>3. OnlyGrows(u.fs.vol, w.fs.vol, u.f.file)
  BY DEF Follows, SameFile, OnlyGrows
<1>4. Grows(u.fs.vol, w.fs.vol)
  <2>1. \A f \in Files :
    /\ Len(ActiveChain(u.fs.vol, f)) \in Nat /\ Len(ActiveChain(v.fs.vol, f)) \in Nat
    /\ Len(ActiveChain(w.fs.vol, f)) \in Nat
    /\ Len(ActiveChain(u.fs.vol, f)) <= Len(ActiveChain(v.fs.vol, f))
    /\ Len(ActiveChain(v.fs.vol, f)) <= Len(ActiveChain(w.fs.vol, f))
    /\ \A i \in 1 .. Len(ActiveChain(u.fs.vol, f)) :
         ActiveChain(v.fs.vol, f)[i] = ActiveChain(u.fs.vol, f)[i]
    /\ \A i \in 1 .. Len(ActiveChain(v.fs.vol, f)) :
         ActiveChain(w.fs.vol, f)[i] = ActiveChain(v.fs.vol, f)[i]
    BY DEF Follows, Grows
  <2> QED BY ONLY <2>1 DEF Grows
<1> QED BY <1>1, <1>2, <1>3, <1>4 DEF Follows

\* The loop comes to the cluster of offset off exactly.
LEMMA FollowedExact ==
  ASSUME NEW D, NEW r, WorkOK(D, r), r.err = "NONE", NEW off \in Nat,
         NEW q \in Nat, q = r.f.offset \div ClustSize, At(r.fs.vol, r.f, q + 1),
         NEW p \in Nat, p = off \div ClustSize, q <= p, NEW w, w = Followed(r, off),
         FreeClusters(w.fs.vol) # {}
  PROVE  w.err = "NONE" /\ At(w.fs.vol, w.f, p + 1) /\ Follows(r, w)
<1>1. PICK m \in Nat : m = p - q
  OBVIOUS
<1>2. \E h : IsLoop(h, "seek", 0, 0, r, m)
  BY <1>1, LoopRuns
<1>3. PICK h : IsLoop(h, "seek", 0, 0, r, m) /\ w = h[m]
  <2>1. m = off \div ClustSize - r.f.offset \div ClustSize /\ w = Followed(r, off)
    BY <1>1
  <2>2. \A h : IsLoop(h, "seek", 0, 0, r, m) <=>
                 h = [i \in 0 .. m |-> IF i = 0 THEN r ELSE Follow(h[i - 1])]
    BY DEF IsLoop, Turn
  <2> QED BY ONLY <1>2, <2>1, <2>2 DEF Followed
<1>4. h[0] = r /\ \A i \in 0 .. m - 1 : h[i + 1] = Follow(h[i])
  BY <1>1, <1>3, LoopTurns DEF Turn
<1> DEFINE P(i) == /\ WorkOK(D, h[i])
                   /\ h[i].err = "NONE" => Place(h[i].fs.vol, h[i].f, 0)
                   /\ FreeClusters(h[i].fs.vol) # {} =>
                        h[i].err = "NONE" /\ At(h[i].fs.vol, h[i].f, q + 1 + i) /\ Follows(r, h[i])
           S == {i \in Nat : P(i)}
<1>5. 0 \in S
  <2>1. Good(D, r.fs) /\ HandleOK(r.fs.vol, r.f)
    BY DEF WorkOK
  <2>2. Grows(r.fs.vol, r.fs.vol)
    BY <2>1, GoodGrows DEF Later
  <2>3. Follows(r, r)
    BY <2>2 DEF Follows, SameFile, SameData, OnlyGrows
  <2>4. Place(r.fs.vol, r.f, 0)
    <3>1. PICK j \in 1 .. Len(ActiveChain(r.fs.vol, r.f.file)) :
                 ActiveChain(r.fs.vol, r.f.file)[j] = r.f.clust
      BY <2>1 DEF HandleOK, Place
    <3>2. 0 <= j
      BY <3>1
    <3> QED BY <3>1, <3>2 DEF Place
  <2>5. q + 1 + 0 = q + 1
    OBVIOUS
  <2>6. P(0)
    BY ONLY <2>3, <2>4, <2>5, <1>4, WorkOK(D, r), r.err = "NONE", At(r.fs.vol, r.f, q + 1)
  <2> QED BY <2>6
<1>6. ASSUME NEW i \in 0 .. m - 1, i \in S PROVE i + 1 \in S
  <2>1. PICK x, y : x = h[i] /\ y = h[i + 1]
    OBVIOUS
  <2>2. i \in Nat /\ WorkOK(D, x) /\ (x.err = "NONE" => Place(x.fs.vol, x.f, 0))
        /\ (FreeClusters(x.fs.vol) # {} =>
              x.err = "NONE" /\ At(x.fs.vol, x.f, q + 1 + i) /\ Follows(r, x))
    BY <2>1, <1>6
  <2>3. y = Follow(x)
    BY ONLY <2>1, <1>4, i \in 0 .. m - 1
  <2>4. WorkOK(D, y) /\ Carries(x, y) /\ (y.err = "NONE" => Place(y.fs.vol, y.f, 0 + 1))
    <3>1. 0 \in Nat
      OBVIOUS
    <3> QED BY ONLY <3>1, <2>2, <2>3, FollowOn
  <2>5. y.err = "NONE" => Place(y.fs.vol, y.f, 0)
    <3>1. SUFFICES ASSUME y.err = "NONE" PROVE Place(y.fs.vol, y.f, 0)
      OBVIOUS
    <3>2. PICK j \in 1 .. Len(ActiveChain(y.fs.vol, y.f.file)) :
                 ActiveChain(y.fs.vol, y.f.file)[j] = y.f.clust
      BY <2>4, <3>1 DEF Place
    <3>3. 0 <= j
      BY <3>2
    <3> QED BY <3>2, <3>3 DEF Place
  <2>6. ASSUME FreeClusters(y.fs.vol) # {}
        PROVE  y.err = "NONE" /\ At(y.fs.vol, y.f, q + 1 + (i + 1)) /\ Follows(r, y)
    <3>1. FreeClusters(x.fs.vol) # {}
      BY <2>4, <2>6 DEF Carries, Later, Fewer
    <3>2. PICK j \in Nat : j = q + 1 + i
      BY <2>2
    <3>3. x.err = "NONE" /\ At(x.fs.vol, x.f, j) /\ Follows(r, x)
      BY <2>2, <3>1, <3>2
    <3>4. y.err = "NONE" /\ At(y.fs.vol, y.f, j + 1) /\ Follows(x, y)
      BY ONLY <2>2, <2>3, <2>6, <3>3, j \in Nat, FollowExact
    <3>5. Follows(r, y)
      BY ONLY <3>3, <3>4, FollowsTrans
    <3>6. q + 1 + (i + 1) = j + 1
      BY ONLY <2>2, <3>2, q \in Nat
    <3> QED BY ONLY <3>4, <3>5, <3>6
  <2>7. P(i + 1)
    BY ONLY <2>1, <2>4, <2>5, <2>6
  <2> QED BY <2>2, <2>7
<1>7. \A i \in 0 .. m : i \in S
  <2> HIDE DEF S
  <2> QED BY <1>1, <1>5, <1>6, UpTo
<1>8. P(m)
  BY <1>1, <1>7
<1>9. q + 1 + m = p + 1
  BY <1>1
<1> QED BY ONLY <1>3, <1>8, <1>9, FreeClusters(w.fs.vol) # {}

\* A handle at its offset's cluster and sector, the buffer equal to the sector
\* unless it is dirty.
Exact(V, f) ==
  /\ At(V, f, f.offset \div ClustSize + 1)
  /\ f.sect = SectorOf(f.clust, f.offset)
  /\ ~f.dirty => f.buf = V[DataSect(f.sect)]

LEMMA ExactSector ==
  ASSUME NEW V, NEW f, Exact(V, f), f.offset \in Nat
  PROVE  InChain(V, f.file, f.offset) /\ f.sect = Sector(V, f.file, f.offset)
<1>1. f.offset \div ClustSize \in Nat
  BY ClustSizeFacts
<1>2. At(V, f, f.offset \div ClustSize + 1) /\ f.sect = SectorOf(f.clust, f.offset)
  BY DEF Exact
<1> QED BY <1>1, <1>2 DEF At, InChain, Sector

\* The end of a seek at the cluster of off; the buffer is that of the sector a.
Arrives(r, a, off, w) ==
  /\ w.err = "NONE" /\ Exact(w.fs.vol, w.f) /\ w.f.offset = off
  /\ w.f.file = r.f.file /\ w.bytes = r.bytes /\ w.len = r.len
  /\ Carried(r.fs.vol, a, r.f.buf, w.fs.vol, w.f.sect, w.f.buf, r.f.file)

\* r holds the buffer of the sector a, in which is offset o of its file.
BufferOf(r, a, o) ==
  /\ InChain(r.fs.vol, r.f.file, o) /\ a = Sector(r.fs.vol, r.f.file, o)
  /\ ~r.f.dirty => r.f.buf = r.fs.vol[DataSect(a)]

LEMMA ArrivedExact ==
  ASSUME NEW D, NEW r, WorkOK(D, r), r.err = "NONE", NEW off \in Nat,
         At(r.fs.vol, r.f, off \div ClustSize + 1),
         NEW a, NEW o \in Nat, BufferOf(r, a, o), NEW w, w = Arrived(r, a, off)
  PROVE  Arrives(r, a, off, w)
<1>1. Good(D, r.fs) /\ HandleOK(r.fs.vol, r.f)
      /\ {"fs", "f", "err", "len", "bytes"} \subseteq DOMAIN r
  BY DEF WorkOK
<1>2. {"file", "sclust", "clust", "sect", "offset", "size", "dirty", "buf"} \subseteq DOMAIN r.f
  BY ONLY <1>1 DEF HandleOK
<1>3. PICK V, g, b : V = r.fs.vol /\ g = r.f.file /\ b = r.f.buf
  OBVIOUS
<1>4. g \in Files /\ Laid(V)
  BY <1>1, <1>3, GoodLaid DEF HandleOK
<1>5. InChain(V, g, o) /\ a = Sector(V, g, o) /\ (~r.f.dirty => b = V[DataSect(a)])
  BY <1>3 DEF BufferOf
<1>6. PICK n : n = SectorOf(r.f.clust, off)
  OBVIOUS
<1>7. PICK at : at = [r EXCEPT !.f.sect = n, !.f.offset = off]
  OBVIOUS
<1>8. w = IF at.f.sect = a THEN at ELSE Loaded(Flushed(at, a))
  BY ONLY <1>6, <1>7, r.err = "NONE", w = Arrived(r, a, off) DEF Arrived
<1>9. at.fs = r.fs /\ at.f = [r.f EXCEPT !.sect = n, !.offset = off] /\ at.len = r.len
      /\ at.bytes = r.bytes /\ at.err = r.err /\ DOMAIN at = DOMAIN r
  BY ONLY <1>7, <1>1
<1>10. at.f.clust = r.f.clust /\ at.f.file = g /\ at.f.offset = off /\ at.f.sect = n
       /\ at.f.dirty = r.f.dirty /\ at.f.buf = b /\ DOMAIN at.f = DOMAIN r.f
  BY ONLY <1>2, <1>3, <1>9
<1>11. At(V, at.f, off \div ClustSize + 1)
  BY ONLY <1>3, <1>10, At(r.fs.vol, r.f, off \div ClustSize + 1) DEF At
<1>12. CASE n = a
  <2>1. w = at
    BY ONLY <1>8, <1>10, <1>12
  <2>2. Exact(V, at.f)
    BY ONLY <1>5, <1>6, <1>10, <1>11, <1>12 DEF Exact
  <2>3. Carried(V, a, b, V, a, b, g)
    <3>1. \A h \in Files : Untouched(V, V, h)
      BY DEF Untouched
    <3> QED BY <3>1 DEF Carried
  <2> QED BY ONLY <2>1, <2>2, <2>3, <1>3, <1>9, <1>10, <1>12, r.err = "NONE" DEF Arrives
<1>13. CASE n # a
  <2>1. PICK z : z = Flushed(at, a)
    OBVIOUS
  <2>2. w = Loaded(z)
    BY ONLY <1>8, <1>10, <1>13, <2>1
  <2>3. PICK W : W = z.fs.vol
    OBVIOUS
  <2>4. /\ Carried(V, a, b, W, a, b, g) /\ W[DataSect(a)] = b /\ SameChains(V, W) /\ Laid(W)
        /\ z.len = r.len /\ z.bytes = r.bytes /\ z.err = r.err
        /\ z.f.clust = r.f.clust /\ z.f.file = g /\ z.f.offset = off /\ z.f.sect = n
        /\ DOMAIN z = DOMAIN r /\ DOMAIN z.f = DOMAIN r.f
    <3>1. CASE at.f.dirty
      <4>1. PICK v, no : v = WriteThrough(at.fs, DataSect(a), at.f.buf) /\ no = FALSE
        OBVIOUS
      <4>2. z = [at EXCEPT !.fs = v, !.f.dirty = no]
        BY ONLY <2>1, <3>1, <4>1 DEF Flushed
      <4>3. z.fs = v /\ z.f = [at.f EXCEPT !.dirty = no] /\ z.len = at.len /\ z.bytes = at.bytes
            /\ z.err = at.err /\ DOMAIN z = DOMAIN at
        BY ONLY <4>2, <1>1, <1>9
      <4>4. z.f.clust = r.f.clust /\ z.f.file = g /\ z.f.offset = off /\ z.f.sect = n
            /\ DOMAIN z.f = DOMAIN r.f
        BY ONLY <4>3, <1>2, <1>10
      <4>5. PICK u : u = r.fs
        OBVIOUS
      <4>6. v = WriteThrough(u, DataSect(a), b) /\ Good(D, u) /\ u.vol = V
        BY ONLY <4>1, <4>5, <1>1, <1>3, <1>9, <1>10
      <4>7. Good(D, v) /\ SameChains(u.vol, v.vol) /\ v.vol = [u.vol EXCEPT ![DataSect(a)] = b]
        BY ONLY <4>6, DataLater
      <4>8. W = [V EXCEPT ![DataSect(a)] = b] /\ SameChains(V, W)
        BY ONLY <2>3, <4>3, <4>6, <4>7
      <4>9. Laid(W)
        BY <2>3, <4>3, <4>7, GoodLaid
      <4>10. Flushes(V, W, g, o, a, b)
        BY ONLY <4>8, <1>4, <1>5 DEF Flushes
      <4>11. Carried(V, a, b, W, a, b, g) /\ W[DataSect(a)] = b
        BY ONLY <4>10, <1>4, o \in Nat, FlushCarried
      <4> QED BY ONLY <4>3, <4>4, <4>8, <4>9, <4>11, <1>9
    <3>2. CASE ~at.f.dirty
      <4>1. z = at
        BY ONLY <2>1, <3>2 DEF Flushed
      <4>2. W = V /\ b = V[DataSect(a)]
        BY ONLY <2>3, <3>2, <4>1, <1>3, <1>5, <1>9, <1>10
      <4>3. Carried(V, a, b, V, a, b, g) /\ SameChains(V, V)
        <5>1. \A h \in Files : Untouched(V, V, h)
          BY DEF Untouched
        <5> QED BY <5>1 DEF Carried, SameChains
      <4> QED BY ONLY <4>1, <4>2, <4>3, <1>4, <1>9, <1>10
    <3> QED BY <3>1, <3>2
  <2>5. PICK b2 : b2 = W[DataSect(n)]
    OBVIOUS
  <2>6. w = [z EXCEPT !.f.buf = b2]
    BY ONLY <2>2, <2>3, <2>4, <2>5 DEF Loaded
  <2>7. w.fs = z.fs /\ w.f = [z.f EXCEPT !.buf = b2] /\ w.len = z.len /\ w.bytes = z.bytes
        /\ w.err = z.err
    BY ONLY <2>4, <2>6, <1>1
  <2>8. w.f.clust = r.f.clust /\ w.f.file = g /\ w.f.offset = off /\ w.f.sect = n /\ w.f.buf = b2
    BY ONLY <2>4, <2>7, <1>2
  <2>9. ActiveChain(W, g) = ActiveChain(V, g)
    BY <2>4, <1>4 DEF SameChains
  <2>10. At(W, w.f, off \div ClustSize + 1)
    BY ONLY <2>8, <2>9, <1>10, <1>11 DEF At
  <2>11. Exact(W, w.f)
    BY ONLY <2>5, <2>8, <2>10, <1>6 DEF Exact
  <2>12. Carried(W, a, b, W, n, b2, g)
    BY ONLY <2>4, <2>5, <1>4, LoadCarried
  <2>13. Carried(V, a, b, W, n, b2, g)
    BY ONLY <2>4, <2>12, CarriedTrans
  <2> QED BY ONLY <2>3, <2>4, <2>7, <2>8, <2>11, <2>13, <1>3, r.err = "NONE" DEF Arrives
<1> QED BY <1>12, <1>13

LEMMA RewoundExact ==
  ASSUME NEW D, NEW r, WorkOK(D, r), Exact(r.fs.vol, r.f), NEW off \in Nat, NEW w, w = Rewound(r, off)
  PROVE  /\ w.fs = r.fs /\ w.err = r.err /\ w.len = r.len /\ w.bytes = r.bytes
         /\ w.f.file = r.f.file /\ w.f.buf = r.f.buf /\ w.f.dirty = r.f.dirty
         /\ At(w.fs.vol, w.f, w.f.offset \div ClustSize + 1)
<1>1. Good(D, r.fs) /\ HandleOK(r.fs.vol, r.f)
      /\ {"fs", "f", "err", "len", "bytes"} \subseteq DOMAIN r
  BY DEF WorkOK
<1>2. CASE off \div ClustSize < r.f.offset \div ClustSize
  <2>1. PICK a, c, k : a = clust_to_sect(r.f.sclust) /\ c = r.f.sclust /\ k = 0
    OBVIOUS
  <2>2. w = [r EXCEPT !.f.clust = c, !.f.sect = a, !.f.offset = k]
    BY ONLY <2>1, <1>2, w = Rewound(r, off) DEF Rewound
  <2>3. w.fs = r.fs /\ w.f = [r.f EXCEPT !.clust = c, !.sect = a, !.offset = k]
        /\ w.len = r.len /\ w.err = r.err /\ w.bytes = r.bytes
    BY ONLY <2>2, <1>1
  <2>4. {"file", "clust", "sect", "offset", "dirty", "buf"} \subseteq DOMAIN r.f
    BY ONLY <1>1 DEF HandleOK
  <2>5. w.f.clust = c /\ w.f.file = r.f.file /\ w.f.offset = k /\ w.f.buf = r.f.buf
        /\ w.f.dirty = r.f.dirty
    BY ONLY <2>3, <2>4
  <2>6. r.f.file \in Files /\ c = StartClust[r.f.file]
    BY <1>1, <2>1 DEF HandleOK
  <2>7. 1 \in 1 .. Len(ActiveChain(r.fs.vol, r.f.file)) /\ ActiveChain(r.fs.vol, r.f.file)[1] = c
    BY <1>1, <2>6, GoodGrows
  <2>8. k \div ClustSize + 1 = 1
    BY <2>1, ClustSizeFacts
  <2>9. At(w.fs.vol, w.f, w.f.offset \div ClustSize + 1)
    BY ONLY <2>3, <2>5, <2>7, <2>8 DEF At
  <2> QED BY ONLY <2>3, <2>5, <2>9
<1>3. CASE ~(off \div ClustSize < r.f.offset \div ClustSize)
  <2>1. w = r
    BY ONLY <1>3, w = Rewound(r, off) DEF Rewound
  <2> QED BY <2>1 DEF Exact
<1> QED BY <1>2, <1>3

\* fat_file_seek, as long as there is room.
LEMMA SeekExact ==
  ASSUME NEW D, NEW r, WorkOK(D, r), r.err = "NONE", Exact(r.fs.vol, r.f), NEW off \in Nat,
         NEW w, w = fat_file_seek(r, off), FreeClusters(w.fs.vol) # {}, NEW a, a = r.f.sect
  PROVE  Arrives(r, a, off, w)
<1>1. Good(D, r.fs) /\ HandleOK(r.fs.vol, r.f)
  BY DEF WorkOK
<1>2. PICK V, g, b, o : V = r.fs.vol /\ g = r.f.file /\ b = r.f.buf /\ o = r.f.offset
  OBVIOUS
<1>3. g \in Files /\ o \in Nat /\ Laid(V)
  BY <1>1, <1>2, GoodLaid DEF HandleOK
<1>4. PICK x : x = Rewound(r, off)
  OBVIOUS
<1>5. PICK y : y = Followed(x, off)
  OBVIOUS
<1>6. w = Arrived(y, a, off)
  <2>1. ~(off < 0)
    OBVIOUS
  <2> QED BY ONLY <2>1, <1>4, <1>5, a = r.f.sect, w = fat_file_seek(r, off) DEF fat_file_seek
<1>7. WorkOK(D, x) /\ x.f.offset \div ClustSize <= off \div ClustSize
  BY <1>4, RewoundOn
<1>8. /\ x.fs = r.fs /\ x.err = "NONE" /\ x.len = r.len /\ x.bytes = r.bytes
      /\ x.f.file = g /\ x.f.buf = b /\ x.f.dirty = r.f.dirty
      /\ At(x.fs.vol, x.f, x.f.offset \div ClustSize + 1)
  BY <1>2, <1>4, RewoundExact
<1>9. PICK q \in Nat, p \in Nat : q = x.f.offset \div ClustSize /\ p = off \div ClustSize
  BY <1>7, ClustSizeFacts DEF WorkOK, HandleOK
<1>10. q <= p /\ At(x.fs.vol, x.f, q + 1)
  BY ONLY <1>7, <1>8, <1>9
<1>11. WorkOK(D, y) /\ (y.err = "NONE" => Place(y.fs.vol, y.f, p + 1))
  BY ONLY <1>5, <1>7, <1>9, <1>10, off \in Nat, q \in Nat, p \in Nat, FollowedOn
<1>12. FreeClusters(y.fs.vol) # {}
  <2>1. Later(y.fs, w.fs)
    BY <1>6, <1>9, <1>11, ArrivedOn
  <2> QED BY <2>1 DEF Later, Fewer
<1>13. y.err = "NONE" /\ At(y.fs.vol, y.f, p + 1) /\ Follows(x, y)
  <2>1. x.err = "NONE" /\ y = Followed(x, off)
    BY <1>5, <1>8
  <2> QED BY ONLY <2>1, <1>7, <1>9, <1>10, <1>12, off \in Nat, q \in Nat, p \in Nat, FollowedExact
<1>14. PICK W : W = y.fs.vol
  OBVIOUS
<1>15. SameData(V, W) /\ Grows(V, W) /\ OnlyGrows(V, W, g)
  BY ONLY <1>2, <1>8, <1>13, <1>14 DEF Follows
<1>16. y.f.file = g /\ y.f.buf = b /\ y.f.dirty = r.f.dirty /\ y.len = r.len /\ y.bytes = r.bytes
  BY ONLY <1>8, <1>13 DEF Follows, SameFile
<1>17. Carried(V, a, b, W, a, b, g)
  BY ONLY <1>3, <1>15, ChainsCarried
<1>18. BufferOf(y, a, o)
  <2>1. InChain(V, g, o) /\ a = Sector(V, g, o) /\ (~r.f.dirty => b = V[DataSect(a)])
    BY <1>2, <1>3, ExactSector DEF Exact
  <2>2. InChain(W, g, o) /\ Sector(W, g, o) = Sector(V, g, o)
    BY ONLY <2>1, <1>3, <1>15, GrownSector
  <2>3. W[DataSect(a)] = V[DataSect(a)]
    BY <2>1, <1>3, <1>15 DEF Laid, SameData
  <2> QED BY ONLY <2>1, <2>2, <2>3, <1>14, <1>16 DEF BufferOf
<1>19. Arrives(y, a, off, w)
  BY ONLY <1>6, <1>9, <1>11, <1>13, <1>18, <1>3, off \in Nat, ArrivedExact
<1>20. Carried(W, a, b, w.fs.vol, w.f.sect, w.f.buf, g)
  BY ONLY <1>14, <1>16, <1>19 DEF Arrives
<1>21. Carried(V, a, b, w.fs.vol, w.f.sect, w.f.buf, g)
  BY ONLY <1>17, <1>20, CarriedTrans
<1> QED BY ONLY <1>2, <1>16, <1>19, <1>21 DEF Arrives

-----------------------------------------------------------------------------
(* fat_file_read returns what the file shows.                              *)

LEMMA CarriedSame ==
  ASSUME NEW V, NEW a, NEW b, NEW g
  PROVE  Carried(V, a, b, V, a, b, g)
<1>1. \A h \in Files : Untouched(V, V, h)
  BY DEF Untouched
<1> QED BY <1>1 DEF Carried

LEMMA InSector ==
  ASSUME NEW o \in Nat, NEW p \in Nat, o \div SectSize = p \div SectSize, NEW V, NEW g
  PROVE  (InChain(V, g, o) <=> InChain(V, g, p)) /\ Sector(V, g, o) = Sector(V, g, p)
<1>1. o \div ClustSize = p \div ClustSize
  BY ClusterOf
<1> QED BY ONLY <1>1, o \div SectSize = p \div SectSize DEF InChain, Sector, SectorOf

Listed(s) == \E S : s \in Seq(S)

\* n bytes of the buffer b from index i, and t, which is s and then these bytes.
Bytes(n, b, i) == [j \in 1 .. n |-> b[i + j - 1]]

Joins(s, n, b, i, t) ==
  /\ Listed(t) /\ Len(t) = Len(s) + n
  /\ \A j \in 1 .. Len(s) : t[j] = s[j]
  /\ \A j \in 1 .. n : t[Len(s) + j] = b[i + j - 1]

LEMMA Joined ==
  ASSUME NEW s, Listed(s), NEW n \in Nat, NEW b, NEW i, NEW t, t = s \o Bytes(n, b, i)
  PROVE  Joins(s, n, b, i, t)
<1>0. PICK u : u = [j \in 1 .. n |-> b[i + j - 1]] /\ t = s \o u
  BY DEF Bytes
<1>1. PICK S : s \in Seq(S)
  BY DEF Listed
<1>3. PICK T : T = S \union {b[i + j - 1] : j \in 1 .. n}
  OBVIOUS
<1>4. u \in Seq(T) /\ Len(u) = n
  BY <1>0, <1>3
<1>5. s \in Seq(T)
  BY <1>1, <1>3
<1>7. t \in Seq(T) /\ Len(t) = Len(s) + n /\ Len(s) \in Nat
  <2>1. t \in Seq(T) /\ Len(t) = Len(s) + Len(u)
    BY ONLY <1>0, <1>4, <1>5, ConcatProperties
  <2>3. Len(s) \in Nat
    BY ONLY <1>5
  <2> QED BY ONLY <2>1, <2>3, <1>4
<1>8. \A j \in 1 .. Len(s) + n : t[j] = IF j <= Len(s) THEN s[j] ELSE u[j - Len(s)]
  BY ONLY <1>0, <1>4, <1>5, ConcatProperties
<1>9. \A j \in 1 .. Len(s) : t[j] = s[j]
  BY ONLY <1>7, <1>8, n \in Nat
<1>10. ASSUME NEW j \in 1 .. n PROVE t[Len(s) + j] = b[i + j - 1]
  <2>1. Len(s) + j \in 1 .. Len(s) + n /\ ~(Len(s) + j <= Len(s)) /\ Len(s) + j - Len(s) = j
    BY ONLY <1>7, n \in Nat, j \in 1 .. n
  <2>2. t[Len(s) + j] = u[j]
    BY ONLY <1>8, <2>1
  <2> QED BY ONLY <2>2, <1>0, j \in 1 .. n
<1> QED BY <1>7, <1>9, <1>10 DEF Listed, Joins

\* The bytes of the buffer behind the offset are those that the file shows.
LEMMA BufferShown ==
  ASSUME NEW V, NEW g, NEW off \in Nat, InChain(V, g, off), NEW a, a = Sector(V, g, off), NEW b,
         NEW n \in Nat, (off % SectSize) + n <= SectSize, NEW o \in off .. off + n - 1
  PROVE  Shows(V, g, a, b, o) = b[(off % SectSize) + (o - off)]
<1>1. o \in Nat
  OBVIOUS
<1>2. o \div SectSize = off \div SectSize /\ o % SectSize = (off % SectSize) + (o - off)
  BY <1>1, NextBytes
<1>3. InChain(V, g, o) /\ Sector(V, g, o) = a
  BY <1>1, <1>2, InSector
<1> QED BY ONLY <1>2, <1>3 DEF Shows

\* A turn that has come from r to w, at the offset off before, has read these bytes.
ReadOn(r, w) ==
  /\ w.err = "NONE" /\ Exact(w.fs.vol, w.f) /\ w.f.file = r.f.file /\ Listed(w.bytes)
  /\ Carried(r.fs.vol, r.f.sect, r.f.buf, w.fs.vol, w.f.sect, w.f.buf, r.f.file)
  /\ \E n \in Nat :
       /\ w.f.offset = r.f.offset + n /\ Len(w.bytes) = Len(r.bytes) + n
       /\ \A j \in 1 .. Len(r.bytes) : w.bytes[j] = r.bytes[j]
       /\ \A j \in 1 .. n : w.bytes[Len(r.bytes) + j] =
                              Shows(r.fs.vol, r.f.file, r.f.sect, r.f.buf, r.f.offset + j - 1)

LEMMA ReadTurnExact ==
  ASSUME NEW D, NEW r, WorkOK(D, r), r.err = "NONE", Exact(r.fs.vol, r.f), Listed(r.bytes),
         NEW w, w = ReadTurn(r), FreeClusters(w.fs.vol) # {}
  PROVE  ReadOn(r, w)
<1>1. Good(D, r.fs) /\ HandleOK(r.fs.vol, r.f) /\ r.len \in Nat
      /\ {"fs", "f", "err", "len", "bytes"} \subseteq DOMAIN r
  BY DEF WorkOK
<1>2. CASE r.len = 0 \/ r.f.offset >= r.f.size
  <2>1. w = r
    BY ONLY <1>2, w = ReadTurn(r) DEF ReadTurn
  <2>2. PICK n \in Nat : n = 0
    OBVIOUS
  <2>3. Len(r.bytes) \in Nat /\ r.f.offset \in Nat
    BY <1>1 DEF Listed, HandleOK
  <2>4. /\ w.f.offset = r.f.offset + n /\ Len(w.bytes) = Len(r.bytes) + n
        /\ \A j \in 1 .. Len(r.bytes) : w.bytes[j] = r.bytes[j]
        /\ \A j \in 1 .. n : w.bytes[Len(r.bytes) + j] =
                               Shows(r.fs.vol, r.f.file, r.f.sect, r.f.buf, r.f.offset + j - 1)
    BY ONLY <2>1, <2>2, <2>3
  <2> QED BY <2>1, <2>4, CarriedSame DEF ReadOn
<1>3. CASE ~(r.len = 0 \/ r.f.offset >= r.f.size)
  <2>1. PICK len, off, size, idx : /\ len = r.len /\ off = r.f.offset /\ size = r.f.size
                                   /\ idx = off % SectSize
    OBVIOUS
  <2>2. len \in Nat /\ off \in Nat /\ size \in Nat
    BY <1>1, <2>1 DEF HandleOK
  <2>3. idx \in Nat /\ SectSize - idx \in Nat /\ size - off \in Nat
    BY <2>1, <2>2, <1>3, SectorOffset
  <2>4. PICK S : S = {len, SectSize - idx, size - off}
    OBVIOUS
  <2>5. S \in SUBSET Nat /\ S # {} /\ len \in S /\ SectSize - idx \in S
    BY ONLY <2>2, <2>3, <2>4
  <2>6. PICK n \in Nat : n = Min(S) /\ n <= len /\ n <= SectSize - idx
    BY <2>5, MinOf
  <2>7. PICK V, g, a, b, s, t : /\ V = r.fs.vol /\ g = r.f.file /\ a = r.f.sect /\ b = r.f.buf
                                /\ s = r.bytes /\ t = s \o [j \in 1 .. n |-> b[idx + j - 1]]
    OBVIOUS
  <2>8. PICK l, to : l = len - n /\ to = off + n
    OBVIOUS
  <2>9. PICK x : x = [r EXCEPT !.len = l, !.bytes = t]
    OBVIOUS
  <2>10. w = fat_file_seek(x, to)
    BY ONLY <2>1, <2>4, <2>6, <2>7, <2>8, <2>9, <1>3, r.err = "NONE", w = ReadTurn(r) DEF ReadTurn
  <2>11. l \in Nat /\ to \in Nat
    BY ONLY <2>2, <2>6, <2>8, n \in Nat
  <2>12. x.fs = r.fs /\ x.f = r.f /\ x.len = l /\ x.bytes = t /\ x.err = r.err /\ DOMAIN x = DOMAIN r
    BY ONLY <2>9, <1>1
  <2>13. WorkOK(D, x) /\ x.err = "NONE" /\ Exact(x.fs.vol, x.f) /\ a = x.f.sect
    BY <2>7, <2>11, <2>12, <1>1 DEF WorkOK
  <2>14. Arrives(x, a, to, w)
    BY ONLY <2>10, <2>11, <2>13, FreeClusters(w.fs.vol) # {}, SeekExact
  <2>15. /\ Listed(t) /\ Len(t) = Len(s) + n /\ \A j \in 1 .. Len(s) : t[j] = s[j]
         /\ \A j \in 1 .. n : t[Len(s) + j] = b[idx + j - 1]
    <3>1. Listed(s) /\ t = s \o Bytes(n, b, idx)
      BY <2>7 DEF Bytes
    <3>2. Joins(s, n, b, idx, t)
      BY ONLY <3>1, n \in Nat, Joined
    <3> QED BY ONLY <3>2 DEF Joins
  <2>16. ASSUME NEW j \in 1 .. n PROVE t[Len(s) + j] = Shows(V, g, a, b, off + j - 1)
    <3>1. PICK o : o = off + j - 1
      OBVIOUS
    <3>2. o \in off .. off + n - 1 /\ idx + (o - off) = idx + j - 1
      BY ONLY <3>1, <2>2, <2>3, n \in Nat, j \in 1 .. n
    <3>3. (off % SectSize) + n <= SectSize
      <4>1. SectSize \in Nat
        BY VolumeFacts
      <4> QED BY ONLY <4>1, <2>1, <2>3, <2>6, n \in Nat
    <3>4. InChain(V, g, off) /\ a = Sector(V, g, off)
      BY <2>1, <2>2, <2>7, ExactSector
    <3>5. Shows(V, g, a, b, o) = b[idx + (o - off)]
      BY ONLY <3>2, <3>3, <3>4, <2>1, <2>2, n \in Nat, BufferShown
    <3> QED BY ONLY <3>1, <3>2, <3>5, <2>15, j \in 1 .. n
  <2>17. /\ w.err = "NONE" /\ Exact(w.fs.vol, w.f) /\ w.f.offset = off + n
         /\ w.f.file = r.f.file /\ w.bytes = t
         /\ Carried(r.fs.vol, r.f.sect, r.f.buf, w.fs.vol, w.f.sect, w.f.buf, r.f.file)
    BY ONLY <2>7, <2>8, <2>12, <2>14 DEF Arrives
  <2>18. /\ w.f.offset = r.f.offset + n /\ Len(w.bytes) = Len(r.bytes) + n
         /\ \A j \in 1 .. Len(r.bytes) : w.bytes[j] = r.bytes[j]
         /\ \A j \in 1 .. n : w.bytes[Len(r.bytes) + j] =
                                Shows(r.fs.vol, r.f.file, r.f.sect, r.f.buf, r.f.offset + j - 1)
    BY ONLY <2>1, <2>7, <2>15, <2>16, <2>17
  <2> QED BY ONLY <2>15, <2>17, <2>18, n \in Nat DEF ReadOn
<1> QED BY <1>2, <1>3

\* The turns that have come from r to w.
Reads(r, w) ==
  /\ w.err = "NONE" /\ Exact(w.fs.vol, w.f) /\ w.f.file = r.f.file /\ Listed(w.bytes)
  /\ Carried(r.fs.vol, r.f.sect, r.f.buf, w.fs.vol, w.f.sect, w.f.buf, r.f.file)
  /\ w.f.offset = r.f.offset + Len(w.bytes)
  /\ \A j \in 1 .. Len(w.bytes) :
       Shows(r.fs.vol, r.f.file, r.f.sect, r.f.buf, r.f.offset + j - 1) \in {Unknown, w.bytes[j]}

LEMMA ReadsOn ==
  ASSUME NEW r, r.f.offset \in Nat, NEW x, Reads(r, x), NEW y, ReadOn(x, y)
  PROVE  Reads(r, y)
<1>1. PICK U, a0, b0, V, a, b, W, a2, b2, g, at, s, t :
        /\ U = r.fs.vol /\ a0 = r.f.sect /\ b0 = r.f.buf /\ g = r.f.file /\ at = r.f.offset
        /\ V = x.fs.vol /\ a = x.f.sect /\ b = x.f.buf /\ s = x.bytes
        /\ W = y.fs.vol /\ a2 = y.f.sect /\ b2 = y.f.buf /\ t = y.bytes
  OBVIOUS
<1>2. at \in Nat
  BY <1>1
<1>3. /\ Listed(s) /\ Carried(U, a0, b0, V, a, b, g) /\ x.f.offset = at + Len(s) /\ x.f.file = g
      /\ \A j \in 1 .. Len(s) : Shows(U, g, a0, b0, at + j - 1) \in {Unknown, s[j]}
  BY ONLY <1>1, Reads(r, x) DEF Reads
<1>4. Carried(V, a, b, W, a2, b2, g)
  BY ONLY <1>1, <1>3, ReadOn(x, y) DEF ReadOn
<1>5. PICK n \in Nat : /\ y.f.offset = x.f.offset + n /\ Len(t) = Len(s) + n
                       /\ \A j \in 1 .. Len(s) : t[j] = s[j]
                       /\ \A j \in 1 .. n : t[Len(s) + j] = Shows(V, g, a, b, x.f.offset + j - 1)
  BY ONLY <1>1, <1>3, ReadOn(x, y) DEF ReadOn
<1>6. Carried(U, a0, b0, W, a2, b2, g)
  BY ONLY <1>3, <1>4, CarriedTrans
<1>7. PICK m \in Nat : m = Len(s)
  BY <1>3 DEF Listed
<1>8. y.f.offset = at + Len(t)
  BY ONLY <1>2, <1>3, <1>5, <1>7, n \in Nat, m \in Nat
<1>9. ASSUME NEW j \in 1 .. Len(t) PROVE Shows(U, g, a0, b0, at + j - 1) \in {Unknown, t[j]}
  <2>1. CASE j <= m
    <3>1. j \in 1 .. Len(s)
      BY ONLY <2>1, <1>5, <1>7, <1>9, n \in Nat, m \in Nat
    <3> QED BY ONLY <3>1, <1>3, <1>5
  <2>2. CASE ~(j <= m)
    <3>1. PICK i : i = j - m
      OBVIOUS
    <3>2. i \in 1 .. n /\ Len(s) + i = j /\ x.f.offset + i - 1 = at + j - 1 /\ at + j - 1 \in Nat
      BY ONLY <3>1, <2>2, <1>2, <1>3, <1>5, <1>7, <1>9, n \in Nat, m \in Nat
    <3>3. t[j] = Shows(V, g, a, b, at + j - 1)
      <4>1. t[Len(s) + i] = Shows(V, g, a, b, x.f.offset + i - 1)
        BY ONLY <3>2, <1>5
      <4> QED BY ONLY <4>1, <3>2
    <3>4. Shows(U, g, a0, b0, at + j - 1) \in {Unknown, Shows(V, g, a, b, at + j - 1)}
      BY ONLY <3>2, <1>3 DEF Carried
    <3> QED BY ONLY <3>3, <3>4
  <2> QED BY <2>1, <2>2
<1>10. y.err = "NONE" /\ Exact(y.fs.vol, y.f) /\ y.f.file = g /\ Listed(t)
  BY ONLY <1>1, <1>3, ReadOn(x, y) DEF ReadOn
<1> QED BY ONLY <1>1, <1>6, <1>8, <1>9, <1>10 DEF Reads

LEMMA ReadLoopExact ==
  ASSUME NEW D, NEW r, WorkOK(D, r), r.err = "NONE", Exact(r.fs.vol, r.f), r.bytes = <<>>,
         NEW m \in Nat, NEW h, IsLoop(h, "read", 0, 0, r, m), NEW w, w = h[m],
         FreeClusters(w.fs.vol) # {}
  PROVE  Reads(r, w)
<1>1. h[0] = r /\ \A i \in 0 .. m - 1 : h[i + 1] = ReadTurn(h[i])
  BY LoopTurns DEF Turn
<1>2. r.f.offset \in Nat
  BY DEF WorkOK, HandleOK
<1> DEFINE S == {i \in Nat : WorkOK(D, h[i]) /\ (FreeClusters(h[i].fs.vol) # {} => Reads(r, h[i]))}
<1>3. 0 \in S
  <2>1. r.bytes \in Seq({}) /\ Len(r.bytes) = 0
    BY ONLY r.bytes = <<>>
  <2>2. Listed(r.bytes)
    BY <2>1 DEF Listed
  <2>3. Reads(r, r)
    BY <2>1, <2>2, <1>2, CarriedSame DEF Reads
  <2> QED BY <2>3, <1>1
<1>4. ASSUME NEW i \in 0 .. m - 1, i \in S PROVE i + 1 \in S
  <2>1. PICK x, y : x = h[i] /\ y = h[i + 1]
    OBVIOUS
  <2>2. i \in Nat /\ WorkOK(D, x) /\ (FreeClusters(x.fs.vol) # {} => Reads(r, x))
    BY <2>1, <1>4
  <2>3. y = ReadTurn(x)
    BY ONLY <2>1, <1>1, i \in 0 .. m - 1
  <2>4. WorkOK(D, y) /\ Later(x.fs, y.fs)
    BY ONLY <2>2, <2>3, ReadTurnOK
  <2>5. ASSUME FreeClusters(y.fs.vol) # {} PROVE Reads(r, y)
    <3>1. FreeClusters(x.fs.vol) # {}
      BY <2>4, <2>5 DEF Later, Fewer
    <3>2. Reads(r, x)
      BY <2>2, <3>1
    <3>3. x.err = "NONE" /\ Exact(x.fs.vol, x.f) /\ Listed(x.bytes)
      BY ONLY <3>2 DEF Reads
    <3>4. ReadOn(x, y)
      BY ONLY <2>2, <2>3, <2>5, <3>3, ReadTurnExact
    <3> QED BY ONLY <3>2, <3>4, <1>2, ReadsOn
  <2> QED BY <2>1, <2>2, <2>4, <2>5
<1>5. \A i \in 0 .. m : i \in S
  <2> HIDE DEF S
  <2> QED BY <1>3, <1>4, UpTo
<1>6. m \in S
  <2>1. m \in 0 .. m
    OBVIOUS
  <2> HIDE DEF S
  <2> QED BY <2>1, <1>5
<1> QED BY <1>6

\* fat_file_read of the file f, as the driver has v.
ReadsAll(v, f, w) ==
  /\ Exact(w.fs.vol, w.f) /\ w.f.file = f.file /\ Listed(w.bytes)
  /\ Carried(v.vol, f.sect, f.buf, w.fs.vol, w.f.sect, w.f.buf, f.file)
  /\ \A j \in 1 .. Len(w.bytes) :
       Shows(v.vol, f.file, f.sect, f.buf, f.offset + j - 1) \in {Unknown, w.bytes[j]}

LEMMA ReadExact ==
  ASSUME NEW D, NEW v, NEW f, Opened(D, v, f), Exact(v.vol, f), NEW len \in Nat,
         NEW w, w = fat_file_read(v, f, len), FreeClusters(w.fs.vol) # {}
  PROVE  ReadsAll(v, f, w)
<1>1. PICK g, yes : g = [f EXCEPT !.accessed = yes] /\ yes = TRUE
  OBVIOUS
<1>2. PICK r : r = Work(v, g, len)
  OBVIOUS
<1>3. Good(D, v) /\ HandleOK(v.vol, f)
  BY DEF Opened
<1>4. {"file", "sclust", "clust", "sect", "offset", "size", "dirty", "accessed", "buf"} \subseteq DOMAIN f
  BY ONLY <1>3 DEF HandleOK
<1>5. g.clust = f.clust /\ g.file = f.file /\ g.offset = f.offset /\ g.sect = f.sect /\ g.buf = f.buf
      /\ g.size = f.size /\ g.sclust = f.sclust /\ g.dirty = f.dirty /\ DOMAIN g = DOMAIN f
  BY ONLY <1>1, <1>4
<1>6. Place(v.vol, g, g.offset \div ClustSize + 1)
  BY ONLY <1>3, <1>5 DEF HandleOK, Place
<1>7. HandleOK(v.vol, g) /\ Exact(v.vol, g)
  BY ONLY <1>3, <1>5, <1>6, Exact(v.vol, f) DEF HandleOK, Exact, At
<1>8. r.fs = v /\ r.f = g /\ r.len = len /\ r.err = "NONE" /\ r.bytes = <<>>
      /\ {"fs", "f", "err", "len", "bytes"} \subseteq DOMAIN r
  BY ONLY <1>2 DEF Work
<1>9. WorkOK(D, r) /\ Exact(r.fs.vol, r.f)
  BY <1>3, <1>7, <1>8 DEF WorkOK
<1>10. \E h : IsLoop(h, "read", 0, 0, r, len)
  BY LoopRuns
<1>11. PICK h : IsLoop(h, "read", 0, 0, r, len) /\ w = h[len]
  <2>1. \A h : IsLoop(h, "read", 0, 0, r, len) <=>
                 h = [i \in 0 .. len |-> IF i = 0 THEN r ELSE ReadTurn(h[i - 1])]
    BY DEF IsLoop, Turn
  <2>2. w = ReadTurns(r)
    BY ONLY <1>1, <1>2, w = fat_file_read(v, f, len) DEF fat_file_read
  <2>3. r.len = len
    BY <1>8
  <2> QED BY ONLY <1>10, <2>1, <2>2, <2>3 DEF ReadTurns
<1>12. Reads(r, w)
  BY ONLY <1>8, <1>9, <1>11, len \in Nat, FreeClusters(w.fs.vol) # {}, ReadLoopExact
<1> QED BY ONLY <1>5, <1>8, <1>12 DEF Reads, ReadsAll

-----------------------------------------------------------------------------
(* fat_file_write.                                                         *)

\* The offset o is among the n bytes behind at: it shows what is written there.
Written(at, n, o, byte) == IF o \in at .. at + n - 1 THEN NewByte ELSE byte

\* Turns that have come from r to w: they have written n bytes, nothing else and
\* no other file.
Writes(r, w) ==
  /\ w.err = "NONE" /\ Exact(w.fs.vol, w.f) /\ w.f.file = r.f.file /\ w.bytes = r.bytes
  /\ \A h \in Files : h # r.f.file => Untouched(r.fs.vol, w.fs.vol, h)
  /\ \E n \in Nat :
       /\ w.f.offset = r.f.offset + n /\ w.len = r.len - n
       /\ \A o \in Nat : Written(r.f.offset, n, o, Shows(r.fs.vol, r.f.file, r.f.sect, r.f.buf, o))
                           \in {Unknown, Shows(w.fs.vol, r.f.file, w.f.sect, w.f.buf, o)}

LEMMA UntouchedTrans ==
  ASSUME NEW U, NEW V, NEW W, NEW h, Untouched(U, V, h), Untouched(V, W, h)
  PROVE  Untouched(U, W, h)
<1>1. ActiveChain(V, h) = ActiveChain(U, h) /\ ActiveChain(W, h) = ActiveChain(U, h)
  BY DEF Untouched
<1>2. \A o : /\ InChain(V, h, o) <=> InChain(U, h, o)
             /\ Sector(V, h, o) = Sector(U, h, o)
  BY ONLY <1>1 DEF InChain, Sector
<1> QED BY ONLY <1>1, <1>2, Untouched(U, V, h), Untouched(V, W, h) DEF Untouched

LEMMA WritesTrans ==
  ASSUME NEW r, r.f.offset \in Nat, r.len \in Nat, NEW x, Writes(r, x), NEW y, Writes(x, y)
  PROVE  Writes(r, y)
<1>1. PICK U, a0, b0, V, a, b, W, a2, b2, g, at, k :
        /\ U = r.fs.vol /\ a0 = r.f.sect /\ b0 = r.f.buf /\ g = r.f.file /\ at = r.f.offset
        /\ V = x.fs.vol /\ a = x.f.sect /\ b = x.f.buf /\ k = r.len
        /\ W = y.fs.vol /\ a2 = y.f.sect /\ b2 = y.f.buf
  OBVIOUS
<1>2. at \in Nat /\ k \in Nat
  BY <1>1
<1>3. x.f.file = g /\ x.bytes = r.bytes /\ \A h \in Files : h # g => Untouched(U, V, h)
  BY ONLY <1>1, Writes(r, x) DEF Writes
<1>4. /\ y.err = "NONE" /\ Exact(W, y.f) /\ y.f.file = g /\ y.bytes = r.bytes
      /\ \A h \in Files : h # g => Untouched(V, W, h)
  BY ONLY <1>1, <1>3, Writes(x, y) DEF Writes
<1>5. PICK n \in Nat :
        /\ x.f.offset = at + n /\ x.len = k - n
        /\ \A o \in Nat : Written(at, n, o, Shows(U, g, a0, b0, o)) \in {Unknown, Shows(V, g, a, b, o)}
  BY ONLY <1>1, Writes(r, x) DEF Writes
<1>6. PICK m \in Nat :
        /\ y.f.offset = (at + n) + m /\ y.len = (k - n) - m
        /\ \A o \in Nat : Written(at + n, m, o, Shows(V, g, a, b, o))
                            \in {Unknown, Shows(W, g, a2, b2, o)}
  BY ONLY <1>1, <1>3, <1>5, Writes(x, y) DEF Writes
<1>7. PICK l \in Nat : l = n + m
  OBVIOUS
<1>8. y.f.offset = at + l /\ y.len = k - l
  BY ONLY <1>2, <1>6, <1>7, n \in Nat, m \in Nat
<1>9. ASSUME NEW o \in Nat
      PROVE  Written(at, l, o, Shows(U, g, a0, b0, o)) \in {Unknown, Shows(W, g, a2, b2, o)}
  <2>1. PICK p, q, z : p = Shows(U, g, a0, b0, o) /\ q = Shows(V, g, a, b, o)
                       /\ z = Shows(W, g, a2, b2, o)
    OBVIOUS
  <2>2. Written(at, n, o, p) \in {Unknown, q} /\ Written(at + n, m, o, q) \in {Unknown, z}
    BY ONLY <1>5, <1>6, <2>1, o \in Nat
  <2>3. o \in at .. at + l - 1 <=> o \in at .. at + n - 1 \/ o \in at + n .. at + n + m - 1
    BY ONLY <1>2, <1>7, n \in Nat, m \in Nat, o \in Nat
  <2>4. ~(o \in at .. at + n - 1 /\ o \in at + n .. at + n + m - 1)
    BY ONLY <1>2, n \in Nat, m \in Nat, o \in Nat
  <2>5. Written(at, l, o, p) \in {Unknown, z}
    BY ONLY <2>2, <2>3, <2>4 DEF Written
  <2> QED BY ONLY <2>1, <2>5
<1>10. \A h \in Files : h # g => Untouched(U, W, h)
  BY ONLY <1>3, <1>4, UntouchedTrans
<1> QED BY ONLY <1>1, <1>4, <1>8, <1>9, <1>10, l \in Nat DEF Writes

\* n bytes of the buffer b of the sector a of offset off are replaced.
Replaces(V, g, off, a, b, n, b2) ==
  /\ Laid(V) /\ InChain(V, g, off) /\ a = Sector(V, g, off)
  /\ (off % SectSize) + n <= SectSize
  /\ b2 = [j \in 0 .. SectSize - 1 |->
             IF j \in off % SectSize .. (off % SectSize) + n - 1 THEN NewByte ELSE b[j]]

LEMMA BytesWritten ==
  ASSUME NEW V, NEW g \in Files, NEW off \in Nat, NEW a, NEW b, NEW n \in Nat, NEW b2,
         Replaces(V, g, off, a, b, n, b2), NEW o \in Nat
  PROVE  Shows(V, g, a, b2, o) = Written(off, n, o, Shows(V, g, a, b, o))
<1>0. /\ Laid(V) /\ InChain(V, g, off) /\ a = Sector(V, g, off)
      /\ (off % SectSize) + n <= SectSize
      /\ b2 = [j \in 0 .. SectSize - 1 |->
                 IF j \in off % SectSize .. (off % SectSize) + n - 1 THEN NewByte ELSE b[j]]
  BY DEF Replaces
<1>1. CASE InChain(V, g, o) /\ Sector(V, g, o) = a
  <2>1. o \div SectSize = off \div SectSize
    BY <1>0, <1>1 DEF Laid
  <2>2. o \in off .. off + n - 1 <=> o % SectSize \in off % SectSize .. (off % SectSize) + n - 1
    BY <1>0, <2>1, SameSector
  <2>3. o % SectSize \in 0 .. SectSize - 1
    BY VolumeFacts, Quotient
  <2>4. b2[o % SectSize] = IF o \in off .. off + n - 1 THEN NewByte ELSE b[o % SectSize]
    BY <1>0, <2>2, <2>3
  <2> QED BY ONLY <1>1, <2>4 DEF Shows, Written
<1>2. CASE ~(InChain(V, g, o) /\ Sector(V, g, o) = a)
  <2>1. Shows(V, g, a, b2, o) = Shows(V, g, a, b, o)
    BY ONLY <1>2 DEF Shows
  <2>2. ~(o \in off .. off + n - 1)
    <3>1. SUFFICES ASSUME o \in off .. off + n - 1 PROVE FALSE
      OBVIOUS
    <3>2. o \div SectSize = off \div SectSize
      BY <1>0, <3>1, NextBytes
    <3>3. InChain(V, g, o) /\ Sector(V, g, o) = a
      BY <1>0, <3>2, InSector
    <3> QED BY ONLY <3>3, <1>2
  <2> QED BY ONLY <2>1, <2>2 DEF Written
<1> QED BY <1>1, <1>2

LEMMA WriteTurnExact ==
  ASSUME NEW D, NEW r, WorkOK(D, r), r.err = "NONE", Exact(r.fs.vol, r.f),
         NEW w, w = WriteTurn(r), FreeClusters(w.fs.vol) # {}
  PROVE  Writes(r, w) /\ (r.len # 0 => w.len < r.len)
<1>1. Good(D, r.fs) /\ HandleOK(r.fs.vol, r.f) /\ r.len \in Nat
      /\ {"fs", "f", "err", "len", "bytes"} \subseteq DOMAIN r
  BY DEF WorkOK
<1>2. PICK V, g, a, b, off, len : /\ V = r.fs.vol /\ g = r.f.file /\ a = r.f.sect /\ b = r.f.buf
                                  /\ off = r.f.offset /\ len = r.len
  OBVIOUS
<1>3. off \in Nat /\ len \in Nat /\ g \in Files
  BY <1>1, <1>2 DEF HandleOK
<1>4. CASE r.len = 0
  <2>1. w = r
    BY ONLY <1>4, w = WriteTurn(r) DEF WriteTurn
  <2>2. PICK n \in Nat : n = 0
    OBVIOUS
  <2>3. off = off + n /\ len = len - n /\ \A o : ~(o \in off .. off + n - 1)
    BY ONLY <2>2, <1>3
  <2>4. \A o \in Nat : Written(off, n, o, Shows(V, g, a, b, o)) \in {Unknown, Shows(V, g, a, b, o)}
    BY ONLY <2>3 DEF Written
  <2>5. \A h \in Files : Untouched(V, V, h)
    BY DEF Untouched
  <2>6. Writes(r, r)
    BY ONLY <2>3, <2>4, <2>5, <1>2, n \in Nat, r.err = "NONE", Exact(r.fs.vol, r.f) DEF Writes
  <2> QED BY <2>1, <2>6, <1>4
<1>5. CASE r.len # 0
  <2>1. PICK idx : idx = off % SectSize
    OBVIOUS
  <2>2. idx \in 0 .. SectSize - 1 /\ SectSize \in Nat
    BY <2>1, <1>3, VolumeFacts, Quotient
  <2>3. PICK S : S = {len, SectSize - idx}
    OBVIOUS
  <2>4. S \in SUBSET Nat /\ S # {} /\ len \in S /\ SectSize - idx \in S /\ \A k \in S : k > 0
    BY ONLY <2>2, <2>3, <1>2, <1>3, <1>5
  <2>5. PICK n \in Nat : n = Min(S) /\ n <= len /\ n <= SectSize - idx /\ n > 0
    BY <2>4, MinOf
  <2>6. PICK b2 : b2 = [j \in 0 .. SectSize - 1 |-> IF j \in idx .. idx + n - 1
                                                    THEN NewByte ELSE b[j]]
    OBVIOUS
  <2>7. PICK l, to, yes : l = len - n /\ to = off + n /\ yes = TRUE
    OBVIOUS
  <2>8. PICK x : x = [r EXCEPT !.len = l, !.f.buf = b2, !.f.dirty = yes]
    OBVIOUS
  <2>9. w = fat_file_seek(x, to)
    BY ONLY <2>1, <2>3, <2>5, <2>6, <2>7, <2>8, <1>2, <1>5, r.err = "NONE", w = WriteTurn(r)
       DEF WriteTurn
  <2>10. l \in Nat /\ to \in Nat
    BY ONLY <2>5, <2>7, <1>3, n \in Nat
  <2>11. x.fs = r.fs /\ x.f = [r.f EXCEPT !.buf = b2, !.dirty = yes] /\ x.len = l
         /\ x.bytes = r.bytes /\ x.err = r.err /\ DOMAIN x = DOMAIN r
    BY ONLY <2>8, <1>1
  <2>12. {"file", "sclust", "clust", "sect", "offset", "size", "dirty", "buf"} \subseteq DOMAIN r.f
    BY ONLY <1>1 DEF HandleOK
  <2>13. x.f.clust = r.f.clust /\ x.f.file = r.f.file /\ x.f.offset = r.f.offset
         /\ x.f.size = r.f.size /\ x.f.sclust = r.f.sclust /\ x.f.sect = r.f.sect
         /\ x.f.buf = b2 /\ x.f.dirty = yes /\ DOMAIN x.f = DOMAIN r.f
    BY ONLY <2>11, <2>12
  <2>14. Place(r.fs.vol, x.f, x.f.offset \div ClustSize + 1)
    BY ONLY <2>13, <1>1 DEF HandleOK, Place
  <2>15. HandleOK(r.fs.vol, x.f)
    BY ONLY <2>13, <2>14, <1>1 DEF HandleOK
  <2>16. WorkOK(D, x)
    BY <2>10, <2>11, <2>15, <1>1 DEF WorkOK
  <2>17. Exact(x.fs.vol, x.f)
    BY ONLY <2>7, <2>11, <2>13, Exact(r.fs.vol, r.f) DEF Exact, At
  <2>18. Arrives(x, a, to, w)
    <3>1. x.err = "NONE" /\ a = x.f.sect
      BY ONLY <2>11, <2>13, <1>2, r.err = "NONE"
    <3> QED BY ONLY <3>1, <2>9, <2>10, <2>16, <2>17, FreeClusters(w.fs.vol) # {}, SeekExact
  <2>19. /\ w.err = "NONE" /\ Exact(w.fs.vol, w.f) /\ w.f.offset = off + n /\ w.f.file = g
         /\ w.bytes = r.bytes /\ w.len = len - n
         /\ Carried(V, a, b2, w.fs.vol, w.f.sect, w.f.buf, g)
    BY ONLY <2>7, <2>11, <2>13, <2>18, <1>2 DEF Arrives
  <2>20. Replaces(V, g, off, a, b, n, b2)
    <3>1. InChain(V, g, off) /\ a = Sector(V, g, off)
      BY <1>2, <1>3, ExactSector
    <3>2. idx + n <= SectSize
      BY ONLY <2>2, <2>5, n \in Nat
    <3>3. Laid(V)
      BY <1>1, <1>2, GoodLaid
    <3> QED BY ONLY <3>1, <3>2, <3>3, <2>1, <2>6 DEF Replaces
  <2>21. \A o \in Nat : Shows(V, g, a, b2, o) = Written(off, n, o, Shows(V, g, a, b, o))
    BY ONLY <2>20, <1>3, n \in Nat, BytesWritten
  <2>22. \A o \in Nat : Written(off, n, o, Shows(V, g, a, b, o))
                          \in {Unknown, Shows(w.fs.vol, g, w.f.sect, w.f.buf, o)}
    BY ONLY <2>19, <2>21 DEF Carried
  <2>23. \A h \in Files : h # g => Untouched(V, w.fs.vol, h)
    BY ONLY <2>19 DEF Carried
  <2>24. Writes(r, w)
    BY ONLY <2>19, <2>22, <2>23, <1>2, n \in Nat DEF Writes
  <2>25. w.len < r.len
    BY ONLY <2>5, <2>19, <1>2, <1>3, n \in Nat
  <2> QED BY <2>24, <2>25
<1> QED BY <1>4, <1>5

LEMMA WriteLoopExact ==
  ASSUME NEW D, NEW r, WorkOK(D, r), r.err = "NONE", Exact(r.fs.vol, r.f), NEW m \in Nat, m = r.len,
         NEW h, IsLoop(h, "write", 0, 0, r, m), NEW w, w = h[m], FreeClusters(w.fs.vol) # {}
  PROVE  Writes(r, w) /\ w.len = 0
<1>1. h[0] = r /\ \A i \in 0 .. m - 1 : h[i + 1] = WriteTurn(h[i])
  BY LoopTurns DEF Turn
<1>2. r.f.offset \in Nat /\ r.len \in Nat
  BY DEF WorkOK, HandleOK
<1> DEFINE P(i) == /\ WorkOK(D, h[i])
                   /\ FreeClusters(h[i].fs.vol) # {} =>
                        Writes(r, h[i]) /\ (h[i].len = 0 \/ h[i].len + i <= m)
           S == {i \in Nat : P(i)}
<1>3. 0 \in S
  <2>1. PICK n \in Nat : n = 0
    OBVIOUS
  <2>2. r.f.offset = r.f.offset + n /\ r.len = r.len - n
        /\ \A o : ~(o \in r.f.offset .. r.f.offset + n - 1)
    BY ONLY <2>1, <1>2
  <2>3. \A g \in Files : Untouched(r.fs.vol, r.fs.vol, g)
    BY DEF Untouched
  <2>4. Writes(r, r)
    BY ONLY <2>2, <2>3, n \in Nat, r.err = "NONE", Exact(r.fs.vol, r.f) DEF Writes, Written
  <2>5. r.len + 0 <= m
    BY <1>2
  <2>6. P(0)
    BY ONLY <2>4, <2>5, <1>1, WorkOK(D, r)
  <2> QED BY <2>6
<1>4. ASSUME NEW i \in 0 .. m - 1, i \in S PROVE i + 1 \in S
  <2>1. PICK x, y : x = h[i] /\ y = h[i + 1]
    OBVIOUS
  <2>2. i \in Nat /\ WorkOK(D, x)
        /\ (FreeClusters(x.fs.vol) # {} => Writes(r, x) /\ (x.len = 0 \/ x.len + i <= m))
    BY <2>1, <1>4
  <2>3. y = WriteTurn(x)
    BY ONLY <2>1, <1>1, i \in 0 .. m - 1
  <2>4. WorkOK(D, y) /\ Later(x.fs, y.fs)
    BY ONLY <2>2, <2>3, WriteTurnOK
  <2>5. ASSUME FreeClusters(y.fs.vol) # {}
        PROVE  Writes(r, y) /\ (y.len = 0 \/ y.len + (i + 1) <= m)
    <3>1. FreeClusters(x.fs.vol) # {}
      BY <2>4, <2>5 DEF Later, Fewer
    <3>2. Writes(r, x) /\ (x.len = 0 \/ x.len + i <= m)
      BY <2>2, <3>1
    <3>3. x.err = "NONE" /\ Exact(x.fs.vol, x.f)
      BY ONLY <3>2 DEF Writes
    <3>4. Writes(x, y) /\ (x.len # 0 => y.len < x.len)
      BY ONLY <2>2, <2>3, <2>5, <3>3, WriteTurnExact
    <3>5. Writes(r, y)
      BY ONLY <3>2, <3>4, <1>2, WritesTrans
    <3>6. x.len \in Nat /\ y.len \in Nat /\ y.len <= x.len
      <4>1. x.len \in Nat /\ y.len \in Nat
        BY <2>2, <2>4 DEF WorkOK
      <4>2. PICK n \in Nat : y.len = x.len - n
        BY ONLY <3>4 DEF Writes
      <4> QED BY ONLY <4>1, <4>2, n \in Nat
    <3>7. y.len = 0 \/ y.len + (i + 1) <= m
      BY ONLY <3>2, <3>4, <3>6, <2>2, m \in Nat
    <3> QED BY <3>5, <3>7
  <2>6. P(i + 1)
    BY ONLY <2>1, <2>4, <2>5
  <2> QED BY <2>2, <2>6
<1>5. \A i \in 0 .. m : i \in S
  <2> HIDE DEF S
  <2> QED BY <1>3, <1>4, UpTo
<1>6. P(m)
  <2>1. m \in 0 .. m
    OBVIOUS
  <2>2. m \in S
    <3> HIDE DEF S
    <3> QED BY <2>1, <1>5
  <2> QED BY <2>2
<1>7. WorkOK(D, w) /\ Writes(r, w) /\ (w.len = 0 \/ w.len + m <= m)
  BY <1>6
<1>8. w.len \in Nat
  BY <1>7 DEF WorkOK
<1> QED BY ONLY <1>7, <1>8, m \in Nat

\* fat_file_write of len bytes to the file f, as the driver has v.
WritesAll(v, f, len, w) ==
  /\ Exact(w.fs.vol, w.f) /\ w.f.file = f.file /\ w.bytes = <<>>
  /\ \A h \in Files : h # f.file => Untouched(v.vol, w.fs.vol, h)
  /\ \A o \in Nat : Written(f.offset, len, o, Shows(v.vol, f.file, f.sect, f.buf, o))
                      \in {Unknown, Shows(w.fs.vol, f.file, w.f.sect, w.f.buf, o)}

LEMMA WriteExact ==
  ASSUME NEW D, NEW v, NEW f, Opened(D, v, f), Exact(v.vol, f), NEW len \in Nat,
         NEW w, w = fat_file_write(v, f, len), FreeClusters(w.fs.vol) # {}
  PROVE  WritesAll(v, f, len, w)
<1>1. PICK g, yes : g = [f EXCEPT !.modified = yes, !.accessed = yes] /\ yes = TRUE
  OBVIOUS
<1>2. PICK r : r = Work(v, g, len)
  OBVIOUS
<1>3. Good(D, v) /\ HandleOK(v.vol, f)
  BY DEF Opened
<1>4. {"file", "sclust", "clust", "sect", "offset", "size", "dirty", "modified", "accessed", "buf"}
        \subseteq DOMAIN f
  BY ONLY <1>3 DEF HandleOK
<1>5. g.clust = f.clust /\ g.file = f.file /\ g.offset = f.offset /\ g.sect = f.sect /\ g.buf = f.buf
      /\ g.size = f.size /\ g.sclust = f.sclust /\ g.dirty = f.dirty /\ DOMAIN g = DOMAIN f
  BY ONLY <1>1, <1>4
<1>6. Place(v.vol, g, g.offset \div ClustSize + 1)
  BY ONLY <1>3, <1>5 DEF HandleOK, Place
<1>7. HandleOK(v.vol, g) /\ Exact(v.vol, g)
  BY ONLY <1>3, <1>5, <1>6, Exact(v.vol, f) DEF HandleOK, Exact, At
<1>8. r.fs = v /\ r.f = g /\ r.len = len /\ r.err = "NONE" /\ r.bytes = <<>>
      /\ {"fs", "f", "err", "len", "bytes"} \subseteq DOMAIN r
  BY ONLY <1>2 DEF Work
<1>9. WorkOK(D, r) /\ Exact(r.fs.vol, r.f)
  BY <1>3, <1>7, <1>8 DEF WorkOK
<1>10. \E h : IsLoop(h, "write", 0, 0, r, len)
  BY LoopRuns
<1>11. PICK h : IsLoop(h, "write", 0, 0, r, len) /\ w = Sized(h[len])
  <2>1. \A h : IsLoop(h, "write", 0, 0, r, len) <=>
                 h = [i \in 0 .. len |-> IF i = 0 THEN r ELSE WriteTurn(h[i - 1])]
    BY DEF IsLoop, Turn
  <2>2. w = Sized(WriteTurns(r))
    BY ONLY <1>1, <1>2, w = fat_file_write(v, f, len) DEF fat_file_write
  <2>3. r.len = len
    BY <1>8
  <2> QED BY ONLY <1>10, <2>1, <2>2, <2>3 DEF WriteTurns
<1>12. PICK x : x = h[len]
  OBVIOUS
<1>13. WorkOK(D, x)
  BY <1>9, <1>11, <1>12, TurnsOK
<1>14. PICK n, e : n = Max({x.f.size, x.f.offset}) /\ e = "NONE"
  OBVIOUS
<1>15. w = [x EXCEPT !.f.size = n, !.err = e]
  BY ONLY <1>11, <1>12, <1>14 DEF Sized
<1>16. {"fs", "f", "err", "len", "bytes"} \subseteq DOMAIN x
       /\ {"file", "clust", "sect", "offset", "size", "dirty", "buf"} \subseteq DOMAIN x.f
  BY <1>13 DEF WorkOK, HandleOK
<1>17. w.fs = x.fs /\ w.f = [x.f EXCEPT !.size = n] /\ w.bytes = x.bytes
  BY ONLY <1>15, <1>16
<1>18. w.f.file = x.f.file /\ w.f.clust = x.f.clust /\ w.f.sect = x.f.sect /\ w.f.buf = x.f.buf
       /\ w.f.offset = x.f.offset /\ w.f.dirty = x.f.dirty
  BY ONLY <1>16, <1>17
<1>19. FreeClusters(x.fs.vol) # {}
  BY ONLY <1>17, FreeClusters(w.fs.vol) # {}
<1>20. Writes(r, x) /\ x.len = 0
  BY ONLY <1>8, <1>9, <1>11, <1>12, <1>19, len \in Nat, WriteLoopExact
<1>21. Exact(x.fs.vol, x.f) /\ x.f.file = f.file /\ x.bytes = <<>>
       /\ \A k \in Files : k # f.file => Untouched(v.vol, x.fs.vol, k)
  BY ONLY <1>5, <1>8, <1>20 DEF Writes
<1>22. Exact(w.fs.vol, w.f)
  BY ONLY <1>17, <1>18, <1>21 DEF Exact, At
<1>23. PICK k \in Nat :
         /\ x.len = len - k
         /\ \A o \in Nat : Written(f.offset, k, o, Shows(v.vol, f.file, f.sect, f.buf, o))
                             \in {Unknown, Shows(x.fs.vol, f.file, x.f.sect, x.f.buf, o)}
  BY ONLY <1>5, <1>8, <1>20 DEF Writes
<1>24. k = len
  BY ONLY <1>20, <1>23, k \in Nat, len \in Nat
<1> QED BY ONLY <1>17, <1>18, <1>21, <1>22, <1>23, <1>24 DEF WritesAll

-----------------------------------------------------------------------------
(* fat_file_sync.                                                          *)

\* fat_file_sync of the file f, as the driver has v.
SyncsAll(v, f, w) ==
  /\ \A h \in Files : h # f.file => Untouched(v.vol, w.vol, h)
  /\ \A o \in Nat : Shows(v.vol, f.file, f.sect, f.buf, o) \in {Unknown, ByteAt(w.vol, f.file, o)}

LEMMA UntouchedByte ==
  ASSUME NEW V, NEW W, Laid(V), Laid(W), NEW g \in Files, Untouched(V, W, g), NEW o \in Nat
  PROVE  ByteAt(W, g, o) = ByteAt(V, g, o)
<1>1. ActiveChain(W, g) = ActiveChain(V, g)
  BY DEF Untouched
<1>2. (InChain(W, g, o) <=> InChain(V, g, o)) /\ Sector(W, g, o) = Sector(V, g, o)
  BY ONLY <1>1 DEF InChain, Sector
<1>3. InChain(V, g, o) => W[DataSect(Sector(V, g, o))] = V[DataSect(Sector(V, g, o))]
  BY DEF Untouched
<1>4. InChain(V, g, o) => ByteAt(V, g, o) = V[DataSect(Sector(V, g, o))][o % SectSize]
  BY ByteShown
<1>5. InChain(W, g, o) => ByteAt(W, g, o) = W[DataSect(Sector(W, g, o))][o % SectSize]
  BY ByteShown
<1>6. (~InChain(V, g, o) => ByteAt(V, g, o) = Unknown) /\ (~InChain(W, g, o) => ByteAt(W, g, o) = Unknown)
  BY ByteShown
<1> QED BY ONLY <1>2, <1>3, <1>4, <1>5, <1>6

LEMMA SyncExact ==
  ASSUME NEW D, NEW v, NEW f, Opened(D, v, f), Exact(v.vol, f), NEW w, w = fat_file_sync(v, f)
  PROVE  SyncsAll(v, f, w)
<1>1. PICK V, g, a, b, off : /\ V = v.vol /\ g = f.file /\ a = f.sect /\ b = f.buf /\ off = f.offset
  OBVIOUS
<1>2. Good(D, v) /\ g \in Files /\ off \in Nat /\ Laid(V)
  BY <1>1, GoodLaid DEF Opened, HandleOK
<1>3. PICK u : u = WriteThrough(v, DataSect(a), b)
  OBVIOUS
<1>4. PICK U : U = u.vol
  OBVIOUS
<1>5. Good(D, u) /\ SameChains(V, U) /\ U = [V EXCEPT ![DataSect(a)] = b]
  BY <1>1, <1>2, <1>3, <1>4, DataLater
<1>6. Flushes(V, U, g, off, a, b)
  <2>1. InChain(V, g, off) /\ a = Sector(V, g, off)
    BY <1>1, <1>2, ExactSector
  <2> QED BY ONLY <2>1, <1>2, <1>5 DEF Flushes
<1>7. Carried(V, a, b, U, a, b, g) /\ U[DataSect(a)] = b
  BY ONLY <1>2, <1>6, FlushCarried
<1>8. PICK x : x = SyncEntry(u, f)
  OBVIOUS
<1>9. w = sync_fs(x)
  BY ONLY <1>1, <1>3, <1>8, w = fat_file_sync(v, f) DEF fat_file_sync
<1>10. Fielded(u) => Fielded(x) /\ SameData(u.vol, x.vol)
  <2>1. PICK s, d, e : s = DirSect /\ d = u.vol[DirSect] /\ e = [u.vol[DirSect] EXCEPT ![f.file] = f.size]
    OBVIOUS
  <2>2. \A n : s # DataSect(n)
    BY <2>1 DEF DirSect, DataSect
  <2>3. x = Change(u, s, e) \/ x = Change(u, s, d) \/ x = u
    BY ONLY <2>1, <1>8 DEF SyncEntry
  <2>4. SameData(u.vol, u.vol)
    BY DEF SameData
  <2> QED BY ONLY <2>2, <2>3, <2>4, ChangeData
<1>11. KeepsData(x, w)
  BY ONLY <1>9, FsData
<1>12. Fielded(u) => SameData(u.vol, w.vol)
  BY ONLY <1>10, <1>11 DEF KeepsData, SameData
<1>13. Fielded(u)
  <2>1. u = Rec(u.vol, u.log, NoSect, FALSE, u)
    BY <1>5 DEF Good, Clean
  <2> QED BY ONLY <2>1 DEF Rec, Fielded
<1>14. PICK W : W = w.vol
  OBVIOUS
<1>15. SameData(U, W)
  BY <1>4, <1>12, <1>13, <1>14
<1>16. Good(D, w) /\ SameChains(V, W)
  BY <1>1, <1>14, SyncOK
<1>17. Laid(U) /\ Laid(W)
  BY <1>4, <1>5, <1>14, <1>16, GoodLaid
<1>18. ASSUME NEW h \in Files PROVE Untouched(U, W, h)
  <2>1. ActiveChain(W, h) = ActiveChain(U, h)
    BY <1>5, <1>16 DEF SameChains
  <2>2. \A o \in Nat : InChain(U, h, o) => DataSect(Sector(U, h, o)) \in DOMAIN U
    BY <1>17 DEF Laid
  <2> QED BY <2>1, <2>2, <1>15 DEF Untouched, SameData
<1>19. \A h \in Files : h # g => Untouched(V, U, h)
  BY <1>7 DEF Carried
<1>20. \A h \in Files : h # g => Untouched(V, W, h)
  BY ONLY <1>18, <1>19, UntouchedTrans
<1>21. ASSUME NEW o \in Nat PROVE Shows(V, g, a, b, o) \in {Unknown, ByteAt(W, g, o)}
  <2>1. Shows(V, g, a, b, o) \in {Unknown, Shows(U, g, a, b, o)}
    BY ONLY <1>7, o \in Nat DEF Carried
  <2>2. Shows(U, g, a, U[DataSect(a)], o) = ByteAt(U, g, o)
    BY <1>2, <1>17, ByteShown
  <2>3. ByteAt(W, g, o) = ByteAt(U, g, o)
    BY <1>2, <1>17, <1>18, UntouchedByte
  <2> QED BY ONLY <2>1, <2>2, <2>3, <1>7
<1> QED BY ONLY <1>1, <1>14, <1>20, <1>21 DEF SyncsAll

-----------------------------------------------------------------------------
(* The invariant of the files' contents.                                   *)

Idle(hd, f) == \A h \in Handles : hd[h] # Closed => hd[h].file # f

\* The bytes c are those that the open file f shows, and those that V stores of g.
Remembers(V, f, c) ==
  Exact(V, f) /\ \A o \in 0 .. MaxOff : c[o] \in {Unknown, Shows(V, f.file, f.sect, f.buf, o)}
Stores(V, g, c) == \A o \in 0 .. MaxOff : c[o] \in {Unknown, ByteAt(V, g, o)}

KeptIn(V, hd, c) ==
  /\ \A g, h \in Handles :
       hd[g] # Closed /\ hd[h] # Closed /\ hd[g].file = hd[h].file => g = h
  /\ \A h \in Handles : hd[h] # Closed => Remembers(V, hd[h], c[hd[h].file])
  /\ \A f \in Files : Idle(hd, f) => Stores(V, f, c[f])

DataInv ==
  /\ DOMAIN content = Files
  /\ HasRoom => KeptIn(fs.vol, handle, content)
  /\ ReadsWhatWasWritten

LEMMA UntouchedHandle ==
  ASSUME NEW V, NEW W, NEW f, HandleOK(V, f), Untouched(V, W, f.file), NEW c, Remembers(V, f, c)
  PROVE  Remembers(W, f, c)
<1>1. PICK g, off : g = f.file /\ off = f.offset
  OBVIOUS
<1>2. g \in Files /\ off \in Nat
  BY <1>1 DEF HandleOK
<1>3. Exact(V, f)
  BY DEF Remembers
<1>4. InChain(V, g, off) /\ f.sect = Sector(V, g, off)
  BY <1>1, <1>2, <1>3, ExactSector
<1>5. ActiveChain(W, g) = ActiveChain(V, g)
  BY <1>1 DEF Untouched
<1>6. \A o \in Nat : InChain(V, g, o) => W[DataSect(Sector(V, g, o))] = V[DataSect(Sector(V, g, o))]
  BY <1>1 DEF Untouched
<1>7. W[DataSect(f.sect)] = V[DataSect(f.sect)]
  BY ONLY <1>2, <1>4, <1>6
<1>8. Exact(W, f)
  BY ONLY <1>1, <1>3, <1>5, <1>7 DEF Exact, At
<1>9. ASSUME NEW o \in 0 .. MaxOff PROVE Shows(W, g, f.sect, f.buf, o) = Shows(V, g, f.sect, f.buf, o)
  <2>1. o \in Nat
    BY FatFileAssumption
  <2>2. (InChain(W, g, o) <=> InChain(V, g, o)) /\ Sector(W, g, o) = Sector(V, g, o)
    BY ONLY <1>5 DEF InChain, Sector
  <2> QED BY ONLY <2>1, <2>2, <1>6 DEF Shows
<1>10. \A o \in 0 .. MaxOff : c[o] \in {Unknown, Shows(V, g, f.sect, f.buf, o)}
  BY <1>1 DEF Remembers
<1> QED BY ONLY <1>1, <1>8, <1>9, <1>10 DEF Remembers

LEMMA UntouchedStored ==
  ASSUME NEW V, NEW W, Laid(V), Laid(W), NEW g \in Files, Untouched(V, W, g), NEW c, Stores(V, g, c)
  PROVE  Stores(W, g, c)
<1>1. ASSUME NEW o \in 0 .. MaxOff PROVE ByteAt(W, g, o) = ByteAt(V, g, o)
  <2>1. o \in Nat
    BY FatFileAssumption
  <2> QED BY <2>1, UntouchedByte
<1> QED BY <1>1 DEF Stores

\* A call on the handle h leaves f in it, and the contents c2; the other files are
\* untouched.
Before(V, hd, c) == Laid(V) /\ HandlesOK(V, hd) /\ KeptIn(V, hd, c)

Calls(V, W, hd, he, h, f, c, c2) ==
  /\ h \in Handles /\ hd[h] # Closed /\ he = [hd EXCEPT ![h] = f] /\ Laid(W)
  /\ \A k \in Files : k # hd[h].file => c2[k] = c[k] /\ Untouched(V, W, k)
  /\ f = Closed => Stores(W, hd[h].file, c2[hd[h].file])
  /\ f # Closed => f.file = hd[h].file /\ Remembers(W, f, c2[f.file])

LEMMA CallKept ==
  ASSUME NEW V, NEW W, NEW hd, NEW he, NEW h, NEW f, NEW c, NEW c2,
         Before(V, hd, c), Calls(V, W, hd, he, h, f, c, c2)
  PROVE  KeptIn(W, he, c2)
<1>1. PICK g : g = hd[h].file
  OBVIOUS
<1>2. /\ h \in Handles /\ hd[h] # Closed /\ he = [hd EXCEPT ![h] = f] /\ Laid(W)
      /\ \A k \in Files : k # g => c2[k] = c[k] /\ Untouched(V, W, k)
      /\ f = Closed => Stores(W, g, c2[g])
      /\ f # Closed => f.file = g /\ Remembers(W, f, c2[g])
  BY ONLY <1>1, Calls(V, W, hd, he, h, f, c, c2) DEF Calls
<1>3. Laid(V) /\ HandlesOK(V, hd) /\ KeptIn(V, hd, c)
  BY DEF Before
<1>4. DOMAIN hd = Handles /\ \A k \in Handles : hd[k] # Closed => HandleOK(V, hd[k])
  BY <1>3 DEF HandlesOK
<1>5. \A k \in Handles : he[k] = IF k = h THEN f ELSE hd[k]
  BY ONLY <1>2, <1>4
<1>6. /\ \A j, k \in Handles : hd[j] # Closed /\ hd[k] # Closed /\ hd[j].file = hd[k].file => j = k
      /\ \A k \in Handles : hd[k] # Closed => Remembers(V, hd[k], c[hd[k].file])
      /\ \A k \in Files : Idle(hd, k) => Stores(V, k, c[k])
  BY <1>3 DEF KeptIn
<1>7. g \in Files
  BY <1>1, <1>2, <1>4 DEF HandleOK
<1>8. \A j, k \in Handles : he[j] # Closed /\ he[k] # Closed /\ he[j].file = he[k].file => j = k
  BY ONLY <1>1, <1>2, <1>5, <1>6
<1>9. ASSUME NEW k \in Handles, he[k] # Closed PROVE Remembers(W, he[k], c2[he[k].file])
  <2>1. CASE k = h
    BY ONLY <2>1, <1>2, <1>5, <1>9
  <2>2. CASE k # h
    <3>1. PICK e : e = hd[k] /\ e = he[k]
      BY <2>2, <1>5
    <3>2. HandleOK(V, e) /\ Remembers(V, e, c[e.file])
      BY <3>1, <1>4, <1>6, <1>9
    <3>3. e.file # g
      BY ONLY <3>1, <2>2, <1>1, <1>2, <1>6, <1>9
    <3>4. e.file \in Files
      BY <3>2 DEF HandleOK
    <3>5. c2[e.file] = c[e.file] /\ Untouched(V, W, e.file)
      BY ONLY <3>3, <3>4, <1>2
    <3>6. PICK d : d = c[e.file]
      OBVIOUS
    <3>7. Remembers(W, e, d)
      BY ONLY <3>2, <3>5, <3>6, UntouchedHandle
    <3> QED BY ONLY <3>1, <3>5, <3>6, <3>7
  <2> QED BY <2>1, <2>2
<1>10. ASSUME NEW k \in Files, Idle(he, k) PROVE Stores(W, k, c2[k])
  <2>1. CASE k = g
    <3>1. f = Closed
      BY ONLY <2>1, <1>2, <1>5, <1>10 DEF Idle
    <3> QED BY ONLY <2>1, <3>1, <1>2
  <2>2. CASE k # g
    <3>1. Idle(hd, k)
      BY ONLY <2>2, <1>1, <1>5, <1>10 DEF Idle
    <3>2. PICK d : d = c[k]
      OBVIOUS
    <3>3. Stores(V, k, d) /\ c2[k] = d /\ Untouched(V, W, k)
      BY ONLY <2>2, <3>1, <3>2, <1>2, <1>6, k \in Files
    <3>4. Stores(W, k, d)
      BY ONLY <3>3, <1>2, <1>3, k \in Files, UntouchedStored
    <3> QED BY ONLY <3>3, <3>4
  <2> QED BY <2>1, <2>2
<1> QED BY ONLY <1>8, <1>9, <1>10 DEF KeptIn

\* A call on the open file f that has come from v to w keeps the contents c, which
\* the call makes c2, and returns them.
CallKeeps(v, f, w, c, c2) ==
  /\ w.f.file = f.file /\ Remembers(w.fs.vol, w.f, c2[f.file])
  /\ \A k \in Files : k # f.file => c2[k] = c[k] /\ Untouched(v.vol, w.fs.vol, k)
  /\ \A j \in 1 .. Len(w.bytes) : f.offset + j - 1 <= MaxOff =>
       c2[f.file][f.offset + j - 1] \in {Unknown, w.bytes[j]}

LEMMA CarriedKeeps ==
  ASSUME NEW V, NEW f, NEW c, Remembers(V, f, c), NEW W, NEW f2, Exact(W, f2), f2.file = f.file,
         Carried(V, f.sect, f.buf, W, f2.sect, f2.buf, f.file)
  PROVE  Remembers(W, f2, c) /\ \A k \in Files : k # f.file => Untouched(V, W, k)
<1>1. ASSUME NEW o \in 0 .. MaxOff PROVE c[o] \in {Unknown, Shows(W, f2.file, f2.sect, f2.buf, o)}
  <2>1. o \in Nat
    BY FatFileAssumption
  <2>2. c[o] \in {Unknown, Shows(V, f.file, f.sect, f.buf, o)}
    BY ONLY o \in 0 .. MaxOff, Remembers(V, f, c) DEF Remembers
  <2>3. Shows(V, f.file, f.sect, f.buf, o) \in {Unknown, Shows(W, f.file, f2.sect, f2.buf, o)}
    BY ONLY <2>1, Carried(V, f.sect, f.buf, W, f2.sect, f2.buf, f.file) DEF Carried
  <2> QED BY ONLY <2>2, <2>3, f2.file = f.file
<1>2. \A k \in Files : k # f.file => Untouched(V, W, k)
  BY ONLY Carried(V, f.sect, f.buf, W, f2.sect, f2.buf, f.file) DEF Carried
<1> QED BY ONLY <1>1, <1>2, Exact(W, f2) DEF Remembers

LEMMA ReadKeeps ==
  ASSUME NEW D, NEW v, NEW f, Opened(D, v, f), NEW c, Remembers(v.vol, f, c[f.file]),
         NEW len \in Nat, NEW w, w = fat_file_read(v, f, len), FreeClusters(w.fs.vol) # {}
  PROVE  CallKeeps(v, f, w, c, c)
<1>1. PICK V, W, d, f2 : V = v.vol /\ W = w.fs.vol /\ d = c[f.file] /\ f2 = w.f
  OBVIOUS
<1>2. Exact(v.vol, f) /\ f.offset \in Nat
  BY DEF Remembers, Opened, HandleOK
<1>3. ReadsAll(v, f, w)
  BY <1>2, ReadExact
<1>4. /\ Exact(W, f2) /\ f2.file = f.file /\ Listed(w.bytes)
      /\ Carried(V, f.sect, f.buf, W, f2.sect, f2.buf, f.file)
      /\ \A j \in 1 .. Len(w.bytes) :
           Shows(V, f.file, f.sect, f.buf, f.offset + j - 1) \in {Unknown, w.bytes[j]}
  BY ONLY <1>1, <1>3 DEF ReadsAll
<1>5. Remembers(V, f, d)
  BY <1>1
<1>6. Remembers(W, f2, d) /\ \A k \in Files : k # f.file => Untouched(V, W, k)
  BY ONLY <1>4, <1>5, CarriedKeeps
<1>7. ASSUME NEW j \in 1 .. Len(w.bytes), f.offset + j - 1 <= MaxOff
      PROVE  d[f.offset + j - 1] \in {Unknown, w.bytes[j]}
  <2>1. Len(w.bytes) \in Nat
    BY <1>4 DEF Listed
  <2>2. PICK o : o = f.offset + j - 1
    OBVIOUS
  <2>3. MaxOff \in Nat
    BY FatFileAssumption
  <2>4. o \in 0 .. MaxOff
    BY ONLY <2>1, <2>2, <2>3, <1>2, <1>7
  <2>5. d[o] \in {Unknown, Shows(V, f.file, f.sect, f.buf, o)}
    BY ONLY <2>4, <1>5 DEF Remembers
  <2>6. Shows(V, f.file, f.sect, f.buf, o) \in {Unknown, w.bytes[j]}
    BY ONLY <2>2, <1>4, j \in 1 .. Len(w.bytes)
  <2> QED BY ONLY <2>2, <2>5, <2>6
<1> QED BY ONLY <1>1, <1>4, <1>6, <1>7 DEF CallKeeps

LEMMA WriteKeeps ==
  ASSUME NEW D, NEW v, NEW f, Opened(D, v, f), NEW c, DOMAIN c = Files, Remembers(v.vol, f, c[f.file]),
         NEW len \in Nat, NEW w, w = fat_file_write(v, f, len), FreeClusters(w.fs.vol) # {},
         NEW d, d = [o \in 0 .. MaxOff |-> IF o \in f.offset .. f.offset + len - 1
                                           THEN NewByte ELSE c[f.file][o]],
         NEW c2, c2 = [c EXCEPT ![f.file] = d]
  PROVE  CallKeeps(v, f, w, c, c2)
<1>1. PICK V, W, g, at, f2 : /\ V = v.vol /\ W = w.fs.vol /\ g = f.file /\ at = f.offset /\ f2 = w.f
  OBVIOUS
<1>2. Exact(v.vol, f) /\ g \in Files
  BY <1>1 DEF Remembers, Opened, HandleOK
<1>3. WritesAll(v, f, len, w)
  BY <1>2, WriteExact
<1>4. /\ Exact(W, f2) /\ f2.file = g /\ w.bytes = <<>>
      /\ \A h \in Files : h # g => Untouched(V, W, h)
      /\ \A o \in Nat : Written(at, len, o, Shows(V, g, f.sect, f.buf, o))
                          \in {Unknown, Shows(W, g, f2.sect, f2.buf, o)}
  BY ONLY <1>1, <1>3 DEF WritesAll
<1>5. c2[g] = d /\ \A k \in Files : k # g => c2[k] = c[k]
  BY ONLY <1>1, <1>2, DOMAIN c = Files, c2 = [c EXCEPT ![f.file] = d]
<1>6. ASSUME NEW o \in 0 .. MaxOff PROVE d[o] \in {Unknown, Shows(W, g, f2.sect, f2.buf, o)}
  <2>1. o \in Nat
    BY FatFileAssumption
  <2>2. d[o] = IF o \in at .. at + len - 1 THEN NewByte ELSE c[g][o]
    BY <1>1
  <2>3. c[g][o] \in {Unknown, Shows(V, g, f.sect, f.buf, o)}
    BY ONLY <1>1, o \in 0 .. MaxOff, Remembers(v.vol, f, c[f.file]) DEF Remembers
  <2>4. Written(at, len, o, Shows(V, g, f.sect, f.buf, o)) \in {Unknown, Shows(W, g, f2.sect, f2.buf, o)}
    BY ONLY <2>1, <1>4
  <2> QED BY ONLY <2>2, <2>3, <2>4 DEF Written
<1>7. Remembers(W, f2, c2[g])
  BY ONLY <1>4, <1>5, <1>6 DEF Remembers
<1>8. \A j : ~(j \in 1 .. Len(w.bytes))
  BY ONLY <1>4
<1> QED BY ONLY <1>1, <1>4, <1>5, <1>7, <1>8 DEF CallKeeps

LEMMA SeekKeeps ==
  ASSUME NEW D, NEW v, NEW f, Opened(D, v, f), NEW c, Remembers(v.vol, f, c[f.file]),
         NEW off \in Int, NEW r, r = Work(v, f, 0), NEW w, w = fat_file_seek(r, off),
         FreeClusters(w.fs.vol) # {}
  PROVE  CallKeeps(v, f, w, c, c)
<1>1. PICK V, d : V = v.vol /\ d = c[f.file]
  OBVIOUS
<1>2. Exact(V, f) /\ Remembers(V, f, d)
  BY <1>1 DEF Remembers
<1>3. r.fs = v /\ r.f = f /\ r.len = 0 /\ r.err = "NONE" /\ r.bytes = <<>>
      /\ {"fs", "f", "err", "len", "bytes"} \subseteq DOMAIN r
  BY ONLY r = Work(v, f, 0) DEF Work
<1>4. WorkOK(D, r)
  BY <1>3 DEF WorkOK, Opened
<1>5. CASE off < 0
  <2>1. PICK e : e = "EOF"
    OBVIOUS
  <2>2. w = [r EXCEPT !.err = e]
    BY ONLY <2>1, <1>5, w = fat_file_seek(r, off) DEF fat_file_seek
  <2>3. w.fs = v /\ w.f = f /\ w.bytes = <<>>
    BY ONLY <2>2, <1>3
  <2>4. \A k \in Files : Untouched(V, V, k)
    BY DEF Untouched
  <2>5. \A j : ~(j \in 1 .. Len(w.bytes))
    BY ONLY <2>3
  <2> QED BY ONLY <2>3, <2>4, <2>5, <1>1, <1>2 DEF CallKeeps
<1>6. CASE ~(off < 0)
  <2>1. off \in Nat
    BY <1>6
  <2>2. PICK a, W, f2 : a = r.f.sect /\ W = w.fs.vol /\ f2 = w.f
    OBVIOUS
  <2>3. Exact(r.fs.vol, r.f)
    BY <1>1, <1>2, <1>3
  <2>4. Arrives(r, a, off, w)
    BY ONLY <2>1, <2>2, <2>3, <1>3, <1>4, w = fat_file_seek(r, off), FreeClusters(w.fs.vol) # {},
            SeekExact
  <2>5. Exact(W, f2) /\ f2.file = f.file /\ w.bytes = <<>>
        /\ Carried(V, f.sect, f.buf, W, f2.sect, f2.buf, f.file)
    BY ONLY <2>2, <2>4, <1>1, <1>3 DEF Arrives
  <2>6. Remembers(W, f2, d) /\ \A k \in Files : k # f.file => Untouched(V, W, k)
    BY ONLY <2>5, <1>2, CarriedKeeps
  <2>7. \A j : ~(j \in 1 .. Len(w.bytes))
    BY ONLY <2>5
  <2> QED BY ONLY <2>2, <2>5, <2>6, <2>7, <1>1 DEF CallKeeps
<1> QED BY <1>5, <1>6

\* The step of a call on an open file.
LEMMA CallData ==
  ASSUME FatInv, DataInv, "file" \notin DOMAIN Closed, NEW h \in Handles, IsOpen(h),
         NEW r, WorkOK(disk, r), Later(fs, r.fs), Done(h, r), DOMAIN content' = Files,
         FreeClusters(r.fs.vol) # {} /\ Remembers(fs.vol, handle[h], content[handle[h].file]) =>
           CallKeeps(fs, handle[h], r, content, content')
  PROVE  DataInv'
<1>1. PICK D, v, hd, he, c, c2, f, w, f2 :
        /\ D = disk /\ v = fs /\ hd = handle /\ he = handle' /\ c = content /\ c2 = content'
        /\ f = handle[h] /\ w = r.fs /\ f2 = r.f
  OBVIOUS
<1>2. fs' = w /\ he = [hd EXCEPT ![h] = f2] /\ f # Closed /\ f = hd[h]
  BY <1>1 DEF Done, IsOpen
<1>3. Good(D, v) /\ HandlesOK(v.vol, hd) /\ Good(D, w) /\ HandleOK(w.vol, f2)
  BY <1>1 DEF FatInv, WorkOK
<1>4. f2 # Closed /\ he[h] = f2
  <2>1. "file" \in DOMAIN f2
    BY <1>3 DEF HandleOK
  <2> QED BY <2>1, <1>2, <1>3 DEF HandlesOK
<1>5. PICK V, W : V = v.vol /\ W = w.vol
  OBVIOUS
<1>6. SUFFICES ASSUME FreeClusters(W) # {}
               PROVE  KeptIn(W, he, c2) /\ ReadsWhatWasWritten'
  BY <1>1, <1>2, <1>5 DEF DataInv, HasRoom, ReadsWhatWasWritten
<1>7. KeptIn(V, hd, c)
  <2>1. FreeClusters(V) # {}
    BY <1>1, <1>5, <1>6 DEF Later, Fewer
  <2> QED BY <2>1, <1>1, <1>5 DEF DataInv, HasRoom
<1>8. Remembers(V, f, c[f.file])
  BY <1>2, <1>7 DEF KeptIn
<1>9. CallKeeps(v, f, r, c, c2)
  BY <1>1, <1>5, <1>6, <1>8
<1>10. /\ f2.file = f.file /\ Remembers(W, f2, c2[f.file])
       /\ \A k \in Files : k # f.file => c2[k] = c[k] /\ Untouched(V, W, k)
       /\ \A j \in 1 .. Len(r.bytes) : f.offset + j - 1 <= MaxOff =>
            c2[f.file][f.offset + j - 1] \in {Unknown, r.bytes[j]}
  BY ONLY <1>1, <1>5, <1>9 DEF CallKeeps
<1>11. Laid(V) /\ Laid(W)
  BY <1>3, <1>5, GoodLaid
<1>12. Before(V, hd, c)
  BY <1>3, <1>5, <1>7, <1>11 DEF Before
<1>13. Calls(V, W, hd, he, h, f2, c, c2)
  BY ONLY <1>2, <1>4, <1>10, <1>11, h \in Handles DEF Calls
<1>14. KeptIn(W, he, c2)
  BY ONLY <1>12, <1>13, CallKept
<1>15. ReadsWhatWasWritten'
  <2>1. CASE r.bytes = <<>>
    <3>1. reply' = [bytes |-> <<>>]
      BY <2>1 DEF Done, NoReply
    <3>2. Len(reply'.bytes) = 0
      BY ONLY <3>1
    <3>3. \A j : ~(j \in 1 .. Len(reply'.bytes))
      BY ONLY <3>2
    <3> QED BY ONLY <3>3 DEF ReadsWhatWasWritten
  <2>2. CASE r.bytes # <<>>
    <3>1. reply' = [handle |-> h, from |-> f.offset, bytes |-> r.bytes]
      BY <2>2, <1>1 DEF Done
    <3>2. reply'.handle = h /\ reply'.from = f.offset /\ reply'.bytes = r.bytes
      BY ONLY <3>1
    <3>3. handle'[reply'.handle].file = f.file
      BY ONLY <3>2, <1>1, <1>4, <1>10
    <3> QED BY ONLY <3>2, <3>3, <1>1, <1>10 DEF ReadsWhatWasWritten
  <2> QED BY <2>1, <2>2
<1> QED BY <1>14, <1>15

LEMMA OpenExact ==
  ASSUME NEW D, NEW v, NEW f, Opened(D, v, f), f.offset = 0, ~f.dirty, f.sect = -1,
         f.clust = StartClust[f.file], NEW w, w = fat_file_seek(Work(v, f, 0), 0)
  PROVE  Exact(v.vol, w.f) /\ w.f.file = f.file /\ w.f.buf = v.vol[DataSect(w.f.sect)]
<1>1. PICK r, a : r = Work(v, f, 0) /\ a = f.sect
  OBVIOUS
<1>2. WorkOK(D, r) /\ r.fs = v /\ r.f = f /\ r.err = "NONE" /\ w = Arrived(r, a, 0)
  BY <1>1, OpenArrives
<1>3. f.file \in Files /\ Good(D, v)
  BY DEF Opened, HandleOK
<1>4. StartClust[f.file] \in Clusters
  BY <1>3, FatFileAssumption
<1>5. PICK c \in Clusters : c = f.clust
  BY <1>4
<1>6. PICK n, k : n = SectorOf(c, 0) /\ k = 0
  OBVIOUS
<1>7. n # a
  <2>1. PICK i \in Nat, m \in Nat : i = c - 2 /\ m = SectPerClust
    BY FatVolumeAssumption DEF Clusters
  <2>2. (0 \div SectSize) % SectPerClust \in 0 .. SectPerClust - 1
    BY ClusterOf
  <2>3. i * m \in Nat
    OBVIOUS
  <2>4. n = i * m + ((0 \div SectSize) % SectPerClust)
    BY ONLY <2>1, <1>6 DEF SectorOf, clust_to_sect
  <2>5. n \in Nat
    BY ONLY <2>1, <2>2, <2>3, <2>4
  <2> QED BY <2>5, <1>1
<1>8. PICK at : at = [r EXCEPT !.f.sect = n, !.f.offset = k]
  OBVIOUS
<1>9. {"fs", "f", "err", "len", "bytes"} \subseteq DOMAIN r
      /\ {"file", "sclust", "clust", "sect", "offset", "size", "dirty", "buf"} \subseteq DOMAIN f
  BY <1>2 DEF WorkOK, HandleOK
<1>10. at.fs = v /\ at.f = [f EXCEPT !.sect = n, !.offset = k] /\ DOMAIN at = DOMAIN r
  BY ONLY <1>2, <1>8, <1>9
<1>11. at.f.clust = c /\ at.f.file = f.file /\ at.f.offset = k /\ at.f.sect = n
       /\ at.f.dirty = f.dirty /\ DOMAIN at.f = DOMAIN f
  BY ONLY <1>5, <1>9, <1>10
<1>12. w = Loaded(at)
  <2>1. w = IF at.f.sect = a THEN at ELSE Loaded(Flushed(at, a))
    BY ONLY <1>2, <1>5, <1>6, <1>8 DEF Arrived
  <2>2. Flushed(at, a) = at
    BY <1>11 DEF Flushed
  <2> QED BY ONLY <2>1, <2>2, <1>7, <1>11
<1>13. PICK b : b = v.vol[DataSect(n)]
  OBVIOUS
<1>14. w = [at EXCEPT !.f.buf = b]
  BY ONLY <1>10, <1>11, <1>12, <1>13 DEF Loaded
<1>15. w.f = [at.f EXCEPT !.buf = b]
  BY ONLY <1>9, <1>10, <1>14
<1>16. w.f.clust = c /\ w.f.file = f.file /\ w.f.offset = k /\ w.f.sect = n /\ w.f.buf = b
  BY ONLY <1>9, <1>11, <1>15
<1>17. At(v.vol, w.f, k \div ClustSize + 1)
  <2>1. 1 \in 1 .. Len(ActiveChain(v.vol, f.file)) /\ ActiveChain(v.vol, f.file)[1] = c
    BY <1>3, <1>5, GoodGrows
  <2>2. k \div ClustSize + 1 = 1
    BY <1>6, ClustSizeFacts
  <2> QED BY ONLY <2>1, <2>2, <1>16 DEF At
<1>18. Exact(v.vol, w.f)
  BY ONLY <1>6, <1>13, <1>16, <1>17 DEF Exact
<1> QED BY ONLY <1>13, <1>16, <1>18

\* A reply without bytes.
LEMMA NothingRead ==
  ASSUME reply' = NoReply
  PROVE  ReadsWhatWasWritten'
<1>1. reply' = [bytes |-> <<>>]
  BY DEF NoReply
<1>2. Len(reply'.bytes) = 0
  BY ONLY <1>1
<1>3. \A j : ~(j \in 1 .. Len(reply'.bytes))
  BY ONLY <1>2
<1> QED BY ONLY <1>3 DEF ReadsWhatWasWritten

LEMMA OpenData ==
  ASSUME ~Sharing, "file" \notin DOMAIN Closed, FatInv, DataInv,
         NEW h \in Handles, NEW f \in Files, NEW wr \in Modes, fat32_open(h, f, wr)
  PROVE  DataInv'
<1>1. PICK D, v, hd, sz, c : D = disk /\ v = fs /\ hd = handle /\ sz = isize /\ c = content
  OBVIOUS
<1>2. PICK size, no : size = (IF sz[f] = Closed THEN v.vol[DirSect][f] ELSE sz[f]) /\ no = FALSE
  OBVIOUS
<1>3. PICK new : new = [file |-> f, sclust |-> StartClust[f], clust |-> StartClust[f],
                        sect |-> -1, offset |-> 0, size |-> size, write |-> wr, dirty |-> no,
                        modified |-> no, accessed |-> no, buf |-> <<>>]
  OBVIOUS
<1>4. PICK w : w = fat_file_seek(Work(v, new, 0), 0)
  OBVIOUS
<1>5. PICK e, he : e = w.f /\ he = [hd EXCEPT ![h] = e]
  OBVIOUS
<1>6. /\ handle' = he /\ fs' = v /\ content' = c /\ reply' = NoReply
      /\ isize' = [sz EXCEPT ![f] = size] /\ disk' = D
  BY ONLY <1>1, <1>2, <1>3, <1>4, <1>5, fat32_open(h, f, wr) DEF fat32_open
<1>7. hd[h] = Closed /\ Idle(hd, f)
  BY <1>1 DEF fat32_open, IsOpen, Idle
<1>8. Good(D, v) /\ HandlesOK(v.vol, hd)
  BY <1>1 DEF FatInv
<1>9. new.file = f /\ new.sclust = StartClust[f] /\ new.clust = StartClust[f] /\ new.sect = -1
      /\ new.offset = 0 /\ new.size = size /\ new.dirty = no
      /\ {"file", "sclust", "clust", "sect", "offset", "size", "dirty", "modified", "accessed", "buf"}
           \subseteq DOMAIN new
  BY ONLY <1>3
<1>10. HandleOK(v.vol, new)
  <2>1. size \in Nat /\ size <= ClustSize * Len(ActiveChain(v.vol, f))
    <3>1. CASE sz[f] = Closed
      <4>1. PICK ch : SoundWith(v.vol, ch) /\ \A g \in Files : ActiveChain(v.vol, g) = ch[0][g]
        BY <1>8, GoodChains
      <4>2. v.vol[DirSect] \in [Files -> Nat]
            /\ \A g \in Files : v.vol[DirSect][g] <= ClustSize * Len(ch[0][g])
        BY <4>1 DEF SoundWith, Typed, Covered
      <4> QED BY <3>1, <4>1, <4>2, <1>2
    <3>2. CASE sz[f] # Closed
      BY <3>2, <1>1, <1>2 DEF FatInv, SizesOK
    <3> QED BY <3>1, <3>2
  <2>2. 1 \in 1 .. Len(ActiveChain(v.vol, f)) /\ ActiveChain(v.vol, f)[1] = StartClust[f]
    BY <1>8, GoodGrows
  <2>3. 0 \div ClustSize + 1 <= 1 /\ 0 \in Nat
    BY ClustSizeFacts
  <2>4. Place(v.vol, new, new.offset \div ClustSize + 1)
    BY ONLY <2>2, <2>3, <1>9 DEF Place
  <2> QED BY ONLY <2>1, <2>3, <2>4, <1>9, f \in Files DEF HandleOK
<1>11. Exact(v.vol, e) /\ e.file = f /\ e.buf = v.vol[DataSect(e.sect)]
  <2>1. Opened(D, v, new) /\ ~new.dirty
    BY <1>2, <1>8, <1>9, <1>10 DEF Opened
  <2>2. Exact(v.vol, w.f) /\ w.f.file = new.file /\ w.f.buf = v.vol[DataSect(w.f.sect)]
    BY ONLY <2>1, <1>4, <1>9, OpenExact
  <2> QED BY ONLY <2>2, <1>5, <1>9
<1>12. ASSUME KeptIn(v.vol, hd, c) PROVE KeptIn(v.vol, he, c)
  <2>1. Stores(v.vol, f, c[f])
    BY <1>7, <1>12 DEF KeptIn
  <2>2. Remembers(v.vol, e, c[f])
    <3>1. ASSUME NEW o \in 0 .. MaxOff PROVE Shows(v.vol, f, e.sect, e.buf, o) = ByteAt(v.vol, f, o)
      <4>1. o \in Nat /\ Laid(v.vol)
        BY <1>8, GoodLaid, FatFileAssumption
      <4>2. Shows(v.vol, f, e.sect, v.vol[DataSect(e.sect)], o) = ByteAt(v.vol, f, o)
        BY <4>1, ByteShown
      <4> QED BY ONLY <4>2, <1>11
    <3> QED BY ONLY <2>1, <3>1, <1>11 DEF Remembers, Stores
  <2>3. DOMAIN hd = Handles
    BY <1>8 DEF HandlesOK
  <2>4. \A k \in Handles : he[k] = IF k = h THEN e ELSE hd[k]
    BY ONLY <2>3, <1>5
  <2>5. /\ \A j, k \in Handles : hd[j] # Closed /\ hd[k] # Closed /\ hd[j].file = hd[k].file => j = k
        /\ \A k \in Handles : hd[k] # Closed => Remembers(v.vol, hd[k], c[hd[k].file])
        /\ \A k \in Files : Idle(hd, k) => Stores(v.vol, k, c[k])
    BY <1>12 DEF KeptIn
  <2>6. \A j, k \in Handles : he[j] # Closed /\ he[k] # Closed /\ he[j].file = he[k].file => j = k
    BY ONLY <2>4, <2>5, <1>7, <1>11 DEF Idle
  <2>7. \A k \in Handles : he[k] # Closed => Remembers(v.vol, he[k], c[he[k].file])
    BY ONLY <2>2, <2>4, <2>5, <1>11
  <2>8. \A k \in Files : Idle(he, k) => Stores(v.vol, k, c[k])
    BY ONLY <2>4, <2>5, <1>7 DEF Idle
  <2> QED BY ONLY <2>6, <2>7, <2>8 DEF KeptIn
<1> QED BY <1>1, <1>6, <1>12, NothingRead DEF DataInv, HasRoom

LEMMA CloseData ==
  ASSUME FatInv, DataInv, NEW h \in Handles, fat32_close(h)
  PROVE  DataInv'
<1>1. PICK D, v, hd, he, c, f : /\ D = disk /\ v = fs /\ hd = handle /\ he = handle' /\ c = content
                                /\ f = handle[h]
  OBVIOUS
<1>2. PICK w : w = fat_file_sync(v, f)
  OBVIOUS
<1>3. fs' = w /\ he = [hd EXCEPT ![h] = Closed] /\ f # Closed /\ f = hd[h] /\ content' = c
      /\ reply' = NoReply
  BY <1>1, <1>2 DEF fat32_close, IsOpen
<1>4. Good(D, v) /\ HandlesOK(v.vol, hd)
  BY <1>1 DEF FatInv
<1>5. Opened(D, v, f)
  BY <1>3, <1>4 DEF Opened, HandlesOK
<1>6. Good(D, w) /\ Later(v, w)
  BY <1>2, <1>5, SyncOK
<1>7. PICK V, W, g, no : V = v.vol /\ W = w.vol /\ g = f.file /\ no = Closed
  OBVIOUS
<1>8. Laid(V) /\ Laid(W)
  BY <1>4, <1>6, <1>7, GoodLaid
<1>9. ASSUME FreeClusters(W) # {} PROVE KeptIn(W, he, c)
  <2>1. KeptIn(V, hd, c)
    <3>1. FreeClusters(V) # {}
      BY <1>6, <1>7, <1>9 DEF Later, Fewer
    <3> QED BY <3>1, <1>1, <1>7 DEF DataInv, HasRoom
  <2>2. Remembers(V, f, c[g])
    BY <2>1, <1>3, <1>7 DEF KeptIn
  <2>3. SyncsAll(v, f, w)
    <3>1. Exact(v.vol, f)
      BY <2>2, <1>7 DEF Remembers
    <3> QED BY ONLY <3>1, <1>2, <1>5, SyncExact
  <2>4. Stores(W, g, c[g])
    <3>1. ASSUME NEW o \in 0 .. MaxOff PROVE c[g][o] \in {Unknown, ByteAt(W, g, o)}
      <4>1. o \in Nat
        BY FatFileAssumption
      <4>2. c[g][o] \in {Unknown, Shows(V, g, f.sect, f.buf, o)}
        BY ONLY <2>2, <1>7, o \in 0 .. MaxOff DEF Remembers
      <4>3. Shows(V, g, f.sect, f.buf, o) \in {Unknown, ByteAt(W, g, o)}
        BY ONLY <2>3, <4>1, <1>7 DEF SyncsAll
      <4> QED BY ONLY <4>2, <4>3
    <3> QED BY ONLY <3>1 DEF Stores
  <2>5. \A k \in Files : k # g => Untouched(V, W, k)
    BY ONLY <2>3, <1>7 DEF SyncsAll
  <2>6. Calls(V, W, hd, he, h, no, c, c)
    BY ONLY <2>4, <2>5, <1>3, <1>7, <1>8, h \in Handles DEF Calls
  <2>7. Before(V, hd, c)
    BY <2>1, <1>4, <1>7, <1>8 DEF Before
  <2> QED BY ONLY <2>6, <2>7, CallKept
<1> QED BY <1>1, <1>3, <1>7, <1>9, NothingRead DEF DataInv, HasRoom

LEMMA ReadData ==
  ASSUME "file" \notin DOMAIN Closed, FatInv, DataInv,
         NEW h \in Handles, NEW len \in Lens, fat32_read(h, len)
  PROVE  DataInv'
<1>1. PICK D, v, f, c, w : /\ D = disk /\ v = fs /\ f = handle[h] /\ c = content
                           /\ w = fat_file_read(v, f, len)
  OBVIOUS
<1>2. Done(h, w) /\ content' = content /\ IsOpen(h)
  BY <1>1 DEF fat32_read
<1>3. Opened(D, v, f) /\ len \in Nat
  BY <1>1, <1>2, OpenHandle, FatFileAssumption
<1>4. WorkOK(D, w) /\ Later(v, w.fs)
  BY <1>1, <1>3, ReadOK
<1>5. FreeClusters(w.fs.vol) # {} /\ Remembers(v.vol, f, c[f.file]) => CallKeeps(v, f, w, c, c)
  BY <1>1, <1>3, ReadKeeps
<1>6. DOMAIN content' = Files
  BY <1>2 DEF DataInv
<1> QED BY <1>1, <1>2, <1>4, <1>5, <1>6, CallData

LEMMA WriteData ==
  ASSUME "file" \notin DOMAIN Closed, FatInv, DataInv,
         NEW h \in Handles, NEW len \in Lens, fat32_write(h, len)
  PROVE  DataInv'
<1>1. PICK D, v, f, c, w : /\ D = disk /\ v = fs /\ f = handle[h] /\ c = content
                           /\ w = fat_file_write(v, f, len)
  OBVIOUS
<1>2. PICK d, c2 : /\ d = [o \in 0 .. MaxOff |-> IF o \in f.offset .. f.offset + len - 1
                                                 THEN NewByte ELSE c[f.file][o]]
                   /\ c2 = [c EXCEPT ![f.file] = d]
  OBVIOUS
<1>3. Done(h, w) /\ IsOpen(h)
  BY <1>1 DEF fat32_write
<1>4. content' = c2
  BY ONLY <1>1, <1>2, fat32_write(h, len) DEF fat32_write
<1>5. Opened(D, v, f) /\ len \in Nat
  BY <1>1, <1>3, OpenHandle, FatFileAssumption
<1>6. WorkOK(D, w) /\ Later(v, w.fs)
  BY <1>1, <1>5, WriteOK
<1>7. DOMAIN c = Files /\ DOMAIN c2 = Files
  BY <1>1, <1>2 DEF DataInv
<1>8. FreeClusters(w.fs.vol) # {} /\ Remembers(v.vol, f, c[f.file]) => CallKeeps(v, f, w, c, c2)
  BY <1>1, <1>2, <1>5, <1>7, WriteKeeps
<1> QED BY <1>1, <1>3, <1>4, <1>6, <1>7, <1>8, CallData

LEMMA SeekData ==
  ASSUME "file" \notin DOMAIN Closed, FatInv, DataInv,
         NEW h \in Handles, NEW off \in -1 .. MaxOff, fat32_lseek(h, off)
  PROVE  DataInv'
<1>1. PICK D, v, f, c : D = disk /\ v = fs /\ f = handle[h] /\ c = content
  OBVIOUS
<1>2. PICK r : r = Work(v, f, 0)
  OBVIOUS
<1>3. PICK w : w = fat_file_seek(r, off)
  OBVIOUS
<1>4. Done(h, w) /\ content' = content /\ IsOpen(h)
  BY <1>1, <1>2, <1>3 DEF fat32_lseek
<1>5. Opened(D, v, f) /\ off \in Int
  BY <1>1, <1>4, OpenHandle, FatFileAssumption
<1>6. r.fs = v /\ r.f = f /\ r.len = 0 /\ {"fs", "f", "err", "len", "bytes"} \subseteq DOMAIN r
  BY ONLY <1>2 DEF Work
<1>7. WorkOK(D, r)
  BY <1>5, <1>6 DEF WorkOK, Opened
<1>8. WorkOK(D, w) /\ Later(v, w.fs)
  BY <1>3, <1>5, <1>6, <1>7, SeekOK
<1>9. FreeClusters(w.fs.vol) # {} /\ Remembers(v.vol, f, c[f.file]) => CallKeeps(v, f, w, c, c)
  BY <1>2, <1>3, <1>5, SeekKeeps
<1>10. DOMAIN content' = Files
  BY <1>4 DEF DataInv
<1> QED BY <1>1, <1>4, <1>8, <1>9, <1>10, CallData

LEMMA DiskData ==
  ASSUME FatInv, DataInv, disk_write
  PROVE  DataInv'
<1>1. PICK v, w, rest : v = fs /\ w = fs' /\ rest = Tail(v.log)
  OBVIOUS
<1>2. w = [v EXCEPT !.log = rest] /\ handle' = handle /\ content' = content /\ reply' = NoReply
  BY <1>1 DEF disk_write
<1>3. v = Rec(v.vol, v.log, NoSect, FALSE, v)
  BY <1>1 DEF FatInv, Good, Clean
<1>4. {"vol", "log"} \subseteq DOMAIN v
  BY ONLY <1>3 DEF Rec
<1>5. w.vol = v.vol
  BY ONLY <1>2, <1>4
<1>6. HasRoom' => HasRoom
  BY ONLY <1>1, <1>5 DEF HasRoom
<1>7. KeptIn(fs.vol, handle, content) => KeptIn(fs'.vol, handle', content')
  BY ONLY <1>1, <1>2, <1>5
<1> QED BY <1>2, <1>6, <1>7, NothingRead DEF DataInv

\* A volume with all files closed.
LEMMA AllClosed ==
  ASSUME NEW V, NEW hd, hd = [h \in Handles |-> Closed], NEW c, \A f \in Files : Stores(V, f, c[f])
  PROVE  KeptIn(V, hd, c)
BY DEF KeptIn

LEMMA FailureData ==
  ASSUME power_failure
  PROVE  DataInv'
<1>1. PICK D, c : D = disk /\ c = content'
  OBVIOUS
<1>2. c = [f \in Files |-> [o \in 0 .. MaxOff |-> IF o < D[DirSect][f] THEN ByteAt(D, f, o) ELSE Unknown]]
      /\ fs' = Mounted(D) /\ handle' = [h \in Handles |-> Closed] /\ reply' = NoReply
  BY <1>1 DEF power_failure
<1>3. \A f \in Files : Stores(D, f, c[f])
  BY <1>2 DEF Stores
<1>4. fs'.vol = D
  BY ONLY <1>2 DEF Mounted
<1>5. KeptIn(D, handle', c)
  BY <1>2, <1>3, AllClosed
<1>6. DOMAIN c = Files
  BY <1>2
<1> QED BY <1>1, <1>2, <1>4, <1>5, <1>6, NothingRead DEF DataInv

LEMMA InitData ==
  ASSUME Init
  PROVE  DataInv
<1>1. PICK V, c : V = Volume0 /\ c = content
  OBVIOUS
<1>2. c = [f \in Files |-> [o \in 0 .. MaxOff |-> IF o < Size0[f] THEN OldByte ELSE Unknown]]
      /\ handle = [h \in Handles |-> Closed] /\ fs = Mounted(V) /\ reply = [bytes |-> <<>>]
  BY <1>1 DEF Init, NoReply
<1>3. Good(V, fs) /\ fs.vol = V
  <2>1. Sound(V)
    BY <1>1, FormattedSound
  <2>2. PICK w : w = Mounted(V)
    OBVIOUS
  <2> QED BY <2>1, <2>2, <1>2, MountGood
<1>4. Laid(V)
  BY <1>3, GoodLaid
<1>5. ASSUME NEW f \in Files, NEW o \in 0 .. MaxOff PROVE c[f][o] \in {Unknown, ByteAt(V, f, o)}
  <2>1. o \in Nat /\ Size0[f] \in 0 .. ClustSize /\ StartClust[f] \in Clusters
    BY FatFileAssumption, ClustSizeFacts
  <2>2. CASE ~(o < Size0[f])
    BY <2>2, <1>2
  <2>3. CASE o < Size0[f]
    <3>1. o \div ClustSize = 0
      <4>1. PICK m \in Nat \ {0} : m = ClustSize
        BY ClustSizeFacts
      <4>2. o \in 0 .. m - 1
        BY ONLY <2>1, <2>3, <4>1, m \in Nat
      <4>3. 0 \in Nat /\ o = m * 0 + o
        BY ONLY <4>2, m \in Nat
      <4>4. o \div m = 0
        BY ONLY <4>2, <4>3, m \in Nat \ {0}, Divided
      <4> QED BY ONLY <4>1, <4>4
    <3>2. Len(ActiveChain(V, f)) \in Nat \ {0} /\ ActiveChain(V, f)[1] = StartClust[f]
      BY <1>3, GoodGrows
    <3>3. PICK k \in Clusters : k = StartClust[f]
      BY <2>1
    <3>4. InChain(V, f, o) /\ Sector(V, f, o) = SectorOf(k, o)
      BY <3>1, <3>2, <3>3 DEF InChain, Sector
    <3>5. PICK n : n = SectorOf(k, o)
      OBVIOUS
    <3>6. DataSect(n) \in DataSects
      <4>1. PICK ch : SoundWith(V, ch)
        BY <1>3, GoodChains
      <4>2. Typed(V)
        BY <4>1 DEF SoundWith
      <4> QED BY <4>2, <2>1, <3>5, SectorThere
    <3>7. DataSect(n) \notin FatSects
      BY DEF DataSect, FatSects, FatSect
    <3>8. V[DataSect(n)] = [i \in 0 .. SectSize - 1 |-> OldByte]
      BY ONLY <3>6, <3>7, <1>1 DEF Volume0
    <3>9. o % SectSize \in 0 .. SectSize - 1
      BY <2>1, VolumeFacts, Quotient
    <3>10. ByteAt(V, f, o) = V[DataSect(n)][o % SectSize]
      BY <2>1, <3>4, <3>5, <1>4, ByteShown
    <3>11. ByteAt(V, f, o) = OldByte
      BY ONLY <3>8, <3>9, <3>10
    <3> QED BY <3>11, <2>3, <1>2
  <2> QED BY <2>2, <2>3
<1>6. \A f \in Files : Stores(V, f, c[f])
  BY <1>5 DEF Stores
<1>7. KeptIn(V, handle, c) /\ DOMAIN c = Files
  BY <1>2, <1>6, AllClosed
<1>8. ReadsWhatWasWritten
  <2>1. Len(reply.bytes) = 0
    BY ONLY <1>2
  <2>2. \A j : ~(j \in 1 .. Len(reply.bytes))
    BY ONLY <2>1
  <2> QED BY ONLY <2>2 DEF ReadsWhatWasWritten
<1> QED BY <1>1, <1>3, <1>7, <1>8 DEF DataInv

\* The inductive invariant of the files' contents: every open file is at its
\* offset's cluster and sector exactly, and shows, together with its buffer, what
\* was written to it; a closed file has it on the volume.  One handle at a time
\* has a file open, and Closed is no File structure.
THEOREM FatDataInvariant ==
  ASSUME ~Sharing, "file" \notin DOMAIN Closed
  PROVE  Spec => []DataInv
<1>1. Init => DataInv
  BY InitData
<1>2. FatInv /\ DataInv /\ [Next]_vars => DataInv'
  <2> SUFFICES ASSUME FatInv, DataInv, [Next]_vars PROVE DataInv'
    OBVIOUS
  <2>1. ASSUME NEW h \in Handles, NEW f \in Files, NEW w \in Modes, fat32_open(h, f, w)
        PROVE  DataInv'
    BY <2>1, OpenData
  <2>2. ASSUME NEW h \in Handles, fat32_close(h) PROVE DataInv'
    BY <2>2, CloseData
  <2>3. ASSUME NEW h \in Handles, NEW len \in Lens, fat32_read(h, len) PROVE DataInv'
    BY <2>3, ReadData
  <2>4. ASSUME NEW h \in Handles, NEW len \in Lens, fat32_write(h, len) PROVE DataInv'
    BY <2>4, WriteData
  <2>5. ASSUME NEW h \in Handles, NEW off \in -1 .. MaxOff, fat32_lseek(h, off) PROVE DataInv'
    BY <2>5, SeekData
  <2>6. CASE disk_write
    BY <2>6, DiskData
  <2>7. CASE power_failure
    BY <2>7, FailureData
  <2>8. CASE UNCHANGED vars
    BY <2>8 DEF vars, DataInv, HasRoom, ReadsWhatWasWritten
  <2> QED BY <2>1, <2>2, <2>3, <2>4, <2>5, <2>6, <2>7, <2>8 DEF Next
<1> QED BY <1>1, <1>2, FatInvariant, PTL DEF Spec

-----------------------------------------------------------------------------
(* Sizes.  Only a write changes the size of an open file and marks it      *)
(* modified, and only fat_file_sync changes the directory.                 *)

\* An operation's record has all its fields.
Whole(r) ==
  /\ {"fs", "f", "err", "len", "bytes"} \subseteq DOMAIN r
  /\ {"file", "sclust", "clust", "sect", "offset", "size", "dirty", "modified", "accessed", "buf"}
       \subseteq DOMAIN r.f
  /\ Fielded(r.fs) /\ DirSect \in DOMAIN r.fs.vol

KeepsSize(r, w) ==
  Whole(r) =>
    /\ Whole(w) /\ w.fs.vol[DirSect] = r.fs.vol[DirSect]
    /\ w.f.file = r.f.file /\ w.f.size = r.f.size /\ w.f.modified = r.f.modified

LEMMA SizeTrans ==
  ASSUME NEW u, NEW v, NEW w, KeepsSize(u, v), KeepsSize(v, w)
  PROVE  KeepsSize(u, w)
BY DEF KeepsSize

LEMMA GoodWhole ==
  ASSUME NEW D, NEW v, Good(D, v)
  PROVE  Fielded(v) /\ DirSect \in DOMAIN v.vol
<1>1. v = Rec(v.vol, v.log, NoSect, FALSE, v)
  BY DEF Good, Clean
<1>2. Fielded(v)
  BY ONLY <1>1 DEF Rec, Fielded
<1>3. PICK ch : SoundWith(v.vol, ch)
  BY GoodChains
<1> QED BY <1>2, <1>3 DEF SoundWith, Typed

LEMMA FollowSize ==
  ASSUME NEW r, NEW w, w = Follow(r)
  PROVE  KeepsSize(r, w)
<1>1. SUFFICES ASSUME Whole(r)
               PROVE  /\ Whole(w) /\ w.fs.vol[DirSect] = r.fs.vol[DirSect]
                      /\ w.f.file = r.f.file /\ w.f.size = r.f.size /\ w.f.modified = r.f.modified
  BY DEF KeepsSize
<1>2. /\ {"fs", "f", "err", "len", "bytes"} \subseteq DOMAIN r
      /\ {"file", "clust", "size", "modified"} \subseteq DOMAIN r.f
  BY <1>1 DEF Whole
<1>3. PICK next, c, x, broken, full :
        /\ next = get_fat(r.fs.vol, r.f.clust) /\ c = Pick(r.fs, r.f.clust)
        /\ x = StretchBy(r.fs, r.f.clust, c) /\ broken = "BROKEN" /\ full = "FULL"
  OBVIOUS
<1>4. \/ w = r
      \/ w = [r EXCEPT !.err = broken]
      \/ w = [r EXCEPT !.f.clust = next]
      \/ w = [r EXCEPT !.fs = x, !.err = full]
      \/ w = [r EXCEPT !.fs = x, !.f.clust = c]
  BY ONLY <1>3, w = Follow(r) DEF Follow, stretch_chain
<1>5. /\ DOMAIN w = DOMAIN r /\ w.fs \in {r.fs, x}
      /\ \/ w.f = r.f
         \/ \E k : w.f = [r.f EXCEPT !.clust = k]
  BY ONLY <1>2, <1>4
<1>6. DOMAIN w.f = DOMAIN r.f /\ w.f.file = r.f.file /\ w.f.size = r.f.size
      /\ w.f.modified = r.f.modified
  BY ONLY <1>2, <1>5
<1>7. Fielded(x) /\ SameDir(r.fs.vol, x.vol)
  <2>1. PICK v, p : v = r.fs /\ p = r.f.clust
    OBVIOUS
  <2>2. x = StretchBy(v, p, c)
    BY ONLY <2>1, <1>3
  <2>3. KeepsData(v, x)
    BY ONLY <2>2, StretchData
  <2> QED BY <2>1, <2>3, <1>1 DEF KeepsData, Whole
<1>8. Fielded(w.fs) /\ DirSect \in DOMAIN w.fs.vol /\ w.fs.vol[DirSect] = r.fs.vol[DirSect]
  BY <1>1, <1>5, <1>7 DEF Whole, SameDir
<1> QED BY ONLY <1>1, <1>5, <1>6, <1>8 DEF Whole

\* Any number of turns of one of the loops, each of which keeps the size.
LEMMA LoopSize ==
  ASSUME NEW r, NEW loop, NEW m \in Nat, NEW h, IsLoop(h, loop, 0, 0, r, m),
         \A x, y : y = Turn(loop, 0, 0, x) => KeepsSize(x, y)
  PROVE  KeepsSize(r, h[m])
<1>1. h[0] = r /\ \A i \in 0 .. m - 1 : h[i + 1] = Turn(loop, 0, 0, h[i])
  BY LoopTurns
<1> DEFINE S == {i \in Nat : KeepsSize(r, h[i])}
<1>2. 0 \in S
  BY <1>1 DEF KeepsSize
<1>3. ASSUME NEW i \in 0 .. m - 1, i \in S PROVE i + 1 \in S
  <2>1. PICK x, y : x = h[i] /\ y = h[i + 1]
    OBVIOUS
  <2>2. y = Turn(loop, 0, 0, x)
    BY ONLY <2>1, <1>1, i \in 0 .. m - 1
  <2>3. KeepsSize(r, x) /\ KeepsSize(x, y)
    BY <2>1, <2>2, <1>3
  <2>4. KeepsSize(r, y)
    BY ONLY <2>3, SizeTrans
  <2> QED BY <2>1, <2>4
<1>4. \A i \in 0 .. m : i \in S
  <2> HIDE DEF S
  <2> QED BY <1>2, <1>3, UpTo
<1> QED BY <1>4

\* What a seek that goes forward by m clusters makes of r.
LEMMA FollowedSize ==
  ASSUME NEW r, NEW off, NEW m \in Nat, m = off \div ClustSize - r.f.offset \div ClustSize,
         NEW w, w = Followed(r, off)
  PROVE  KeepsSize(r, w)
<1>1. \E h : IsLoop(h, "seek", 0, 0, r, m)
  BY LoopRuns
<1>2. PICK h : IsLoop(h, "seek", 0, 0, r, m) /\ w = h[m]
  <2>1. \A h : IsLoop(h, "seek", 0, 0, r, m) <=>
                 h = [i \in 0 .. m |-> IF i = 0 THEN r ELSE Follow(h[i - 1])]
    BY DEF IsLoop, Turn
  <2> QED BY ONLY <1>1, <2>1, m = off \div ClustSize - r.f.offset \div ClustSize,
                  w = Followed(r, off) DEF Followed
<1>3. \A x, y : y = Turn("seek", 0, 0, x) => KeepsSize(x, y)
  <2>1. \A x : Turn("seek", 0, 0, x) = Follow(x)
    BY DEF Turn
  <2> QED BY ONLY <2>1, FollowSize
<1> QED BY <1>2, <1>3, LoopSize

LEMMA RewoundSize ==
  ASSUME NEW r, NEW off, NEW w, w = Rewound(r, off)
  PROVE  KeepsSize(r, w)
<1>1. SUFFICES ASSUME Whole(r)
               PROVE  /\ Whole(w) /\ w.fs.vol[DirSect] = r.fs.vol[DirSect]
                      /\ w.f.file = r.f.file /\ w.f.size = r.f.size /\ w.f.modified = r.f.modified
  BY DEF KeepsSize
<1>2. /\ {"fs", "f", "err", "len", "bytes"} \subseteq DOMAIN r
      /\ {"file", "sclust", "clust", "sect", "offset", "size", "modified"} \subseteq DOMAIN r.f
  BY <1>1 DEF Whole
<1>3. PICK c, a, k : c = r.f.sclust /\ a = clust_to_sect(r.f.sclust) /\ k = 0
  OBVIOUS
<1>4. \/ w = r
      \/ w = [r EXCEPT !.f.clust = c, !.f.sect = a, !.f.offset = k]
  BY ONLY <1>3, w = Rewound(r, off) DEF Rewound
<1>5. /\ DOMAIN w = DOMAIN r /\ w.fs = r.fs
      /\ w.f = r.f \/ w.f = [r.f EXCEPT !.clust = c, !.sect = a, !.offset = k]
  BY ONLY <1>2, <1>4
<1>6. DOMAIN w.f = DOMAIN r.f /\ w.f.file = r.f.file /\ w.f.size = r.f.size
      /\ w.f.modified = r.f.modified
  BY ONLY <1>2, <1>5
<1> QED BY ONLY <1>1, <1>5, <1>6 DEF Whole

\* A sector of data written past the buffer is not the directory's.
LEMMA DataSize ==
  ASSUME NEW v, Fielded(v), DirSect \in DOMAIN v.vol, NEW n, NEW d,
         NEW w, w = WriteThrough(v, DataSect(n), d)
  PROVE  Fielded(w) /\ DirSect \in DOMAIN w.vol /\ w.vol[DirSect] = v.vol[DirSect]
<1>1. PICK V, W, s, log : /\ V = v.vol /\ s = DataSect(n) /\ W = [V EXCEPT ![s] = d]
                          /\ log = Append(v.log, [sect |-> s, data |-> d])
  OBVIOUS
<1>2. w = [v EXCEPT !.vol = W, !.log = log]
  BY ONLY <1>1, w = WriteThrough(v, DataSect(n), d) DEF WriteThrough
<1>3. w.vol = W /\ DOMAIN w = DOMAIN v
  BY ONLY <1>2, Fielded(v) DEF Fielded
<1>4. s # DirSect
  BY <1>1, SectorFacts
<1>5. DirSect \in DOMAIN W /\ W[DirSect] = V[DirSect]
  <2>1. DirSect \in DOMAIN V
    BY <1>1
  <2> QED BY ONLY <2>1, <1>1, <1>4
<1> QED BY <1>1, <1>3, <1>5 DEF Fielded

LEMMA ArrivedSize ==
  ASSUME NEW r, NEW a, NEW off, NEW w, w = Arrived(r, a, off)
  PROVE  KeepsSize(r, w)
<1>1. SUFFICES ASSUME Whole(r)
               PROVE  /\ Whole(w) /\ w.fs.vol[DirSect] = r.fs.vol[DirSect]
                      /\ w.f.file = r.f.file /\ w.f.size = r.f.size /\ w.f.modified = r.f.modified
  BY DEF KeepsSize
<1>2. /\ {"fs", "f", "err", "len", "bytes"} \subseteq DOMAIN r
      /\ {"file", "sclust", "clust", "sect", "offset", "size", "dirty", "modified", "buf"}
           \subseteq DOMAIN r.f
  BY <1>1 DEF Whole
<1>3. CASE r.err # "NONE"
  <2>1. w = r
    BY ONLY <1>3, w = Arrived(r, a, off) DEF Arrived
  <2> QED BY <2>1, <1>1
<1>4. CASE r.err = "NONE"
  <2>1. PICK n : n = SectorOf(r.f.clust, off)
    OBVIOUS
  <2>2. PICK at : at = [r EXCEPT !.f.sect = n, !.f.offset = off]
    OBVIOUS
  <2>3. w = IF at.f.sect = a THEN at ELSE Loaded(Flushed(at, a))
    BY ONLY <2>1, <2>2, <1>4, w = Arrived(r, a, off) DEF Arrived
  <2>4. at.fs = r.fs /\ at.f = [r.f EXCEPT !.sect = n, !.offset = off] /\ DOMAIN at = DOMAIN r
    BY ONLY <2>2, <1>2
  <2>5. at.f.file = r.f.file /\ at.f.size = r.f.size /\ at.f.modified = r.f.modified
        /\ DOMAIN at.f = DOMAIN r.f
    BY ONLY <2>4, <1>2
  <2>6. CASE at.f.sect = a
    <3>1. w = at
      BY ONLY <2>3, <2>6
    <3> QED BY ONLY <3>1, <2>4, <2>5, <1>1 DEF Whole
  <2>7. CASE at.f.sect # a
    <3>1. PICK x, v, no : /\ x = Flushed(at, a) /\ no = FALSE
                          /\ v = WriteThrough(at.fs, DataSect(a), at.f.buf)
      OBVIOUS
    <3>2. PICK b : b = x.fs.vol[DataSect(x.f.sect)]
      OBVIOUS
    <3>3. w = [x EXCEPT !.f.buf = b]
      BY ONLY <2>3, <2>7, <3>1, <3>2 DEF Loaded
    <3>4. x = at \/ x = [at EXCEPT !.fs = v, !.f.dirty = no]
      BY ONLY <3>1 DEF Flushed
    <3>5. /\ DOMAIN x = DOMAIN at /\ x.fs \in {at.fs, v}
          /\ x.f = at.f \/ x.f = [at.f EXCEPT !.dirty = no]
      BY ONLY <3>4, <2>4, <1>2
    <3>6. DOMAIN x.f = DOMAIN at.f /\ x.f.file = at.f.file /\ x.f.size = at.f.size
          /\ x.f.modified = at.f.modified
      BY ONLY <3>5, <2>5, <1>2
    <3>7. Fielded(v) /\ DirSect \in DOMAIN v.vol /\ v.vol[DirSect] = r.fs.vol[DirSect]
      <4>1. PICK u, d : u = r.fs /\ d = at.f.buf
        OBVIOUS
      <4>2. Fielded(u) /\ DirSect \in DOMAIN u.vol /\ v = WriteThrough(u, DataSect(a), d)
        BY ONLY <4>1, <3>1, <2>4, <1>1 DEF Whole
      <4> QED BY ONLY <4>1, <4>2, DataSize
    <3>8. w.fs = x.fs /\ w.f = [x.f EXCEPT !.buf = b] /\ DOMAIN w = DOMAIN x
      BY ONLY <3>3, <3>5, <2>4, <1>2
    <3>9. DOMAIN w.f = DOMAIN x.f /\ w.f.file = x.f.file /\ w.f.size = x.f.size
          /\ w.f.modified = x.f.modified
      BY ONLY <3>6, <3>8, <2>5, <1>2
    <3>10. Fielded(w.fs) /\ DirSect \in DOMAIN w.fs.vol /\ w.fs.vol[DirSect] = r.fs.vol[DirSect]
      BY ONLY <3>5, <3>7, <3>8, <2>4, <1>1 DEF Whole
    <3>11. DOMAIN w = DOMAIN r /\ DOMAIN w.f = DOMAIN r.f
      BY ONLY <3>5, <3>6, <3>8, <3>9, <2>4, <2>5
    <3>12. Whole(w)
      BY ONLY <3>10, <3>11, <1>1 DEF Whole
    <3> QED BY ONLY <3>6, <3>9, <3>10, <3>12, <2>5
  <2> QED BY <2>6, <2>7
<1> QED BY <1>3, <1>4

LEMMA SeekSize ==
  ASSUME NEW D, NEW r, WorkOK(D, r), NEW off \in Int, NEW w, w = fat_file_seek(r, off)
  PROVE  KeepsSize(r, w)
<1>1. CASE off < 0
  <2>1. PICK e : e = "EOF"
    OBVIOUS
  <2>2. w = [r EXCEPT !.err = e]
    BY ONLY <2>1, <1>1, w = fat_file_seek(r, off) DEF fat_file_seek
  <2>3. {"fs", "f", "err", "len", "bytes"} \subseteq DOMAIN r
    BY DEF WorkOK
  <2>4. w.fs = r.fs /\ w.f = r.f /\ DOMAIN w = DOMAIN r
    BY ONLY <2>2, <2>3
  <2> QED BY ONLY <2>4 DEF KeepsSize, Whole
<1>2. CASE ~(off < 0)
  <2>1. PICK x, y, a : x = Rewound(r, off) /\ y = Followed(x, off) /\ a = r.f.sect
    OBVIOUS
  <2>2. w = Arrived(y, a, off)
    BY ONLY <2>1, <1>2, w = fat_file_seek(r, off) DEF fat_file_seek
  <2>3. WorkOK(D, x) /\ x.f.offset \div ClustSize <= off \div ClustSize
    BY <2>1, <1>2, RewoundOn
  <2>4. x.f.offset \div ClustSize \in Nat /\ off \div ClustSize \in Nat
    <3>1. x.f.offset \in Nat /\ off \in Nat
      BY <2>3, <1>2 DEF WorkOK, HandleOK
    <3> QED BY ONLY <3>1, ClustSizeFacts
  <2>5. PICK m \in Nat : m = off \div ClustSize - x.f.offset \div ClustSize
    BY ONLY <2>3, <2>4
  <2>6. KeepsSize(r, x)
    BY ONLY <2>1, RewoundSize
  <2>7. KeepsSize(x, y)
    BY ONLY <2>1, <2>5, m \in Nat, FollowedSize
  <2>8. KeepsSize(y, w)
    BY ONLY <2>2, ArrivedSize
  <2> QED BY ONLY <2>6, <2>7, <2>8, SizeTrans
<1> QED BY <1>1, <1>2

LEMMA ReadTurnSize ==
  ASSUME NEW D, NEW r, WorkOK(D, r), NEW w, w = ReadTurn(r)
  PROVE  KeepsSize(r, w)
<1>1. CASE r.err # "NONE" \/ r.len = 0 \/ r.f.offset >= r.f.size
  <2>1. w = r
    BY ONLY <1>1, w = ReadTurn(r) DEF ReadTurn
  <2> QED BY <2>1 DEF KeepsSize
<1>2. CASE ~(r.err # "NONE" \/ r.len = 0 \/ r.f.offset >= r.f.size)
  <2>1. PICK len, off, size, idx : /\ len = r.len /\ off = r.f.offset /\ size = r.f.size
                                   /\ idx = off % SectSize
    OBVIOUS
  <2>2. len \in Nat /\ off \in Nat /\ size \in Nat
    BY <2>1 DEF WorkOK, HandleOK
  <2>3. SectSize - idx \in Nat /\ size - off \in Nat
    BY <2>1, <2>2, <1>2, SectorOffset
  <2>4. PICK S : S = {len, SectSize - idx, size - off}
    OBVIOUS
  <2>5. S \in SUBSET Nat /\ S # {} /\ len \in S
    BY ONLY <2>2, <2>3, <2>4
  <2>6. PICK cnt \in Nat : cnt = Min(S) /\ cnt <= len
    BY <2>5, MinOf
  <2>7. PICK b, l, to : /\ b = r.bytes \o [j \in 1 .. cnt |-> r.f.buf[idx + j - 1]]
                        /\ l = r.len - cnt /\ to = off + cnt
    OBVIOUS
  <2>8. PICK x : x = [r EXCEPT !.len = l, !.bytes = b]
    OBVIOUS
  <2>9. w = fat_file_seek(x, to)
    BY ONLY <2>1, <2>4, <2>6, <2>7, <2>8, <1>2, w = ReadTurn(r) DEF ReadTurn
  <2>10. l \in Nat /\ to \in Int
    BY ONLY <2>1, <2>2, <2>6, <2>7, cnt \in Nat
  <2>11. {"fs", "f", "err", "len", "bytes"} \subseteq DOMAIN r
    BY DEF WorkOK
  <2>12. x.fs = r.fs /\ x.f = r.f /\ x.len = l /\ DOMAIN x = DOMAIN r
    BY ONLY <2>8, <2>11
  <2>13. WorkOK(D, x)
    BY <2>10, <2>12 DEF WorkOK
  <2>14. KeepsSize(x, w)
    BY ONLY <2>9, <2>10, <2>13, SeekSize
  <2> QED BY ONLY <2>12, <2>14 DEF KeepsSize, Whole
<1> QED BY <1>1, <1>2

LEMMA WriteTurnSize ==
  ASSUME NEW D, NEW r, WorkOK(D, r), NEW w, w = WriteTurn(r)
  PROVE  KeepsSize(r, w)
<1>1. Good(D, r.fs) /\ HandleOK(r.fs.vol, r.f) /\ r.len \in Nat
      /\ {"fs", "f", "err", "len", "bytes"} \subseteq DOMAIN r
  BY DEF WorkOK
<1>2. CASE r.err # "NONE" \/ r.len = 0
  <2>1. w = r
    BY ONLY <1>2, w = WriteTurn(r) DEF WriteTurn
  <2> QED BY <2>1 DEF KeepsSize
<1>3. CASE ~(r.err # "NONE" \/ r.len = 0)
  <2>1. PICK len, off, idx : len = r.len /\ off = r.f.offset /\ idx = off % SectSize
    OBVIOUS
  <2>2. len \in Nat /\ off \in Nat
    BY <1>1, <2>1 DEF HandleOK
  <2>3. SectSize - idx \in Nat
    BY <2>1, <2>2, SectorOffset
  <2>4. PICK S : S = {len, SectSize - idx}
    OBVIOUS
  <2>5. S \in SUBSET Nat /\ S # {} /\ len \in S
    BY ONLY <2>2, <2>3, <2>4
  <2>6. PICK cnt \in Nat : cnt = Min(S) /\ cnt <= len
    BY <2>5, MinOf
  <2>7. PICK b : b = [j \in 0 .. SectSize - 1 |-> IF j \in idx .. idx + cnt - 1
                                                  THEN NewByte ELSE r.f.buf[j]]
    OBVIOUS
  <2>8. PICK l, to, yes : l = r.len - cnt /\ to = off + cnt /\ yes = TRUE
    OBVIOUS
  <2>9. PICK x : x = [r EXCEPT !.len = l, !.f.buf = b, !.f.dirty = yes]
    OBVIOUS
  <2>10. w = fat_file_seek(x, to)
    BY ONLY <2>1, <2>4, <2>6, <2>7, <2>8, <2>9, <1>3, w = WriteTurn(r) DEF WriteTurn
  <2>11. l \in Nat /\ to \in Int
    BY ONLY <2>1, <2>2, <2>6, <2>8, cnt \in Nat
  <2>12. x.fs = r.fs /\ x.f = [r.f EXCEPT !.buf = b, !.dirty = yes] /\ x.len = l
         /\ DOMAIN x = DOMAIN r
    BY ONLY <2>9, <1>1
  <2>13. {"file", "sclust", "clust", "sect", "offset", "size", "dirty", "modified", "buf"}
           \subseteq DOMAIN r.f
    BY ONLY <1>1 DEF HandleOK
  <2>14. x.f.clust = r.f.clust /\ x.f.file = r.f.file /\ x.f.offset = r.f.offset
         /\ x.f.size = r.f.size /\ x.f.sclust = r.f.sclust /\ x.f.modified = r.f.modified
         /\ DOMAIN x.f = DOMAIN r.f
    BY ONLY <2>12, <2>13
  <2>15. Place(r.fs.vol, x.f, x.f.offset \div ClustSize + 1)
    BY ONLY <2>14, <1>1 DEF HandleOK, Place
  <2>16. HandleOK(r.fs.vol, x.f)
    BY ONLY <2>14, <2>15, <1>1 DEF HandleOK
  <2>17. WorkOK(D, x)
    BY <2>11, <2>12, <2>16, <1>1 DEF WorkOK
  <2>18. KeepsSize(x, w)
    BY ONLY <2>10, <2>11, <2>17, SeekSize
  <2> QED BY ONLY <2>12, <2>14, <2>18 DEF KeepsSize, Whole
<1> QED BY <1>2, <1>3

LEMMA TurnsSize ==
  ASSUME NEW D, NEW r, WorkOK(D, r), NEW loop \in {"read", "write"}, NEW m \in Nat,
         NEW h, IsLoop(h, loop, 0, 0, r, m)
  PROVE  KeepsSize(r, h[m])
<1>1. h[0] = r /\ \A i \in 0 .. m - 1 : h[i + 1] = Turn(loop, 0, 0, h[i])
  BY LoopTurns
<1>2. \A x : Turn(loop, 0, 0, x) = ReadTurn(x) \/ Turn(loop, 0, 0, x) = WriteTurn(x)
  BY DEF Turn
<1> DEFINE S == {i \in Nat : WorkOK(D, h[i]) /\ KeepsSize(r, h[i])}
<1>3. 0 \in S
  BY <1>1 DEF KeepsSize
<1>4. ASSUME NEW i \in 0 .. m - 1, i \in S PROVE i + 1 \in S
  <2>1. PICK x, y : x = h[i] /\ y = h[i + 1]
    OBVIOUS
  <2>2. i \in Nat /\ WorkOK(D, x) /\ KeepsSize(r, x)
    BY <1>4, <2>1
  <2>3. y = ReadTurn(x) \/ y = WriteTurn(x)
    BY <1>1, <1>2, <2>1
  <2>4. WorkOK(D, y)
    BY ONLY <2>2, <2>3, ReadTurnOK, WriteTurnOK
  <2>5. KeepsSize(x, y)
    BY ONLY <2>2, <2>3, ReadTurnSize, WriteTurnSize
  <2>6. KeepsSize(r, y)
    BY ONLY <2>2, <2>5, SizeTrans
  <2> QED BY <2>1, <2>2, <2>4, <2>6
<1>5. \A i \in 0 .. m : i \in S
  <2> HIDE DEF S
  <2> QED BY <1>3, <1>4, UpTo
<1> QED BY <1>5

\* A call other than a write keeps size, mark and directory.
KeepsAll(v, f, w) ==
  /\ w.fs.vol[DirSect] = v.vol[DirSect]
  /\ w.f.file = f.file /\ w.f.size = f.size /\ w.f.modified = f.modified

LEMMA ReadSize ==
  ASSUME NEW D, NEW v, NEW f, Opened(D, v, f), NEW len \in Nat, NEW w, w = fat_file_read(v, f, len)
  PROVE  KeepsAll(v, f, w)
<1>1. PICK g, yes : g = [f EXCEPT !.accessed = yes] /\ yes = TRUE
  OBVIOUS
<1>2. PICK r : r = Work(v, g, len)
  OBVIOUS
<1>3. Good(D, v) /\ HandleOK(v.vol, f)
  BY DEF Opened
<1>4. {"file", "sclust", "clust", "sect", "offset", "size", "dirty", "modified", "accessed", "buf"}
        \subseteq DOMAIN f
  BY ONLY <1>3 DEF HandleOK
<1>5. g.clust = f.clust /\ g.file = f.file /\ g.offset = f.offset /\ g.modified = f.modified
      /\ g.size = f.size /\ g.sclust = f.sclust /\ DOMAIN g = DOMAIN f
  BY ONLY <1>1, <1>4
<1>6. Place(v.vol, g, g.offset \div ClustSize + 1)
  BY ONLY <1>3, <1>5 DEF HandleOK, Place
<1>7. HandleOK(v.vol, g)
  BY ONLY <1>3, <1>5, <1>6 DEF HandleOK
<1>8. r.fs = v /\ r.f = g /\ r.len = len /\ {"fs", "f", "err", "len", "bytes"} \subseteq DOMAIN r
  BY ONLY <1>2 DEF Work
<1>9. WorkOK(D, r)
  BY <1>3, <1>7, <1>8 DEF WorkOK
<1>10. \E h : IsLoop(h, "read", 0, 0, r, len)
  BY LoopRuns
<1>11. PICK h : IsLoop(h, "read", 0, 0, r, len) /\ w = h[len]
  <2>1. \A h : IsLoop(h, "read", 0, 0, r, len) <=>
                 h = [i \in 0 .. len |-> IF i = 0 THEN r ELSE ReadTurn(h[i - 1])]
    BY DEF IsLoop, Turn
  <2>2. w = ReadTurns(r)
    BY ONLY <1>1, <1>2, w = fat_file_read(v, f, len) DEF fat_file_read
  <2>3. r.len = len
    BY <1>8
  <2> QED BY ONLY <1>10, <2>1, <2>2, <2>3 DEF ReadTurns
<1>12. KeepsSize(r, w)
  BY <1>9, <1>11, TurnsSize
<1>13. Whole(r)
  BY <1>3, <1>4, <1>5, <1>8, GoodWhole DEF Whole
<1> QED BY ONLY <1>5, <1>8, <1>12, <1>13 DEF KeepsSize, KeepsAll

LEMMA LseekSize ==
  ASSUME NEW D, NEW v, NEW f, Opened(D, v, f), NEW off \in Int, NEW w,
         w = fat_file_seek(Work(v, f, 0), off)
  PROVE  KeepsAll(v, f, w)
<1>1. PICK r : r = Work(v, f, 0)
  OBVIOUS
<1>2. r.fs = v /\ r.f = f /\ r.len = 0 /\ {"fs", "f", "err", "len", "bytes"} \subseteq DOMAIN r
  BY ONLY <1>1 DEF Work
<1>3. WorkOK(D, r)
  BY <1>2 DEF WorkOK, Opened
<1>4. KeepsSize(r, w)
  <2>1. w = fat_file_seek(r, off)
    BY <1>1
  <2> QED BY ONLY <2>1, <1>3, off \in Int, SeekSize
<1>5. Whole(r)
  <2>1. Good(D, v) /\ HandleOK(v.vol, f)
    BY DEF Opened
  <2> QED BY <2>1, <1>2, GoodWhole DEF Whole, HandleOK
<1> QED BY ONLY <1>2, <1>4, <1>5 DEF KeepsSize, KeepsAll

\* A write that leaves room makes the file long enough for what it wrote.
LEMMA WriteSize ==
  ASSUME NEW D, NEW v, NEW f, Opened(D, v, f), NEW len \in Nat,
         NEW w, w = fat_file_write(v, f, len)
  PROVE  /\ w.fs.vol[DirSect] = v.vol[DirSect] /\ w.f.file = f.file /\ w.f.modified
         /\ Exact(v.vol, f) /\ FreeClusters(w.fs.vol) # {} =>
              w.f.size \in Nat /\ w.f.size >= f.size /\ w.f.size >= f.offset + len
<1>1. PICK g, yes : g = [f EXCEPT !.modified = yes, !.accessed = yes] /\ yes = TRUE
  OBVIOUS
<1>2. PICK r : r = Work(v, g, len)
  OBVIOUS
<1>3. Good(D, v) /\ HandleOK(v.vol, f)
  BY DEF Opened
<1>4. {"file", "sclust", "clust", "sect", "offset", "size", "dirty", "modified", "accessed", "buf"}
        \subseteq DOMAIN f
  BY ONLY <1>3 DEF HandleOK
<1>5. g.clust = f.clust /\ g.file = f.file /\ g.offset = f.offset /\ g.sect = f.sect /\ g.buf = f.buf
      /\ g.size = f.size /\ g.sclust = f.sclust /\ g.dirty = f.dirty /\ g.modified = yes
      /\ DOMAIN g = DOMAIN f
  BY ONLY <1>1, <1>4
<1>6. Place(v.vol, g, g.offset \div ClustSize + 1)
  BY ONLY <1>3, <1>5 DEF HandleOK, Place
<1>7. HandleOK(v.vol, g)
  BY ONLY <1>3, <1>5, <1>6 DEF HandleOK
<1>8. r.fs = v /\ r.f = g /\ r.len = len /\ r.err = "NONE"
      /\ {"fs", "f", "err", "len", "bytes"} \subseteq DOMAIN r
  BY ONLY <1>2 DEF Work
<1>9. WorkOK(D, r)
  BY <1>3, <1>7, <1>8 DEF WorkOK
<1>10. \E h : IsLoop(h, "write", 0, 0, r, len)
  BY LoopRuns
<1>11. PICK h : IsLoop(h, "write", 0, 0, r, len) /\ w = Sized(h[len])
  <2>1. \A h : IsLoop(h, "write", 0, 0, r, len) <=>
                 h = [i \in 0 .. len |-> IF i = 0 THEN r ELSE WriteTurn(h[i - 1])]
    BY DEF IsLoop, Turn
  <2>2. w = Sized(WriteTurns(r))
    BY ONLY <1>1, <1>2, w = fat_file_write(v, f, len) DEF fat_file_write
  <2>3. r.len = len
    BY <1>8
  <2> QED BY ONLY <1>10, <2>1, <2>2, <2>3 DEF WriteTurns
<1>12. PICK x : x = h[len]
  OBVIOUS
<1>13. WorkOK(D, x) /\ KeepsSize(r, x)
  BY <1>9, <1>11, <1>12, TurnsOK, TurnsSize
<1>14. Whole(r)
  BY <1>3, <1>4, <1>5, <1>8, GoodWhole DEF Whole
<1>15. Whole(x) /\ x.fs.vol[DirSect] = v.vol[DirSect]
       /\ x.f.file = f.file /\ x.f.size = f.size /\ x.f.modified = yes
  BY ONLY <1>5, <1>8, <1>13, <1>14 DEF KeepsSize
<1>16. PICK a, b, n, e : a = x.f.size /\ b = x.f.offset /\ n = Max({a, b}) /\ e = "NONE"
  OBVIOUS
<1>17. w = [x EXCEPT !.f.size = n, !.err = e]
  BY ONLY <1>11, <1>12, <1>16 DEF Sized
<1>18. {"fs", "f", "err", "len", "bytes"} \subseteq DOMAIN x
       /\ {"file", "size", "modified"} \subseteq DOMAIN x.f
  BY ONLY <1>15 DEF Whole
<1>19. w.fs = x.fs /\ w.f = [x.f EXCEPT !.size = n]
  BY ONLY <1>17, <1>18
<1>20. w.f.file = x.f.file /\ w.f.modified = x.f.modified /\ w.f.size = n
  BY ONLY <1>18, <1>19
<1>21. ASSUME Exact(v.vol, f), FreeClusters(w.fs.vol) # {}
       PROVE  w.f.size \in Nat /\ w.f.size >= f.size /\ w.f.size >= f.offset + len
  <2>1. Exact(r.fs.vol, r.f)
    BY ONLY <1>5, <1>8, <1>21 DEF Exact, At
  <2>2. FreeClusters(x.fs.vol) # {}
    BY ONLY <1>19, <1>21
  <2>3. Writes(r, x) /\ x.len = 0
    BY ONLY <2>1, <2>2, <1>8, <1>9, <1>11, <1>12, len \in Nat, WriteLoopExact
  <2>4. PICK k \in Nat : b = f.offset + k /\ x.len = len - k
    BY ONLY <2>3, <1>5, <1>8, <1>16 DEF Writes
  <2>5. k = len
    BY ONLY <2>3, <2>4, k \in Nat, len \in Nat
  <2>6. a \in Nat /\ b \in Nat
    BY <1>13, <1>16 DEF WorkOK, HandleOK
  <2>7. \E z \in {a, b} : \A y \in {a, b} : z >= y
    BY <2>6
  <2>8. n \in {a, b} /\ \A y \in {a, b} : n >= y
    BY ONLY <2>7, <1>16 DEF Max
  <2> QED BY ONLY <2>4, <2>5, <2>6, <2>8, <1>15, <1>16, <1>20
<1> QED BY ONLY <1>1, <1>15, <1>19, <1>20, <1>21

\* fat_file_sync writes the size of a modified file, and no other one.
LEMMA SyncSize ==
  ASSUME NEW D, NEW v, NEW f, Opened(D, v, f), NEW w, w = fat_file_sync(v, f),
         NEW d, d = v.vol[DirSect]
  PROVE  /\ f.modified => w.vol[DirSect] = [d EXCEPT ![f.file] = f.size]
         /\ ~f.modified => w.vol[DirSect] = d
<1>1. PICK n, b, u, s : /\ n = f.sect /\ b = f.buf /\ u = WriteThrough(v, DataSect(n), b)
                        /\ s = DirSect
  OBVIOUS
<1>2. Fielded(v) /\ DirSect \in DOMAIN v.vol
  BY GoodWhole DEF Opened
<1>3. Fielded(u) /\ s \in DOMAIN u.vol /\ u.vol[s] = d
  <2>1. Fielded(u) /\ DirSect \in DOMAIN u.vol /\ u.vol[DirSect] = v.vol[DirSect]
    BY ONLY <1>1, <1>2, DataSize
  <2> QED BY <2>1, <1>1
<1>4. PICK x, e : x = SyncEntry(u, f) /\ e = [d EXCEPT ![f.file] = f.size]
  OBVIOUS
<1>5. w = sync_fs(x)
  BY ONLY <1>1, <1>4, w = fat_file_sync(v, f) DEF fat_file_sync
<1>6. /\ f.modified => x = Change(u, s, e)
      /\ ~f.modified => x = Change(u, s, d) \/ x = u
  BY ONLY <1>1, <1>3, <1>4 DEF SyncEntry
<1>7. \A m : s # DataSect(m)
  BY <1>1, SectorFacts
<1>8. ASSUME NEW y, x = Change(u, s, y)
      PROVE  Fielded(x) /\ SameData(u.vol, x.vol) /\ x.vol[s] = y
  BY ONLY <1>3, <1>7, <1>8, ChangeData
<1>9. Fielded(x) /\ s \in DOMAIN x.vol
  BY <1>3, <1>6, <1>8 DEF SameData
<1>10. x.vol[s] = IF f.modified THEN e ELSE d
  BY ONLY <1>3, <1>6, <1>8
<1>11. w.vol[s] = x.vol[s]
  <2>1. KeepsData(x, w)
    BY ONLY <1>5, FsData
  <2> QED BY <2>1, <1>1, <1>9 DEF KeepsData, SameDir
<1> QED BY ONLY <1>1, <1>4, <1>10, <1>11

-----------------------------------------------------------------------------
(* The invariant of the files' sizes.                                      *)

\* A file of size n has room for its cached size s and for the bytes c that it must
\* keep; old says that it was opened with a cached size that was too small.
Fits(n, c, s, old) ==
  /\ s # Closed => s <= n
  /\ \A o \in 0 .. MaxOff : c[o] # Unknown /\ (old => o < s) => o < n

\* The open file f, and the size n that the directory has for it.
OpenFits(f, n, c, s, old) ==
  /\ s # Closed /\ Fits(f.size, c, s, old)
  /\ ~f.modified => f.size = s /\ Fits(n, c, s, old)

LongEnough(d, hd, c, sz, st) ==
  /\ \A g \in Files : Idle(hd, g) => Fits(d[g], c[g], sz[g], g \in st)
  /\ \A h \in Handles : hd[h] # Closed =>
       OpenFits(hd[h], d[hd[h].file], c[hd[h].file], sz[hd[h].file], hd[h].file \in st)

SizeInv ==
  /\ \A f \in stale : isize[f] # Closed
  /\ HasRoom => LongEnough(fs.vol[DirSect], handle, content, isize, stale)

\* A call that concerns the file g and leaves f in the handle h, the directory d2,
\* the contents c2, the cached sizes sz2 and the files st2 opened with an old size.
Concerns(g, h, f, hd, he) ==
  /\ g \in Files /\ h \in Handles /\ DOMAIN hd = Handles /\ he = [hd EXCEPT ![h] = f]
  /\ \A k \in Handles : hd[k] # Closed => hd[k].file \in Files
  /\ \A k \in Handles : k # h /\ hd[k] # Closed => hd[k].file # g

Resizes(g, f, d, d2, c, c2, sz, sz2, st, st2) ==
  /\ \A k \in Files : k # g => /\ d2[k] = d[k] /\ c2[k] = c[k] /\ sz2[k] = sz[k]
                               /\ k \in st2 <=> k \in st
  /\ f = Closed => Fits(d2[g], c2[g], sz2[g], g \in st2)
  /\ f # Closed => f.file = g /\ OpenFits(f, d2[g], c2[g], sz2[g], g \in st2)

LEMMA LongStep ==
  ASSUME NEW g, NEW h, NEW f2, NEW d, NEW d2, NEW hd, NEW he, NEW c, NEW c2,
         NEW sz, NEW sz2, NEW st, NEW st2, LongEnough(d, hd, c, sz, st),
         hd[h] # Closed => hd[h].file = g,
         Concerns(g, h, f2, hd, he), Resizes(g, f2, d, d2, c, c2, sz, sz2, st, st2)
  PROVE  LongEnough(d2, he, c2, sz2, st2)
<1>0. /\ g \in Files /\ h \in Handles
      /\ \A k \in Handles : hd[k] # Closed => hd[k].file \in Files
      /\ \A k \in Handles : k # h /\ hd[k] # Closed => hd[k].file # g
      /\ f2 = Closed => Fits(d2[g], c2[g], sz2[g], g \in st2)
      /\ f2 # Closed => f2.file = g /\ OpenFits(f2, d2[g], c2[g], sz2[g], g \in st2)
  BY DEF Concerns, Resizes
<1>1. \A k \in Handles : he[k] = IF k = h THEN f2 ELSE hd[k]
  BY DEF Concerns
<1>2. \A k \in Files : k # g => d2[k] = d[k] /\ c2[k] = c[k] /\ sz2[k] = sz[k] /\ (k \in st2 <=> k \in st)
  BY DEF Resizes
<1>3. ASSUME NEW k \in Files, Idle(he, k) PROVE Fits(d2[k], c2[k], sz2[k], k \in st2)
  <2>1. CASE k = g
    <3>1. f2 = Closed
      BY <2>1, <1>0, <1>1, <1>3 DEF Idle
    <3> QED BY <3>1, <2>1, <1>0
  <2>2. CASE k # g
    <3>1. Idle(hd, k)
      BY <2>2, <1>0, <1>1, <1>3 DEF Idle
    <3>2. Fits(d[k], c[k], sz[k], k \in st)
      BY <3>1 DEF LongEnough
    <3>3. d2[k] = d[k] /\ c2[k] = c[k] /\ sz2[k] = sz[k] /\ (k \in st2 <=> k \in st)
      BY <2>2, <1>2
    <3> QED BY ONLY <3>2, <3>3 DEF Fits
  <2> QED BY <2>1, <2>2
<1>4. ASSUME NEW k \in Handles, he[k] # Closed
      PROVE  OpenFits(he[k], d2[he[k].file], c2[he[k].file], sz2[he[k].file], he[k].file \in st2)
  <2>1. CASE k = h
    <3>1. he[k] = f2 /\ f2 # Closed
      BY <2>1, <1>1, <1>4
    <3>2. f2.file = g /\ OpenFits(f2, d2[g], c2[g], sz2[g], g \in st2)
      BY <3>1, <1>0
    <3> QED BY ONLY <3>1, <3>2
  <2>2. CASE k # h
    <3>1. PICK f, j : f = hd[k] /\ j = f.file
      OBVIOUS
    <3>2. he[k] = f /\ f # Closed /\ j \in Files /\ j # g
      BY <2>2, <3>1, <1>0, <1>1, <1>4
    <3>3. OpenFits(f, d[j], c[j], sz[j], j \in st)
      BY <3>1, <3>2 DEF LongEnough
    <3>4. d2[j] = d[j] /\ c2[j] = c[j] /\ sz2[j] = sz[j] /\ (j \in st2 <=> j \in st)
      BY <3>2, <1>2
    <3>5. OpenFits(f, d2[j], c2[j], sz2[j], j \in st2)
      BY ONLY <3>3, <3>4 DEF OpenFits, Fits
    <3> QED BY ONLY <3>1, <3>2, <3>5
  <2> QED BY <2>1, <2>2
<1> QED BY <1>3, <1>4 DEF LongEnough

LEMMA OpenSizes ==
  ASSUME ~Sharing, "file" \notin DOMAIN Closed, Closed \notin Nat, FatInv, DataInv, SizeInv,
         NEW h \in Handles, NEW f \in Files, NEW wr \in Modes, fat32_open(h, f, wr)
  PROVE  SizeInv'
<1>1. PICK D, v, hd, sz, c, st, d : /\ D = disk /\ v = fs /\ hd = handle /\ sz = isize
                                    /\ c = content /\ st = stale /\ d = fs.vol[DirSect]
  OBVIOUS
<1>2. PICK size, no : size = (IF sz[f] = Closed THEN v.vol[DirSect][f] ELSE sz[f]) /\ no = FALSE
  OBVIOUS
<1>3. PICK new : new = [file |-> f, sclust |-> StartClust[f], clust |-> StartClust[f],
                        sect |-> -1, offset |-> 0, size |-> size, write |-> wr, dirty |-> no,
                        modified |-> no, accessed |-> no, buf |-> <<>>]
  OBVIOUS
<1>4. PICK w : w = fat_file_seek(Work(v, new, 0), 0)
  OBVIOUS
<1>5. PICK e, he, sz2, st2 :
        /\ e = w.f /\ he = [hd EXCEPT ![h] = e] /\ sz2 = [sz EXCEPT ![f] = size]
        /\ st2 = IF size < v.vol[DirSect][f] THEN st \union {f} ELSE st
  OBVIOUS
<1>6. handle' = he /\ fs' = v /\ content' = c /\ isize' = sz2 /\ stale' = st2
  BY ONLY <1>1, <1>2, <1>3, <1>4, <1>5, fat32_open(h, f, wr) DEF fat32_open
<1>7. hd[h] = Closed /\ Idle(hd, f)
  BY <1>1 DEF fat32_open, IsOpen, Idle
<1>8. Good(D, v) /\ HandlesOK(v.vol, hd) /\ SizesOK(v.vol, sz)
  BY <1>1 DEF FatInv
<1>9. new.file = f /\ new.sclust = StartClust[f] /\ new.clust = StartClust[f]
      /\ new.offset = 0 /\ new.size = size /\ new.modified = no
      /\ {"file", "sclust", "clust", "sect", "offset", "size", "dirty", "modified", "accessed", "buf"}
           \subseteq DOMAIN new
  BY ONLY <1>3
<1>10. d = v.vol[DirSect] /\ d[f] \in Nat /\ d[f] <= ClustSize * Len(ActiveChain(v.vol, f))
  <2>1. PICK ch : SoundWith(v.vol, ch) /\ \A g \in Files : ActiveChain(v.vol, g) = ch[0][g]
    BY <1>8, GoodChains
  <2>2. v.vol[DirSect] \in [Files -> Nat]
        /\ \A g \in Files : v.vol[DirSect][g] <= ClustSize * Len(ch[0][g])
    BY <2>1 DEF SoundWith, Typed, Covered
  <2> QED BY <2>1, <2>2, <1>1
<1>11. size \in Nat /\ size <= ClustSize * Len(ActiveChain(v.vol, f))
  <2>1. CASE sz[f] = Closed
    BY <2>1, <1>2, <1>10
  <2>2. CASE sz[f] # Closed
    BY <2>2, <1>2, <1>8 DEF SizesOK
  <2> QED BY <2>1, <2>2
<1>12. HandleOK(v.vol, new)
  <2>2. 1 \in 1 .. Len(ActiveChain(v.vol, f)) /\ ActiveChain(v.vol, f)[1] = StartClust[f]
    BY <1>8, GoodGrows
  <2>3. 0 \div ClustSize + 1 <= 1 /\ 0 \in Nat
    BY ClustSizeFacts
  <2>4. Place(v.vol, new, new.offset \div ClustSize + 1)
    BY ONLY <2>2, <2>3, <1>9 DEF Place
  <2> QED BY ONLY <2>3, <2>4, <1>9, <1>11, f \in Files DEF HandleOK
<1>13. e.file = f /\ e.size = size /\ ~e.modified /\ e # Closed
  <2>1. Opened(D, v, new) /\ 0 \in Int
    BY <1>8, <1>12 DEF Opened
  <2>2. KeepsAll(v, new, w)
    BY ONLY <2>1, <1>4, LseekSize
  <2>3. HandleOK(v.vol, e)
    <3>1. ~new.dirty
      BY ONLY <1>2, <1>3
    <3> QED BY <2>1, <3>1, <1>4, <1>5, <1>9, OpenSeek
  <2>4. e # Closed
    BY <2>3 DEF HandleOK
  <2> QED BY ONLY <2>2, <2>4, <1>2, <1>5, <1>9 DEF KeepsAll
<1>14. DOMAIN sz = Files /\ sz2[f] = size /\ size # Closed
       /\ \A k \in Files : k # f => sz2[k] = sz[k]
  BY <1>5, <1>8, <1>11 DEF SizesOK
<1>15. \A k \in st2 : sz2[k] # Closed
  <2>1. \A k \in st : sz[k] # Closed
    BY <1>1 DEF SizeInv
  <2>2. \A k \in st2 : k = f \/ k \in st
    BY <1>5
  <2>3. \A k : k # f => sz2[k] = sz[k] \/ k \notin Files
    BY <1>14
  <2> QED BY <2>1, <2>2, <1>5, <1>14
<1>16. ASSUME LongEnough(d, hd, c, sz, st) PROVE LongEnough(d, he, c, sz2, st2)
  <2>1. Fits(d[f], c[f], sz[f], f \in st)
    BY <1>7, <1>16 DEF LongEnough
  <2>2. f \in st => sz[f] # Closed
    BY <1>1 DEF SizeInv
  <2>3. f \in st2 <=> size < d[f] \/ f \in st
    BY <1>5, <1>10
  <2>4. Fits(size, c[f], size, f \in st2) /\ Fits(d[f], c[f], size, f \in st2)
    <3>0. MaxOff \in Nat
      BY FatFileAssumption
    <3>1. CASE sz[f] = Closed
      <4>1. size = d[f] /\ f \notin st /\ f \notin st2
        BY <3>1, <2>2, <2>3, <1>2, <1>10
      <4> QED BY ONLY <4>1, <2>1, <1>10 DEF Fits
    <3>2. CASE sz[f] # Closed /\ size < d[f]
      <4>1. sz[f] = size /\ f \in st2
        BY <3>2, <2>3, <1>2
      <4> QED BY ONLY <3>0, <3>2, <4>1, <1>10, <1>11 DEF Fits
    <3>3. CASE sz[f] # Closed /\ ~(size < d[f])
      <4>1. sz[f] = size /\ (f \in st2 <=> f \in st) /\ size <= d[f]
        BY <3>3, <2>1, <2>3, <1>2 DEF Fits
      <4>2. size = d[f]
        BY ONLY <3>3, <4>1, <1>10, <1>11
      <4> QED BY ONLY <4>1, <4>2, <2>1 DEF Fits
    <3> QED BY <3>1, <3>2, <3>3
  <2>5. OpenFits(e, d[f], c[f], sz2[f], f \in st2)
    BY ONLY <2>4, <1>13, <1>14 DEF OpenFits
  <2>6. Concerns(f, h, e, hd, he)
    BY <1>5, <1>7, <1>8 DEF Concerns, HandlesOK, HandleOK, Idle
  <2>7. Resizes(f, e, d, d, c, c, sz, sz2, st, st2)
    <3>1. \A k \in Files : k # f => sz2[k] = sz[k] /\ (k \in st2 <=> k \in st)
      BY <1>5, <1>14
    <3> QED BY ONLY <2>5, <3>1, <1>13 DEF Resizes
  <2> QED BY ONLY <2>6, <2>7, <1>7, <1>16, LongStep
<1> QED BY <1>1, <1>6, <1>15, <1>16 DEF SizeInv, HasRoom

\* A call on the open handle h that leaves r; the contents change only in its file.
LEMMA CallSizes ==
  ASSUME "file" \notin DOMAIN Closed, FatInv, DataInv, SizeInv, NEW h \in Handles, IsOpen(h),
         NEW r, WorkOK(disk, r), Later(fs, r.fs), Done(h, r),
         isize' = isize, stale' = stale, r.f.file = handle[h].file,
         \A k \in Files : k # r.f.file => content'[k] = content[k],
         FreeClusters(r.fs.vol) # {} => r.fs.vol[DirSect] = fs.vol[DirSect],
         NEW g, g = r.f.file, NEW n, n = fs.vol[DirSect][g],
         FreeClusters(r.fs.vol) # {} /\ Exact(fs.vol, handle[h]) /\
           OpenFits(handle[h], n, content[g], isize[g], g \in stale) =>
             OpenFits(r.f, n, content'[g], isize[g], g \in stale)
  PROVE  SizeInv'
<1>1. PICK v, hd, he, sz, c, c2, st, d, f, f2, w :
        /\ v = fs /\ hd = handle /\ he = handle' /\ sz = isize /\ c = content /\ c2 = content'
        /\ st = stale /\ d = fs.vol[DirSect] /\ f = handle[h] /\ f2 = r.f /\ w = r.fs
  OBVIOUS
<1>2. fs' = w /\ he = [hd EXCEPT ![h] = f2] /\ f # Closed /\ f = hd[h] /\ f2.file = g /\ f.file = g
  BY <1>1 DEF Done, IsOpen
<1>3. HandlesOK(v.vol, hd) /\ HandleOK(w.vol, f2)
  BY <1>1 DEF FatInv, WorkOK
<1>4. f2 # Closed /\ g \in Files
  BY <1>2, <1>3 DEF HandleOK
<1>5. \A k \in st : sz[k] # Closed
  BY <1>1 DEF SizeInv
<1>6. ASSUME FreeClusters(w.vol) # {} PROVE LongEnough(w.vol[DirSect], he, c2, sz, st)
  <2>1. w.vol[DirSect] = d /\ FreeClusters(v.vol) # {}
    BY <1>1, <1>6 DEF Later, Fewer
  <2>2. LongEnough(d, hd, c, sz, st) /\ KeptIn(v.vol, hd, c)
    BY <2>1, <1>1 DEF SizeInv, DataInv, HasRoom
  <2>3. OpenFits(f, d[g], c[g], sz[g], g \in st) /\ Exact(v.vol, f)
    BY <2>2, <1>2 DEF LongEnough, KeptIn, Remembers
  <2>4. OpenFits(f2, d[g], c2[g], sz[g], g \in st)
    BY <2>3, <1>1, <1>6
  <2>5. Concerns(g, h, f2, hd, he)
    BY <2>2, <1>2, <1>3, <1>4 DEF Concerns, HandlesOK, HandleOK, KeptIn
  <2>6. Resizes(g, f2, d, d, c, c2, sz, sz, st, st)
    <3>1. \A k \in Files : k # g => c2[k] = c[k]
      BY <1>1
    <3> QED BY ONLY <2>4, <3>1, <1>2, <1>4 DEF Resizes
  <2>7. LongEnough(d, he, c2, sz, st)
    BY ONLY <2>2, <2>5, <2>6, <1>2, LongStep
  <2> QED BY <2>1, <2>7
<1> QED BY <1>1, <1>2, <1>5, <1>6 DEF SizeInv, HasRoom

LEMMA ReadSizes ==
  ASSUME "file" \notin DOMAIN Closed, FatInv, DataInv, SizeInv,
         NEW h \in Handles, NEW len \in Lens, fat32_read(h, len)
  PROVE  SizeInv'
<1>1. PICK D, v, f, w, g, n : /\ D = disk /\ v = fs /\ f = handle[h] /\ w = fat_file_read(v, f, len)
                              /\ g = w.f.file /\ n = fs.vol[DirSect][g]
  OBVIOUS
<1>2. Done(h, w) /\ content' = content /\ isize' = isize /\ stale' = stale /\ IsOpen(h)
  BY <1>1 DEF fat32_read
<1>3. Opened(D, v, f) /\ len \in Nat
  BY <1>1, <1>2, OpenHandle, FatFileAssumption
<1>4. WorkOK(D, w) /\ Later(v, w.fs)
  BY <1>1, <1>3, ReadOK
<1>5. KeepsAll(v, f, w)
  BY <1>1, <1>3, ReadSize
<1>6. OpenFits(f, n, content[g], isize[g], g \in stale) =>
        OpenFits(w.f, n, content'[g], isize[g], g \in stale)
  BY ONLY <1>2, <1>5 DEF OpenFits, KeepsAll
<1>7. w.f.file = f.file /\ w.fs.vol[DirSect] = v.vol[DirSect]
  BY <1>5 DEF KeepsAll
<1> QED BY <1>1, <1>2, <1>4, <1>6, <1>7, CallSizes

LEMMA SeekSizes ==
  ASSUME "file" \notin DOMAIN Closed, FatInv, DataInv, SizeInv,
         NEW h \in Handles, NEW off \in -1 .. MaxOff, fat32_lseek(h, off)
  PROVE  SizeInv'
<1>1. PICK D, v, f, r, w, g, n :
        /\ D = disk /\ v = fs /\ f = handle[h] /\ r = Work(v, f, 0) /\ w = fat_file_seek(r, off)
        /\ g = w.f.file /\ n = fs.vol[DirSect][g]
  OBVIOUS
<1>2. Done(h, w) /\ content' = content /\ isize' = isize /\ stale' = stale /\ IsOpen(h)
  BY <1>1 DEF fat32_lseek
<1>3. Opened(D, v, f) /\ off \in Int
  BY <1>1, <1>2, OpenHandle, FatFileAssumption
<1>4. r.fs = v /\ r.f = f /\ r.len = 0 /\ {"fs", "f", "err", "len", "bytes"} \subseteq DOMAIN r
  BY ONLY <1>1 DEF Work
<1>5. WorkOK(D, r)
  BY <1>3, <1>4 DEF WorkOK, Opened
<1>6. WorkOK(D, w) /\ Later(v, w.fs)
  BY <1>1, <1>3, <1>4, <1>5, SeekOK
<1>7. KeepsAll(v, f, w)
  BY <1>1, <1>3, LseekSize
<1>8. OpenFits(f, n, content[g], isize[g], g \in stale) =>
        OpenFits(w.f, n, content'[g], isize[g], g \in stale)
  BY ONLY <1>2, <1>7 DEF OpenFits, KeepsAll
<1>9. w.f.file = f.file /\ w.fs.vol[DirSect] = v.vol[DirSect]
  BY <1>7 DEF KeepsAll
<1> QED BY <1>1, <1>2, <1>6, <1>8, <1>9, CallSizes

LEMMA WriteSizes ==
  ASSUME "file" \notin DOMAIN Closed, Closed \notin Nat, FatInv, DataInv, SizeInv,
         NEW h \in Handles, NEW len \in Lens, fat32_write(h, len)
  PROVE  SizeInv'
<1>1. PICK D, v, f, c, w, g, n :
        /\ D = disk /\ v = fs /\ f = handle[h] /\ c = content /\ w = fat_file_write(v, f, len)
        /\ g = f.file /\ n = fs.vol[DirSect][g]
  OBVIOUS
<1>2. PICK e, c2 : /\ e = [o \in 0 .. MaxOff |-> IF o \in f.offset .. f.offset + len - 1
                                                 THEN NewByte ELSE c[g][o]]
                   /\ c2 = [c EXCEPT ![g] = e]
  OBVIOUS
<1>3. Done(h, w) /\ IsOpen(h) /\ isize' = isize /\ stale' = stale
  BY <1>1 DEF fat32_write
<1>4. content' = c2
  BY ONLY <1>1, <1>2, fat32_write(h, len) DEF fat32_write
<1>5. Opened(D, v, f) /\ len \in Nat
  BY <1>1, <1>3, OpenHandle, FatFileAssumption
<1>6. WorkOK(D, w) /\ Later(v, w.fs)
  BY <1>1, <1>5, WriteOK
<1>7. g \in Files /\ f.offset \in Nat /\ f.size \in Nat /\ MaxOff \in Nat
  BY <1>1, <1>5, FatFileAssumption DEF Opened, HandleOK
<1>8. c2[g] = e /\ \A k \in Files : k # g => c2[k] = c[k]
  BY <1>1, <1>2, <1>7 DEF DataInv
<1>9. w.f.file = g /\ w.fs.vol[DirSect] = v.vol[DirSect] /\ w.f.modified
      /\ (Exact(v.vol, f) /\ FreeClusters(w.fs.vol) # {} =>
            w.f.size \in Nat /\ w.f.size >= f.size /\ w.f.size >= f.offset + len)
  BY <1>1, <1>5, WriteSize
<1>10. ASSUME FreeClusters(w.fs.vol) # {}, Exact(v.vol, f), NEW s, NEW old,
              s # Closed => s \in Nat, OpenFits(f, n, c[g], s, old)
       PROVE  OpenFits(w.f, n, e, s, old)
  <2>1. w.f.size \in Nat /\ w.f.size >= f.size /\ w.f.size >= f.offset + len /\ w.f.modified
    BY <1>9, <1>10
  <2>2. s # Closed /\ s \in Nat /\ s <= f.size
        /\ \A o \in 0 .. MaxOff : c[g][o] # Unknown /\ (old => o < s) => o < f.size
    BY <1>10 DEF OpenFits, Fits
  <2>3. ASSUME NEW o \in 0 .. MaxOff, e[o] # Unknown, old => o < s PROVE o < w.f.size
    <3>1. CASE o \in f.offset .. f.offset + len - 1
      BY ONLY <2>1, <3>1, <1>5, <1>7, o \in 0 .. MaxOff
    <3>2. CASE o \notin f.offset .. f.offset + len - 1
      <4>1. e[o] = c[g][o]
        BY ONLY <3>2, <1>2, o \in 0 .. MaxOff
      <4>2. o < f.size
        BY <4>1, <2>2, <2>3
      <4> QED BY ONLY <4>2, <2>1, <1>7, o \in 0 .. MaxOff
    <3> QED BY <3>1, <3>2
  <2>4. s <= w.f.size
    BY ONLY <2>1, <2>2, <1>7
  <2> QED BY ONLY <2>1, <2>2, <2>3, <2>4 DEF OpenFits, Fits
<1>11. isize[g] # Closed => isize[g] \in Nat
  BY <1>7 DEF FatInv, SizesOK
<1>12. FreeClusters(w.fs.vol) # {} /\ Exact(v.vol, f) /\ OpenFits(f, n, c[g], isize[g], g \in stale) =>
         OpenFits(w.f, n, c2[g], isize[g], g \in stale)
  BY <1>8, <1>10, <1>11
<1>13. /\ WorkOK(disk, w) /\ Later(fs, w.fs) /\ w.f.file = handle[h].file /\ g = w.f.file
       /\ n = fs.vol[DirSect][g] /\ w.fs.vol[DirSect] = fs.vol[DirSect]
       /\ \A k \in Files : k # w.f.file => content'[k] = content[k]
  BY <1>1, <1>4, <1>6, <1>8, <1>9
<1>14. FreeClusters(w.fs.vol) # {} /\ Exact(fs.vol, handle[h]) /\
         OpenFits(handle[h], n, content[g], isize[g], g \in stale) =>
           OpenFits(w.f, n, content'[g], isize[g], g \in stale)
  BY <1>1, <1>4, <1>12
<1> QED BY <1>3, <1>13, <1>14, CallSizes

LEMMA CloseSizes ==
  ASSUME FatInv, DataInv, SizeInv, NEW h \in Handles, fat32_close(h)
  PROVE  SizeInv'
<1>1. PICK D, v, hd, he, c, f, w, sz, st, d, d2, g :
        /\ D = disk /\ v = fs /\ hd = handle /\ he = handle' /\ c = content /\ f = handle[h]
        /\ w = fat_file_sync(v, f) /\ sz = isize /\ st = stale /\ d = v.vol[DirSect]
        /\ d2 = w.vol[DirSect] /\ g = f.file
  OBVIOUS
<1>2. fs' = w /\ he = [hd EXCEPT ![h] = Closed] /\ f # Closed /\ f = hd[h] /\ content' = c
      /\ isize' = sz /\ stale' = st
  BY <1>1 DEF fat32_close, IsOpen
<1>3. Good(D, v) /\ HandlesOK(v.vol, hd)
  BY <1>1 DEF FatInv
<1>4. Opened(D, v, f) /\ g \in Files /\ DOMAIN d = Files
  <2>1. PICK ch : SoundWith(v.vol, ch)
    BY <1>3, GoodChains
  <2>2. v.vol[DirSect] \in [Files -> Nat]
    BY <2>1 DEF SoundWith, Typed
  <2> QED BY <2>2, <1>1, <1>2, <1>3 DEF Opened, HandlesOK, HandleOK
<1>5. Later(v, w)
  BY <1>1, <1>4, SyncOK
<1>6. (f.modified => d2 = [d EXCEPT ![g] = f.size]) /\ (~f.modified => d2 = d)
  BY <1>1, <1>4, SyncSize
<1>7. \A k \in Files : k # g => d2[k] = d[k]
  BY ONLY <1>4, <1>6
<1>8. ASSUME FreeClusters(w.vol) # {} PROVE LongEnough(d2, he, c, sz, st)
  <2>1. FreeClusters(v.vol) # {}
    BY <1>5, <1>8 DEF Later, Fewer
  <2>2. LongEnough(d, hd, c, sz, st) /\ KeptIn(v.vol, hd, c)
    BY <2>1, <1>1 DEF SizeInv, DataInv, HasRoom
  <2>3. OpenFits(f, d[g], c[g], sz[g], g \in st)
    BY <2>2, <1>1, <1>2 DEF LongEnough
  <2>4. Fits(d2[g], c[g], sz[g], g \in st)
    <3>1. CASE f.modified
      <4>1. d2[g] = f.size
        BY ONLY <3>1, <1>4, <1>6
      <4> QED BY ONLY <4>1, <2>3 DEF OpenFits
    <3>2. CASE ~f.modified
      BY ONLY <3>2, <2>3, <1>6 DEF OpenFits
    <3> QED BY <3>1, <3>2
  <2>5. PICK no : no = Closed
    OBVIOUS
  <2>6. hd[h].file = g /\ he = [hd EXCEPT ![h] = no]
    BY <2>5, <1>1, <1>2
  <2>7. Concerns(g, h, no, hd, he)
    BY <2>2, <2>6, <1>2, <1>3, <1>4 DEF Concerns, HandlesOK, HandleOK, KeptIn
  <2>8. Resizes(g, no, d, d2, c, c, sz, sz, st, st)
    BY ONLY <2>4, <2>5, <1>7 DEF Resizes
  <2> QED BY ONLY <2>2, <2>6, <2>7, <2>8, LongStep
<1>9. \A k \in st : sz[k] # Closed
  BY <1>1 DEF SizeInv
<1> QED BY <1>1, <1>2, <1>8, <1>9 DEF SizeInv, HasRoom

LEMMA DiskSizes ==
  ASSUME FatInv, SizeInv, disk_write
  PROVE  SizeInv'
<1>1. PICK v, w, rest : v = fs /\ w = fs' /\ rest = Tail(v.log)
  OBVIOUS
<1>2. w = [v EXCEPT !.log = rest] /\ handle' = handle /\ content' = content /\ isize' = isize
      /\ stale' = stale
  BY <1>1 DEF disk_write
<1>3. v = Rec(v.vol, v.log, NoSect, FALSE, v)
  BY <1>1 DEF FatInv, Good, Clean
<1>4. {"vol", "log"} \subseteq DOMAIN v
  BY ONLY <1>3 DEF Rec
<1>5. w.vol = v.vol
  BY ONLY <1>2, <1>4
<1> QED BY <1>1, <1>2, <1>5 DEF SizeInv, HasRoom

\* A volume with all files closed and no size in the cache.
LEMMA AllFit ==
  ASSUME NEW d, NEW hd, hd = [h \in Handles |-> Closed], NEW sz, sz = [f \in Files |-> Closed],
         NEW c, \A f \in Files : \A o \in 0 .. MaxOff : c[f][o] # Unknown => o < d[f]
  PROVE  LongEnough(d, hd, c, sz, {})
BY DEF LongEnough, Fits

LEMMA FailureSizes ==
  ASSUME power_failure
  PROVE  SizeInv'
<1>1. PICK D, c, d : D = disk /\ c = content' /\ d = D[DirSect]
  OBVIOUS
<1>2. c = [f \in Files |-> [o \in 0 .. MaxOff |-> IF o < d[f] THEN ByteAt(D, f, o) ELSE Unknown]]
      /\ fs' = Mounted(D) /\ handle' = [h \in Handles |-> Closed]
      /\ isize' = [f \in Files |-> Closed] /\ stale' = {}
  BY <1>1 DEF power_failure
<1>3. \A f \in Files : \A o \in 0 .. MaxOff : c[f][o] # Unknown => o < d[f]
  BY ONLY <1>2
<1>4. fs'.vol = D
  BY ONLY <1>2 DEF Mounted
<1>5. LongEnough(d, handle', c, isize', {})
  BY <1>2, <1>3, AllFit
<1> QED BY <1>1, <1>2, <1>4, <1>5 DEF SizeInv

LEMMA InitSizes ==
  ASSUME Init
  PROVE  SizeInv
<1>1. PICK c, V : c = content /\ V = Volume0
  OBVIOUS
<1>2. c = [f \in Files |-> [o \in 0 .. MaxOff |-> IF o < Size0[f] THEN OldByte ELSE Unknown]]
      /\ fs = Mounted(V) /\ handle = [h \in Handles |-> Closed]
      /\ isize = [f \in Files |-> Closed] /\ stale = {}
  BY <1>1 DEF Init
<1>3. \A f \in Files : \A o \in 0 .. MaxOff : c[f][o] # Unknown => o < Size0[f]
  BY ONLY <1>2
<1>4. fs.vol = V
  BY ONLY <1>2 DEF Mounted
<1>5. V[DirSect] = Size0
  <2>1. DirSect \notin FatSects /\ DirSect \notin DataSects
    BY DEF DirSect, FatSects, FatSect, DataSects, DataSect
  <2> QED BY ONLY <2>1, <1>1 DEF Volume0
<1>6. LongEnough(Size0, handle, c, isize, {})
  BY <1>2, <1>3, AllFit
<1> QED BY <1>1, <1>2, <1>4, <1>5, <1>6 DEF SizeInv

\* The inductive invariant of the files' sizes: the size an open file will write to
\* the directory, and the one a closed file has there, covers the bytes the file
\* must keep and the cached size from which the next open will start.  One handle
\* at a time has a file open, and Closed is neither a File structure nor a size.
THEOREM FatSizeInvariant ==
  ASSUME ~Sharing, "file" \notin DOMAIN Closed, Closed \notin Nat
  PROVE  Spec => []SizeInv
<1>1. Init => SizeInv
  BY InitSizes
<1>2. FatInv /\ DataInv /\ SizeInv /\ [Next]_vars => SizeInv'
  <2> SUFFICES ASSUME FatInv, DataInv, SizeInv, [Next]_vars PROVE SizeInv'
    OBVIOUS
  <2>1. ASSUME NEW h \in Handles, NEW f \in Files, NEW w \in Modes, fat32_open(h, f, w)
        PROVE  SizeInv'
    BY <2>1, OpenSizes
  <2>2. ASSUME NEW h \in Handles, fat32_close(h) PROVE SizeInv'
    BY <2>2, CloseSizes
  <2>3. ASSUME NEW h \in Handles, NEW len \in Lens, fat32_read(h, len) PROVE SizeInv'
    BY <2>3, ReadSizes
  <2>4. ASSUME NEW h \in Handles, NEW len \in Lens, fat32_write(h, len) PROVE SizeInv'
    BY <2>4, WriteSizes
  <2>5. ASSUME NEW h \in Handles, NEW off \in -1 .. MaxOff, fat32_lseek(h, off) PROVE SizeInv'
    BY <2>5, SeekSizes
  <2>6. CASE disk_write
    BY <2>6, DiskSizes
  <2>7. CASE power_failure
    BY <2>7, FailureSizes
  <2>8. CASE UNCHANGED vars
    BY <2>8 DEF vars, SizeInv, HasRoom
  <2> QED BY <2>1, <2>2, <2>3, <2>4, <2>5, <2>6, <2>7, <2>8 DEF Next
<1> QED BY <1>1, <1>2, FatInvariant, FatDataInvariant, PTL DEF Spec

\* With nothing left to write, the disk is as the driver sees it.
LEMMA TrackEmpty ==
  ASSUME NEW D, NEW V, Track(D, <<>>, V)
  PROVE  D = V
<1>1. Len(<<>>) = 0
  OBVIOUS
<1> QED BY <1>1 DEF Track

LEMMA DataInvKept ==
  ASSUME FatInv, DataInv, SizeInv
  PROVE  DataKept
<1>1. SUFFICES ASSUME Unlocked, HasRoom, NEW f \in Files,
                      \A h \in Handles : IsOpen(h) => handle[h].file # f, NEW o \in 0 .. MaxOff
               PROVE  /\ MustKeep(f, o) => o < disk[DirSect][f]
                      /\ content[f][o] \in {Unknown, ByteAt(disk, f, o)}
  BY DEF DataKept
<1>2. Track(disk, <<>>, fs.vol)
  BY <1>1 DEF Unlocked, FatInv, Good, Clean
<1>3. disk = fs.vol
  <2>1. PICK D, V : D = disk /\ V = fs.vol
    OBVIOUS
  <2> QED BY <2>1, <1>2, TrackEmpty
<1>4. Idle(handle, f)
  BY <1>1 DEF Idle, IsOpen
<1>5. Stores(fs.vol, f, content[f])
  BY <1>1, <1>4 DEF DataInv, KeptIn
<1>6. Fits(fs.vol[DirSect][f], content[f], isize[f], f \in stale)
  BY <1>1, <1>4 DEF SizeInv, LongEnough
<1>7. MustKeep(f, o) => o < fs.vol[DirSect][f]
  BY <1>1, <1>6 DEF Fits, MustKeep
<1> QED BY <1>1, <1>3, <1>5, <1>7 DEF Stores

\* With one handle at a time on a file, a closed file is long enough on the disk for
\* the bytes that were written to it and holds them there, as long as no call has
\* met a full disk: whatever seeks, reads and writes moved the handles' buffers in
\* between, and after any power failure.  A file opened again after it had grown
\* keeps those within the cached size it was opened with.
THEOREM FatDataKept ==
  ASSUME ~Sharing, "file" \notin DOMAIN Closed, Closed \notin Nat
  PROVE  Spec => []DataKept
<1>1. FatInv /\ DataInv /\ SizeInv => DataKept
  BY DataInvKept
<1> QED BY <1>1, FatInvariant, FatDataInvariant, FatSizeInvariant, PTL

\* And a read returns the bytes last written, whether they have reached the disk or
\* are still in the handle's buffer.
THEOREM FatReadsWhatWasWritten ==
  ASSUME ~Sharing, "file" \notin DOMAIN Closed
  PROVE  Spec => []ReadsWhatWasWritten
<1>1. DataInv => ReadsWhatWasWritten
  BY DEF DataInv
<1> QED BY <1>1, FatDataInvariant, PTL

=============================================================================
