----------------------------- MODULE FatVolume -----------------------------
(***************************************************************************)
(* A FAT32 volume and the sector buffer of the driver, kernel/src/fs/      *)
(* fat32.c: the buffered sector, the file allocation table and its mirror, *)
(* the FSInfo sector, and the chains of clusters.                          *)
(*                                                                         *)
(* A volume maps sectors to contents.  An operation works on a record fs   *)
(* (the Fat structure) whose component vol is the volume as the driver     *)
(* sees it, its buffer included, and collects in log the sectors it sends  *)
(* to the disk, in order.                                                  *)
(***************************************************************************)
EXTENDS Integers, Sequences, FiniteSets, SequencesExt

CONSTANTS
  ClustCnt,      \* fat->clust_cnt: the clusters are 2 .. ClustCnt-1
  PerSect,       \* entries of the table in one sector, 128
  SectPerClust,  \* 1 << fat->clust_shift
  SectSize,      \* bytes in a sector, 512
  Root,          \* fat->root_clust: the first cluster of the root directory
  Mirror         \* is the second table kept equal to the first?

\* One for each entry of a table (fat32.c:1132): volumes on which the last sector of
\* a table has entries without sectors in the data area are left out.
Clusters == 2 .. ClustCnt - 1
ClustSize == SectSize * SectPerClust

ASSUME FatVolumeAssumption ==
  /\ ClustCnt \in Nat /\ ClustCnt > 3
  /\ ClustCnt <= 268435447   \* get_fat: 0x0ffffff7 and what follows are no clusters
  /\ PerSect \in Nat \ {0} /\ SectPerClust \in Nat \ {0} /\ SectSize \in Nat \ {0}
  /\ Mirror \in BOOLEAN /\ Root \in Clusters

FREE == 0
EOC == 268435455   \* 0x0fffffff
NewChain == 0      \* the argument with which create_chain calls stretch_chain

\* Op(x), with x evaluated once.
With(x, Op(_)) == CHOOSE y \in {Op(v) : v \in {x}} : TRUE

-----------------------------------------------------------------------------
(* Sectors.                                                                *)

FatSect(k, c) == <<"fat", k, c \div PerSect>>
InfoSect == <<"info", 0, 0>>
DirSect == <<"dir", 0, 0>>
DataSect(n) == <<"data", 0, n>>
NoSect == <<"none", 0, 0>>

\* fat_sect[0] is the active table, fat_sect[1] the mirror.
Copies == IF Mirror THEN {0, 1} ELSE {0}
FatSects == {FatSect(k, c) : k \in Copies, c \in Clusters}
DataSects == {DataSect(n) : n \in 0 .. SectPerClust * (ClustCnt - 2) - 1}

\* clust_to_sect, relative to data_sect.
clust_to_sect(c) == (c - 2) * SectPerClust

-----------------------------------------------------------------------------
(* The sector buffer.  A clean buffer holds what the disk holds, so it is  *)
(* remembered which sector is buffered only while it is dirty.             *)

\* sync_buf.
sync_buf(fs) ==
  IF fs.dirty
  THEN [fs EXCEPT !.log = Append(@, [sect |-> fs.sect, data |-> fs.vol[fs.sect]]),
                  !.dirty = FALSE, !.sect = NoSect]
  ELSE fs

\* update_buf: what was buffered reaches the disk before another sector does.
update_buf(fs, s) == IF fs.sect = s THEN fs ELSE [sync_buf(fs) EXCEPT !.sect = s]

\* update_buf for a sector that is then changed to data, and marked dirty.
Change(fs, s, data) == [update_buf(fs, s) EXCEPT !.vol[s] = data, !.dirty = TRUE]

\* sync_fs: the buffer, then last_used and free_cnt if they changed.
sync_info(fs) ==
  [sync_buf(Change(fs, InfoSect, [last_used |-> fs.last_used, free_cnt |-> fs.free_cnt]))
     EXCEPT !.info_dirty = FALSE]
sync_fs(fs) == IF fs.info_dirty THEN sync_info(sync_buf(fs)) ELSE sync_buf(fs)

\* A sector written past the buffer (fat->ops.write on a file's own buffer).
WriteThrough(fs, s, data) ==
  [fs EXCEPT !.vol[s] = data, !.log = Append(@, [sect |-> s, data |-> data])]

-----------------------------------------------------------------------------
(* The file allocation table.                                              *)

\* get_fat: the entry in the active table.
get_fat(vol, c) == vol[FatSect(0, c)][c]

put_fat2(fs, k, c, val) ==
  LET s == FatSect(k, c) IN Change(fs, s, [fs.vol[s] EXCEPT ![c] = val])

\* put_fat: the mirror first.
put_fat(fs, c, val) ==
  put_fat2(IF Mirror THEN put_fat2(fs, 1, c, val) ELSE fs, 0, c, val)

\* The cluster after c, with wrap-round.
NextClust(c) == IF c + 1 >= ClustCnt THEN 2 ELSE c + 1

\* flags & CLUST_FREE.
IsFree(vol, c) == get_fat(vol, c) = FREE

\* The i-th cluster that the scan of stretch_chain visits: all but last_used,
\* which it never tests.
ScanOrder(last, i) == 2 + ((last - 2 + i) % (ClustCnt - 2))

\* The cluster stretch_chain takes: the one behind prev (a new chain has none),
\* or the first free one of the scan, or FREE if there is none.
Pick(fs, prev) ==
  LET hits == {i \in 1 .. ClustCnt - 3 : IsFree(fs.vol, ScanOrder(fs.last_used, i))}
  IN IF prev # NewChain /\ IsFree(fs.vol, NextClust(prev)) THEN NextClust(prev)
     ELSE IF hits = {} THEN FREE ELSE ScanOrder(fs.last_used, Min(hits))

\* if (prev) add the link.
Link(fs, prev, c) == IF prev = NewChain THEN fs ELSE put_fat(fs, prev, c)

\* Mutant: the new cluster is linked before it ends a chain.
PutNew_linked(fs, prev, c) == put_fat(Link(fs, prev, c), c, EOC)

\* The new cluster ends a chain, and then prev leads to it.
PutNew(fs, prev, c) == Link(put_fat(fs, c, EOC), prev, c)

\* fat->free_cnt--.
Taken(n) == n - 1

\* stretch_chain at cluster prev, with the new cluster c or FREE on a full disk.
StretchBy(fs, prev, c) ==
  IF c = FREE THEN [fs EXCEPT !.info_dirty = TRUE]
  ELSE sync_fs([PutNew(fs, prev, c) EXCEPT !.info_dirty = TRUE, !.last_used = c,
                                           !.free_cnt = Taken(@)])

\* fat_mount: last_used and free_cnt come from the FSInfo sector.
Mounted(vol) ==
  [vol |-> vol, log |-> <<>>, sect |-> NoSect, dirty |-> FALSE, info_dirty |-> FALSE,
   last_used |-> vol[InfoSect].last_used, free_cnt |-> vol[InfoSect].free_cnt]

-----------------------------------------------------------------------------
(* Chains, as table k of a volume has them: for the walks of FatDir, and   *)
(* for the properties.                                                     *)

Entry(vol, k, c) == vol[FatSect(k, c)][c]

\* The clusters on the chain that begins at c: at most ClustCnt-3 links.
Longer(vol, k, s) ==
  IF Entry(vol, k, Last(s)) \in Clusters THEN Append(s, Entry(vol, k, Last(s))) ELSE s

Chain(vol, k, c) ==
  LET after[i \in 0 .. ClustCnt - 3] == IF i = 0 THEN <<c>> ELSE Longer(vol, k, after[i - 1])
  IN after[ClustCnt - 3]

FreeClusters(vol) == {c \in Clusters : IsFree(vol, c)}
=============================================================================
