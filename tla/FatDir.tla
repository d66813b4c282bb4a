------------------------------- MODULE FatDir -------------------------------
(***************************************************************************)
(* Directories on a FAT32 volume, kernel/src/fs/fat32.c: searching them,   *)
(* and creating and removing files and directories.                        *)
(*                                                                         *)
(* A directory is a chain of clusters with slots of 32 bytes.  A name has  *)
(* Lfns[name] slots with its fragments, the last one first, and one with   *)
(* its short form and the entry proper.  A slot is marked as free, or as   *)
(* the last, in its first byte; the rest of it stays.                      *)
(*                                                                         *)
(* As in FatFile, an operation is one step that leaves its writes in       *)
(* dirfs.log, and the power may fail between any two of them.  What a      *)
(* power failure leaves is the end of a behaviour.                         *)
(***************************************************************************)
EXTENDS FatVolume

CONSTANTS
  DirNames, Lfns, Short,  \* names; their fragments, (len + 12) / 13; their short forms
  SlotsPerSect,           \* slots in a sector, 16
  Paths,                  \* the paths that calls are made with
  Foreign,                \* the name that another system may have left in the root
  MaxCalls                \* bound on the calls that change the volume

ASSUME FatDirAssumption ==
  /\ Lfns \in [DirNames -> Nat \ {0}] /\ DOMAIN Short = DirNames
  /\ SlotsPerSect \in Nat \ {0, 1} /\ MaxCalls \in Nat
  /\ Foreign \in DirNames
  /\ \A p \in Paths : p # <<>> /\ Range(p) \subseteq DirNames /\ (Len(p) > 1 => Front(p) \in Paths)

VARIABLES
  dirfs,    \* the mounted volume's Fat structure
  dirdisk,  \* what the disk holds
  tree,     \* ghost: per path, NoEntry or what the calls so far have put there
  safe,     \* ghost: paths that were on the disk when the last call began, and still are in the tree
  writing,  \* ghost: groups of slots that calls may not have written out yet
  full,     \* ghost: a call has found no free cluster
  calls,    \* calls so far
  off       \* ghost: the power has failed

dirVars == <<dirfs, dirdisk, tree, safe, writing, full, calls, off>>

NoEntry == [err |-> "EOF"]
SlotsPerClust == SlotsPerSect * SectPerClust

-----------------------------------------------------------------------------
(* Slots.                                                                  *)

\* memset(fat->buf, 0, 512); the first byte then says that it is the last.
Cleared == [mark |-> "last", lfn |-> FALSE, crc |-> "", name |-> "", seq |-> 0, dir |-> FALSE, clust |-> 0]

LfnSlot(n, i) == [Cleared EXCEPT !.mark = "live", !.lfn = TRUE, !.crc = Short[n], !.name = n, !.seq = i]

\* crc is also the short name: get_crc is computed from it.
SfnSlot(crc, dir, clust) ==
  [Cleared EXCEPT !.mark = "live", !.crc = crc, !.dir = dir, !.clust = clust]

\* dir_next over the chain that begins at c: the sector and index of slot p.  It finds
\* the end of a cluster by the low bits of the sector's number on the disk (fat32.c:553),
\* which is right if the data area begins at a multiple of a cluster's sectors, as it
\* does here.
Place(vol, c, p) ==
  LET q == (p - 1) % SlotsPerClust
  IN [sect |-> DataSect(clust_to_sect(Chain(vol, 0, c)[(p - 1) \div SlotsPerClust + 1])
                        + q \div SlotsPerSect),
      idx |-> q % SlotsPerSect]

\* All slots of a directory, and the error of dir_next behind the last one.
Slots(vol, c) ==
  [p \in 1 .. SlotsPerClust * Len(Chain(vol, 0, c)) |->
     With(Place(vol, c, p), LAMBDA at : vol[at.sect][at.idx])]
EndOf(vol, c) == IF Entry(vol, 0, Last(Chain(vol, 0, c))) = EOC THEN "EOF" ELSE "BROKEN"

\* The sectors that a walk from slot 1 to slot p of a directory buffers.
Walk(vol, c, p) ==
  {Place(vol, c, q).sect : q \in 1 .. p}
    \union {FatSect(0, Chain(vol, 0, c)[i]) : i \in 1 .. (p - 1) \div SlotsPerClust}

\* update_buf for sectors that are only read.
Touch(fs, sects) == IF sects \subseteq {fs.sect} THEN fs ELSE sync_buf(fs)

\* One slot is changed in the buffer.
PutSlot(fs, c, p, slot) ==
  LET at == Place(fs.vol, c, p) IN Change(fs, at.sect, [fs.vol[at.sect] EXCEPT ![at.idx] = slot])

-----------------------------------------------------------------------------
(* Searching.                                                              *)

\* The name that cnt fragments from slot p on make up, or "?".
NameAt(s, p) ==
  LET whole == {n \in DirNames :
                  /\ s[p].seq = Lfns[n]
                  /\ \A j \in 0 .. Lfns[n] - 1 : s[p + j].name = n /\ s[p + j].seq = Lfns[n] - j}
  IN IF whole = {} THEN "?" ELSE CHOOSE n \in whole : TRUE

\* parse_lfn_name at slot p, and the test of the slot behind it: a fragment may
\* be followed by one that is marked free, but not by another name's.
LfnError(s, end, p, sfn_only) ==
  LET cnt == s[p].seq
      fits(j) == s[p + j].lfn /\ s[p + j].crc = s[p].crc
      sfn == s[p + cnt]
  IN IF \E j \in 0 .. cnt - 1 : p + j <= Len(s) /\ ~fits(j) THEN "BROKEN"
     ELSE IF p + cnt > Len(s) THEN end
     ELSE IF sfn.mark # "live" \/ (sfn_only /\ sfn.lfn) \/ sfn.crc # s[p].crc THEN "BROKEN"
     ELSE "NONE"

Error(e) == [err |-> e]

\* The first entry from slot p on (fat_dir_read): its error, its first and last
\* slot, its name ("" if it has only a short one), and what it leads to.
EntryFrom(s, end, p, sfn_only) ==
  LET used == {q \in p .. Len(s) : s[q].mark # "free"}
      q == Min(used)
      last == IF s[q].lfn THEN q + s[q].seq ELSE q
      err == IF s[q].lfn THEN LfnError(s, end, q, sfn_only) ELSE "NONE"
  IN IF used = {} THEN Error(end)
     ELSE IF s[q].mark = "last" THEN Error("EOF")
     ELSE IF err # "NONE" THEN Error(err)
     ELSE [err |-> "NONE", first |-> q, pos |-> last, name |-> IF s[q].lfn THEN NameAt(s, q) ELSE "",
           crc |-> s[last].crc, dir |-> s[last].dir, clust |-> s[last].clust]

\* A long name is compared in full, an entry without one by its short form.
Matches(e, n) == IF e.name = "" THEN e.crc = Short[n] ELSE e.name = n

\* All entries of a directory, and the error that ends the list.
ListTurn(r, s, end, sfn_only) ==
  IF r.err # "NONE" THEN r
  ELSE With(EntryFrom(s, end, r.p, sfn_only), LAMBDA e :
         IF e.err # "NONE" THEN [r EXCEPT !.err = e.err]
         ELSE [r EXCEPT !.p = e.pos + 1, !.all = Append(@, e)])
ListSlots(s, end, sfn_only) ==
  FoldLeft(LAMBDA r, i : With(r, LAMBDA x : ListTurn(x, s, end, sfn_only)),
           [p |-> 1, all |-> <<>>, err |-> "NONE"], [i \in 1 .. Len(s) + 1 |-> i])
Listing(vol, c, sfn_only) ==
  With(Slots(vol, c), LAMBDA s : ListSlots(s, EndOf(vol, c), sfn_only))

\* dir_search: the first entry that matches.  A broken entry ends the search.
dir_search(vol, c, n) ==
  With(Listing(vol, c, TRUE), LAMBDA list :
    With(SelectSeq(list.all, LAMBDA e : Matches(e, n)), LAMBDA hits :
      IF hits = <<>> THEN Error(list.err) ELSE hits[1]))

\* dir_enter: cluster 0 stands for the root.
dir_enter(clust) == IF clust = 0 THEN Root ELSE clust

\* How far a search that ended with e got: to the entry, or to the end.
SearchedTo(s, e) ==
  IF e.err = "NONE" THEN e.pos
  ELSE Min({Len(s)} \union {p \in 1 .. Len(s) : s[p].mark = "last"})

\* follow_path: the error, the directory searched last and what was found there,
\* the names left over, and the sectors read.
FollowTurn(vol, r, n) ==
  LET c == dir_enter(r.entry.clust)
  IN IF r.err # "NONE" THEN r
     ELSE IF ~r.entry.dir THEN [r EXCEPT !.err = "PATH"]
     ELSE With(dir_search(vol, c, n), LAMBDA e :
            [err |-> e.err, in |-> c, entry |-> e, left |-> r.left - 1,
             read |-> r.read \union Walk(vol, c, SearchedTo(Slots(vol, c), e))])
follow_path(vol, path) ==
  FoldLeft(LAMBDA r, n : With(r, LAMBDA x : FollowTurn(vol, x, n)),
           [err |-> "NONE", in |-> Root, entry |-> SfnSlot("", TRUE, Root), left |-> Len(path),
            read |-> {}],
           path)

\* The last name alone is missing: last_subpath_len is not 0.
IsNew(r) == r.err = "EOF" /\ r.left = 0

\* dir_at_root: Dir is at the first slot of the root.  It is so for the root
\* itself, and for an entry in that slot.
dir_at_root(r) == r.in = Root /\ r.entry.pos = 1

-----------------------------------------------------------------------------
(* Changing.                                                               *)

\* clust_clear.
clust_clear(fs, c) ==
  FoldLeft(LAMBDA v, i : sync_buf(Change(v, DataSect(clust_to_sect(c) + i - 1),
                                         [j \in 0 .. SlotsPerSect - 1 |-> Cleared])),
           sync_buf(fs), [i \in 1 .. SectPerClust |-> i])

\* dir_next_stretch at the end of the directory: a new cluster, linked and
\* cleared, or an error.  The search for one reads the table.
StretchTurn(r, c) ==
  LET end == Last(Chain(r.fs.vol, 0, c))
  IN IF r.err # "NONE" THEN r
     ELSE With(Pick(r.fs, end), LAMBDA new :
       With(StretchBy(sync_buf(r.fs), end, new), LAMBDA fs :
         IF new = FREE THEN [err |-> "FULL", fs |-> fs]
         ELSE [r EXCEPT !.fs = clust_clear(fs, new)]))
dir_next_stretch(fs, c, times) ==
  FoldLeft(LAMBDA r, i : With(r, LAMBDA x : StretchTurn(x, c)), [err |-> "NONE", fs |-> fs],
           [i \in 1 .. times |-> i])

\* The slot that is marked as the last, or the first one behind the directory.
EndSlot(s) == Min({Len(s) + 1} \union {p \in 1 .. Len(s) : s[p].mark = "last"})

\* Mutant: the slot of the entry proper is not counted.
GapLen_fragments(n) == Lfns[n]

\* lfns + 1.
GapLen(n) == Lfns[n] + 1

\* The first slot of as many free ones in a row as dir_add needs; all slots from
\* the last one on are free.
FirstGap(s, n) ==
  Min({p \in 1 .. EndSlot(s) :
         \A q \in p .. p + GapLen(n) - 1 : q < EndSlot(s) => s[q].mark = "free"})

PutSlots(fs, c, p, slots) ==
  FoldLeft(LAMBDA v, i : With(v, LAMBDA x : PutSlot(x, c, p + i - 1, slots[i])), fs,
           [i \in 1 .. Len(slots) |-> i])

\* dir_add to the directory at c.  The search for the gap goes one slot beyond
\* it and stretches the directory for that; a gap at the end gets a new end
\* behind it; then the fragments and the entry are written.
dir_add(fs, c, n, dir, clust) ==
  LET s == Slots(fs.vol, c)
      first == FirstGap(s, n)
      beyond == first + Lfns[n] + 1
      times == IF beyond <= Len(s) THEN 0 ELSE (beyond - Len(s) - 1) \div SlotsPerClust + 1
      group == [i \in 1 .. Lfns[n] |-> LfnSlot(n, Lfns[n] + 1 - i)] \o <<SfnSlot(Short[n], dir, clust)>>
      found(v) == Touch(v, Walk(v.vol, c, Min({beyond - 1, Len(s)})))
      ended(v) == IF beyond > EndSlot(s)
                  THEN PutSlot(v, c, beyond, [Slots(v.vol, c)[beyond] EXCEPT !.mark = "last"])
                  ELSE v
  IN With(dir_next_stretch(With(fs, found), c, times), LAMBDA r :
       IF r.err # "NONE" THEN [err |-> r.err, fs |-> r.fs, first |-> first]
       ELSE [err |-> "NONE", fs |-> PutSlots(With(r.fs, ended), c, first, group), first |-> first])

\* Mutant: only the first cluster is freed.
Freed_first(vol, c) == <<c>>

\* The clusters that remove_chain frees, in this order.
Freed(vol, c) == Chain(vol, 0, c)

\* remove_chain.
remove_chain(fs, c) ==
  LET put(v, x) == With(v, LAMBDA w : [put_fat(w, x, FREE) EXCEPT !.free_cnt = @ + 1])
  IN sync_fs(FoldLeft(put, [fs EXCEPT !.info_dirty = TRUE], Freed(fs.vol, c)))

\* Mutant: a slot that is removed is marked as the last.
RemovedMark_last == "last"

\* SFN_FREE.
RemovedMark == "free"

\* remove_entries: from the first fragment on.
remove_entries(fs, c, e) ==
  PutSlots(fs, c, e.first,
           [i \in 1 .. e.pos - e.first + 1 |->
              [Slots(fs.vol, c)[e.first + i - 1] EXCEPT !.mark = RemovedMark]])

\* A directory with nothing behind "." and "..".
IsEmpty(vol, c) ==
  LET s == Slots(vol, c)
      used == {p \in 3 .. Len(s) : s[p].mark # "free"}
  IN used # {} /\ s[Min(used)].mark = "last"
-----------------------------------------------------------------------------
(* The volume in the beginning: an empty root, or a directory in its first *)
(* slot that has only a short name.  Free clusters hold old entries.       *)

Dots(c, parent) ==
  [j \in 0 .. SlotsPerSect - 1 |->
     IF j = 0 THEN SfnSlot(".", TRUE, c) ELSE IF j = 1 THEN SfnSlot("..", TRUE, parent) ELSE Cleared]

ForeignClust == NextClust(Root)
Junk == [j \in 0 .. SlotsPerSect - 1 |-> SfnSlot("junk", FALSE, Root)]
Blank == [j \in 0 .. SlotsPerSect - 1 |-> Cleared]

DirVolume(foreign) ==
  LET used == IF foreign THEN {Root, ForeignClust} ELSE {Root}
      own(n) == 2 + n \div SectPerClust
  IN [s \in FatSects \union DataSects \union {InfoSect} |->
        IF s \in FatSects
        THEN [c \in {x \in Clusters : x \div PerSect = s[3]} |-> IF c \in used THEN EOC ELSE FREE]
        ELSE IF s = InfoSect
        THEN [last_used |-> Max(used), free_cnt |-> Cardinality(Clusters \ used)]
        ELSE IF own(s[3]) \notin used THEN Junk
        ELSE IF foreign /\ s = DataSect(clust_to_sect(Root))
        THEN [Blank EXCEPT ![0] = SfnSlot(Short[Foreign], TRUE, ForeignClust)]
        ELSE IF foreign /\ s = DataSect(clust_to_sect(ForeignClust)) THEN Dots(ForeignClust, 0)
        ELSE Blank]

DirInit ==
  \E foreign \in BOOLEAN :
    /\ dirdisk = DirVolume(foreign)
    /\ dirfs = Mounted(dirdisk)
    /\ tree = [p \in Paths |-> IF foreign /\ p = <<Foreign>>
                              THEN [err |-> "NONE", name |-> "", dir |-> TRUE, clust |-> ForeignClust, pos |-> 1]
                              ELSE NoEntry]
    /\ safe = {p \in Paths : tree[p] # NoEntry}
    /\ writing = {} /\ full = FALSE /\ calls = 0 /\ off = FALSE

-----------------------------------------------------------------------------
(* The calls.  All of them begin with follow_path.                         *)

Ready == ~off /\ dirfs.log = <<>>

\* What a call leaves: the error, the volume, the tree, and the group of slots
\* it wrote.
Result(err, fs, t, group) == [err |-> err, fs |-> fs, tree |-> t, group |-> group]

Call(r) ==
  /\ calls < MaxCalls /\ calls' = calls + 1
  /\ dirfs' = r.fs /\ tree' = r.tree
  /\ safe' = {p \in safe : r.tree[p] = tree[p]}
  /\ writing' = writing \union r.group
  /\ full' = (full \/ r.err = "FULL")
  /\ UNCHANGED <<dirdisk, off>>

\* create_chain: the new cluster, or FREE, and the volume with it.
create_chain(fs) ==
  LET c == Pick(fs, NewChain)
  IN [clust |-> c,
      fs |-> IF c = FREE THEN [sync_buf(fs) EXCEPT !.info_dirty = TRUE] ELSE StretchBy(fs, NewChain, c)]

\* The result of a call that has added an entry for p to the directory at c, or
\* has failed to; a is what dir_add returned and fs the volume in the end.
Added(a, fs, p, c, dir, clust) ==
  IF a.err # "NONE" THEN Result(a.err, a.fs, tree, {})
  ELSE Result("NONE", fs,
              [tree EXCEPT ![p] = [err |-> "NONE", name |-> Last(p), dir |-> dir, clust |-> clust,
                                   pos |-> a.first + Lfns[Last(p)]]],
              {[in |-> c, first |-> a.first]})

\* fat_file_open with FAT_CREATE, for a name that is not there: a cluster, then
\* the entry, which stays in the buffer.
NewFile(fs, p, c) ==
  LET new == create_chain(fs)
      a == dir_add(new.fs, c, Last(p), FALSE, new.clust)
  IN IF new.clust = FREE THEN Result("FULL", new.fs, tree, {})
     ELSE Added(a, a.fs, p, c, FALSE, new.clust)

\* A cleared cluster with "." and "..".
Dotted(fs, c, parent) == Change(clust_clear(fs, c), DataSect(clust_to_sect(c)), Dots(c, parent))

\* fat_dir_create, for a name that is not there.
NewDir(fs, p, c) ==
  LET new == create_chain(fs)
      a == dir_add(Dotted(new.fs, new.clust, IF c = Root THEN 0 ELSE c), c, Last(p), TRUE, new.clust)
  IN IF new.clust = FREE THEN Result("FULL", new.fs, tree, {})
     ELSE Added(a, sync_fs(a.fs), p, c, TRUE, new.clust)

\* fat_unlink of what may be removed: the clusters, then the entry.
Removed(fs, p, c, e) ==
  Result("NONE", sync_fs(remove_entries(remove_chain(fs, e.clust), c, e)),
         [tree EXCEPT ![p] = NoEntry], {[in |-> c, first |-> e.first]})

fat_file_open(p) ==
  Ready /\ \E at \in {follow_path(dirfs.vol, p)} :
    IsNew(at) /\ \E r \in {NewFile(Touch(dirfs, at.read), p, at.in)} : Call(r)

fat_dir_create(p) ==
  Ready /\ \E at \in {follow_path(dirfs.vol, p)} :
    IsNew(at) /\ \E r \in {NewDir(Touch(dirfs, at.read), p, at.in)} : Call(r)

fat_unlink(p) ==
  Ready /\ \E at \in {follow_path(dirfs.vol, p)} :
    /\ at.err = "NONE" /\ ~dir_at_root(at)
    /\ at.entry.dir => IsEmpty(dirfs.vol, at.entry.clust)
    /\ \E r \in {Removed(Touch(dirfs, at.read), p, at.in, at.entry)} : Call(r)

\* Calls that change nothing (fat_stat, fat32_lookup, fat_file_open of what is
\* there, and all that are refused) read sectors, which may write the buffer back.
dir_read(p) ==
  /\ Ready
  /\ \E fs \in {Touch(dirfs, follow_path(dirfs.vol, p).read)} : fs # dirfs /\ dirfs' = fs
  /\ UNCHANGED <<dirdisk, tree, safe, writing, full, calls, off>>

\* fat_sync, fat_umount.
fat_sync ==
  /\ Ready /\ dirfs # sync_fs(dirfs)
  /\ dirfs' = sync_fs(dirfs)
  /\ UNCHANGED <<dirdisk, tree, safe, writing, full, calls, off>>

\* A sector reaches the disk; with the last one, all the tree is on it.
dir_disk_write ==
  LET fs == [dirfs EXCEPT !.log = Tail(@)]
      settled == fs.log = <<>> /\ ~fs.dirty
  IN /\ ~off /\ dirfs.log # <<>>
     /\ dirdisk' = [dirdisk EXCEPT ![Head(dirfs.log).sect] = Head(dirfs.log).data]
     /\ dirfs' = fs
     /\ safe' = IF settled THEN {p \in Paths : tree[p] # NoEntry} ELSE safe
     /\ writing' = IF settled THEN {} ELSE writing
     /\ UNCHANGED <<tree, full, calls, off>>

\* The power fails, and the volume is mounted again.
dir_power_failure ==
  /\ ~off /\ off' = TRUE
  /\ dirfs' = Mounted(dirdisk)
  /\ UNCHANGED <<dirdisk, tree, safe, writing, full, calls>>

DirNext ==
  \/ \E p \in Paths : fat_file_open(p) \/ fat_dir_create(p) \/ fat_unlink(p) \/ dir_read(p)
  \/ fat_sync \/ dir_disk_write \/ dir_power_failure

DirSpec == DirInit /\ [][DirNext]_dirVars

-----------------------------------------------------------------------------
(* Properties.                                                             *)

Exists(p) == tree[p] # NoEntry

\* The entry a path leads to is the one that was made for it, with its name.
IsMeant(f, p) ==
  /\ f.err = "NONE"
  /\ \A field \in {"name", "dir", "clust", "pos"} : f.entry[field] = tree[p][field]

\* After any sequence of creates and removes, through gaps left by longer and
\* shorter names and over cluster boundaries, a path leads to its own entry if
\* and only if it exists, and listing a directory shows its entries and no
\* more.
DirsMatchTree ==
  Ready =>
    /\ \A p \in Paths :
         LET f == follow_path(dirfs.vol, p)
         IN IF Exists(p) THEN IsMeant(f, p) ELSE f.err \in {"EOF", "PATH"}
    /\ \A p \in {q \in Paths : Exists(q) /\ tree[q].dir} \union {<<>>} :
         LET list == Listing(dirfs.vol, IF p = <<>> THEN Root ELSE tree[p].clust, FALSE)
         IN /\ list.err = "EOF"
            /\ Len(SelectSeq(list.all, LAMBDA e : e.crc \notin {".", ".."})) =
                 Cardinality({q \in Paths : Exists(q) /\ Front(q) = p})

\* No cluster belongs to two things or to none: the chains of the root and of
\* all that exists are disjoint and end properly, and the other clusters are
\* free and counted as such.  A create that finds the disk full leaves a
\* cluster that nobody owns.
ClustersOwned ==
  Ready =>
    LET owners == {Root} \union {tree[p].clust : p \in {q \in Paths : Exists(q)}}
        chain == [c \in owners |-> Chain(dirfs.vol, 0, c)]
        owned == UNION {Range(chain[c]) : c \in owners}
    IN /\ \A c \in owners :
            /\ get_fat(dirfs.vol, Last(chain[c])) = EOC
            /\ \A d \in owners \ {c} : Range(chain[c]) \cap Range(chain[d]) = {}
       /\ owned \cap FreeClusters(dirfs.vol) = {}
       /\ ~full => owned \union FreeClusters(dirfs.vol) = Clusters
       /\ dirfs.free_cnt = Cardinality(FreeClusters(dirfs.vol))

\* Where the names of a path are looked for, and the slots they have.
Way(p) ==
  {[in |-> IF i = 1 THEN Root ELSE tree[SubSeq(p, 1, i - 1)].clust, pos |-> tree[SubSeq(p, 1, i)].pos] :
     i \in 1 .. Len(p)}

\* A power failure costs no entry that was on the disk before and was not being
\* removed: its path leads to it as before and its clusters are its own, unless
\* a group of slots that was being written stands before it in its directory.
\* That group may be half there, and dir_search then gives up at it.
KeptAtPowerFailure ==
  off => \A p \in safe :
    LET f == follow_path(dirdisk, p)
    IN /\ \/ IsMeant(f, p)
          \/ f.err = "BROKEN" /\ \E g \in writing, w \in Way(p) : g.in = w.in /\ g.first < w.pos
       /\ \A k \in Copies : Entry(dirdisk, k, tree[p].clust) # FREE
=============================================================================
