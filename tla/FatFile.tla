------------------------------ MODULE FatFile ------------------------------
(***************************************************************************)
(* Open files on a FAT32 volume, kernel/src/fs/fat32.c: fat_file_seek,     *)
(* _read, _write and _sync under the operations that the kernel hands to   *)
(* the virtual file system (fat32_open, fat32_close, ...).                 *)
(*                                                                         *)
(* fat_lock is held throughout an operation, so operations do not          *)
(* interleave.  The power may fail between any two sector writes: an       *)
(* operation is one step that leaves its writes in fs.log, disk_write      *)
(* carries them out one by one, and the next operation begins when all are *)
(* done.                                                                   *)
(***************************************************************************)
EXTENDS FatVolume

CONSTANTS
  Files,       \* the files on the volume; the kernel creates and removes none
  StartClust,  \* their first clusters
  Size0,       \* their sizes in the beginning
  Handles,     \* open files (the File structure)
  Modes,       \* open for writing, TRUE, or for reading only, FALSE
  PowerFails,  \* may the power fail?
  Sharing,     \* may two handles be open on one file?
  Lens,        \* lengths of reads and writes
  MaxOff,      \* bound on file offsets
  OldByte,     \* the bytes files hold in the beginning, and
  NewByte,     \* the bytes written; both Unknown where data do not matter
  Closed, Unknown

ASSUME FatFileAssumption ==
  /\ StartClust \in [Files -> Clusters \ {Root}]
  /\ IsInjective(StartClust)
  /\ Size0 \in [Files -> 0 .. ClustSize]
  /\ Lens \subseteq Nat \ {0}
  /\ MaxOff \in Nat
  /\ {PowerFails, Sharing} \subseteq BOOLEAN /\ Modes \subseteq BOOLEAN

VARIABLES
  fs,       \* the mounted volume's Fat structure
  disk,     \* what the disk holds
  isize,    \* idata->file_size of the cached inodes, or Closed if not cached
  handle,   \* the File structures, or Closed
  content,  \* ghost: per file, the byte last written to each offset
  stale,    \* ghost: the files that were opened with a cached size that is too small
  reply,    \* the bytes that the last call read, from where and by which handle
  crashed   \* ghost: has the power failed?

vars == <<fs, disk, isize, handle, content, stale, reply, crashed>>

NoReply == [bytes |-> <<>>]
Used == Range(StartClust) \union {Root}

\* A freshly formatted volume with one cluster for each file.
Volume0 ==
  [s \in FatSects \union DataSects \union {InfoSect, DirSect} |->
     IF s \in FatSects
     THEN [c \in {x \in Clusters : x \div PerSect = s[3]} |->
             IF c \in Used THEN EOC ELSE FREE]
     ELSE IF s \in DataSects THEN [i \in 0 .. SectSize - 1 |-> OldByte]
     ELSE IF s = DirSect THEN Size0
     ELSE [last_used |-> Root, free_cnt |-> Cardinality(Clusters) - Cardinality(Used)]]

Init ==
  /\ disk = Volume0
  /\ fs = Mounted(disk)
  /\ isize = [f \in Files |-> Closed]
  /\ handle = [h \in Handles |-> Closed]
  /\ content = [f \in Files |-> [o \in 0 .. MaxOff |-> IF o < Size0[f] THEN OldByte ELSE Unknown]]
  /\ stale = {}
  /\ reply = NoReply
  /\ crashed = FALSE

-----------------------------------------------------------------------------
(* fat_file_seek.  An operation works on a record: the volume, the file,  *)
(* the error, and the bytes still to be copied and already read.           *)

Work(v, f, len) == [fs |-> v, f |-> f, err |-> "NONE", len |-> len, bytes |-> <<>>]

\* stretch_chain at the end of the file's chain.
stretch_chain(r, c) ==
  IF c = FREE THEN [r EXCEPT !.fs = StretchBy(@, r.f.clust, c), !.err = "FULL"]
  ELSE [r EXCEPT !.fs = StretchBy(@, r.f.clust, c), !.f.clust = c]

\* One turn of the loop that follows the chain and stretches it at its end.
Follow(r) ==
  LET next == get_fat(r.fs.vol, r.f.clust)
  IN IF r.err # "NONE" THEN r
     ELSE IF next = FREE THEN [r EXCEPT !.err = "BROKEN"]
     ELSE IF next = EOC THEN stretch_chain(r, Pick(r.fs, r.f.clust))
     ELSE [r EXCEPT !.f.clust = next]

Followed(r, off) ==
  LET turns == off \div ClustSize - r.f.offset \div ClustSize
      after[i \in 0 .. turns] == IF i = 0 THEN r ELSE Follow(after[i - 1])
  IN after[turns]

\* Mutant: a seek backwards counts from the beginning, but stays on its cluster.
Rewound_kept(r, off) ==
  IF off \div ClustSize < r.f.offset \div ClustSize THEN [r EXCEPT !.f.offset = 0] ELSE r

\* A seek to an earlier cluster starts from the beginning of the chain.
Rewound(r, off) ==
  IF off \div ClustSize < r.f.offset \div ClustSize
  THEN [r EXCEPT !.f.clust = r.f.sclust, !.f.sect = clust_to_sect(r.f.sclust), !.f.offset = 0]
  ELSE r

\* Mutant: the buffer is replaced without being written back.
Flushed_skipped(r, ssect) == r

\* The dirty buffer is written to ssect, the sector it came from.
Flushed(r, ssect) ==
  IF r.f.dirty
  THEN [r EXCEPT !.fs = WriteThrough(@, DataSect(ssect), r.f.buf), !.f.dirty = FALSE]
  ELSE r

Loaded(r) == [r EXCEPT !.f.buf = r.fs.vol[DataSect(r.f.sect)]]

\* The sector of offset off in cluster c.
SectorOf(c, off) == clust_to_sect(c) + ((off \div SectSize) % SectPerClust)

\* The end of a seek that has found its cluster: the buffer moves to its sector.
Arrived(r, ssect, off) ==
  IF r.err # "NONE" THEN r
  ELSE LET at == [r EXCEPT !.f.sect = SectorOf(r.f.clust, off), !.f.offset = off]
       IN IF at.f.sect = ssect THEN at ELSE Loaded(Flushed(at, ssect))

\* fat_file_seek to the offset off.
fat_file_seek(r, off) ==
  IF off < 0 THEN [r EXCEPT !.err = "EOF"]
  ELSE Arrived(Followed(Rewound(r, off), off), r.f.sect, off)

-----------------------------------------------------------------------------
(* fat_file_read, fat_file_write, fat_file_sync.                           *)

\* One turn of the loop of fat_file_read: copy up to the end of the sector, of
\* the request and of the file, then seek.
ReadTurn(r) ==
  LET idx == r.f.offset % SectSize
      cnt == Min({r.len, SectSize - idx, r.f.size - r.f.offset})
  IN IF r.err # "NONE" \/ r.len = 0 \/ r.f.offset >= r.f.size THEN r
     ELSE fat_file_seek(
            [r EXCEPT !.len = @ - cnt, !.bytes = @ \o [j \in 1 .. cnt |-> r.f.buf[idx + j - 1]]],
            r.f.offset + cnt)

ReadTurns(r) ==
  LET after[i \in 0 .. r.len] == IF i = 0 THEN r ELSE ReadTurn(after[i - 1]) IN after[r.len]

fat_file_read(v, f, len) == ReadTurns(Work(v, [f EXCEPT !.accessed = TRUE], len))

\* One turn of the loop of fat_file_write: copy up to the end of the sector,
\* then seek, which allocates the cluster behind a full one.
WriteTurn(r) ==
  LET idx == r.f.offset % SectSize
      cnt == Min({r.len, SectSize - idx})
      buf == [j \in 0 .. SectSize - 1 |-> IF j \in idx .. idx + cnt - 1
                                       THEN NewByte ELSE r.f.buf[j]]
  IN IF r.err # "NONE" \/ r.len = 0 THEN r
     ELSE fat_file_seek([r EXCEPT !.len = @ - cnt, !.f.buf = buf, !.f.dirty = TRUE],
                        r.f.offset + cnt)

WriteTurns(r) ==
  LET after[i \in 0 .. r.len] == IF i = 0 THEN r ELSE WriteTurn(after[i - 1]) IN after[r.len]

\* Mutant: a write that ends within the file cuts it off there.
Sized_cut(r) == [r EXCEPT !.f.size = r.f.offset, !.err = "NONE"]

\* if (file->offset > file->size) file->size = file->offset; the error of the
\* loop is not returned.
Sized(r) == [r EXCEPT !.f.size = Max({@, r.f.offset}), !.err = "NONE"]

fat_file_write(v, f, len) ==
  Sized(WriteTurns(Work(v, [f EXCEPT !.modified = TRUE, !.accessed = TRUE], len)))

\* fat_file_sync: the file's buffer, dirty or not, then its directory entry.
SyncEntry(v, f) ==
  IF f.modified THEN Change(v, DirSect, [v.vol[DirSect] EXCEPT ![f.file] = f.size])
  ELSE IF f.accessed THEN Change(v, DirSect, v.vol[DirSect])
  ELSE v
fat_file_sync(v, f) == sync_fs(SyncEntry(WriteThrough(v, DataSect(f.sect), f.buf), f))

-----------------------------------------------------------------------------
(* What the virtual file system calls.  While sectors are on their way to  *)
(* the disk fat_lock is held.                                              *)

Unlocked == fs.log = <<>>
IsOpen(h) == handle[h] # Closed

\* fat32_lookup on the first use of a name, which caches the size, and
\* fat32_open.
fat32_open(h, f, write) ==
  LET size == IF isize[f] = Closed THEN fs.vol[DirSect][f] ELSE isize[f]
      new == [file |-> f, sclust |-> StartClust[f], clust |-> StartClust[f], sect |-> -1,
              offset |-> 0, size |-> size, write |-> write, dirty |-> FALSE,
              modified |-> FALSE, accessed |-> FALSE, buf |-> <<>>]
  IN /\ Unlocked /\ ~IsOpen(h)
     /\ Sharing \/ \A g \in Handles : IsOpen(g) => handle[g].file # f
     /\ isize' = [isize EXCEPT ![f] = size]
     /\ handle' = [handle EXCEPT ![h] = fat_file_seek(Work(fs, new, 0), 0).f]
     /\ stale' = IF size < fs.vol[DirSect][f] THEN stale \union {f} ELSE stale
     /\ reply' = NoReply
     /\ UNCHANGED <<fs, disk, content, crashed>>

\* fat32_close.
fat32_close(h) ==
  /\ Unlocked /\ IsOpen(h)
  /\ fs' = fat_file_sync(fs, handle[h])
  /\ handle' = [handle EXCEPT ![h] = Closed]
  /\ reply' = NoReply
  /\ UNCHANGED <<disk, isize, content, stale, crashed>>

\* What an operation leaves behind.
Done(h, r) ==
  /\ fs' = r.fs
  /\ handle' = [handle EXCEPT ![h] = r.f]
  /\ reply' = IF r.bytes = <<>> THEN NoReply
              ELSE [handle |-> h, from |-> handle[h].offset, bytes |-> r.bytes]

\* fat32_read.
fat32_read(h, len) ==
  /\ Unlocked /\ IsOpen(h)
  /\ Done(h, fat_file_read(fs, handle[h], len))
  /\ UNCHANGED <<disk, isize, content, stale, crashed>>

\* fat32_write, within the bound.
fat32_write(h, len) ==
  LET at == handle[h].offset
  IN /\ Unlocked /\ IsOpen(h) /\ handle[h].write
     /\ at + len <= MaxOff
     /\ Done(h, fat_file_write(fs, handle[h], len))
     /\ content' = [content EXCEPT ![handle[h].file] =
          [o \in 0 .. MaxOff |-> IF o \in at .. at + len - 1 THEN NewByte ELSE @[o]]]
     /\ UNCHANGED <<disk, isize, stale, crashed>>

\* fat32_lseek; wence and offset together name any place.
fat32_lseek(h, off) ==
  /\ Unlocked /\ IsOpen(h)
  /\ Done(h, fat_file_seek(Work(fs, handle[h], 0), off))
  /\ UNCHANGED <<disk, isize, content, stale, crashed>>

\* The next sector reaches the disk.
disk_write ==
  /\ fs.log # <<>>
  /\ disk' = [disk EXCEPT ![Head(fs.log).sect] = Head(fs.log).data]
  /\ fs' = [fs EXCEPT !.log = Tail(@)]
  /\ reply' = NoReply
  /\ UNCHANGED <<isize, handle, content, stale, crashed>>

\* The k-th byte of a file, as the active table of a volume has it.
ByteAt(vol, f, o) ==
  LET chain == Chain(vol, 0, StartClust[f])
      i == o \div ClustSize + 1
  IN IF i > Len(chain) THEN Unknown
     ELSE vol[DataSect(SectorOf(chain[i], o))][o % SectSize]

\* The power fails, and the volume is mounted again.
power_failure ==
  /\ PowerFails
  /\ fs' = Mounted(disk)
  /\ isize' = [f \in Files |-> Closed]
  /\ handle' = [h \in Handles |-> Closed]
  /\ content' = [f \in Files |-> [o \in 0 .. MaxOff |->
                   IF o < disk[DirSect][f] THEN ByteAt(disk, f, o) ELSE Unknown]]
  /\ stale' = {}
  /\ reply' = NoReply
  /\ crashed' = TRUE
  /\ UNCHANGED disk

Next ==
  \/ \E h \in Handles :
       \/ \E f \in Files, w \in Modes : fat32_open(h, f, w)
       \/ fat32_close(h)
       \/ \E len \in Lens : fat32_read(h, len) \/ fat32_write(h, len)
       \/ \E off \in -1 .. MaxOff : fat32_lseek(h, off)
  \/ disk_write
  \/ power_failure

Spec == Init /\ [][Next]_vars

-----------------------------------------------------------------------------
(* Properties.                                                             *)

\* Whatever sector was the last to reach the disk, in both tables the chain of
\* every file ends properly, visits no cluster twice and shares none with
\* another file or the directory: stretch_chain ends the new cluster before it
\* links it.
DiskChainsSound ==
  \A k \in Copies :
    LET chain == [f \in Files |-> Chain(disk, k, StartClust[f])]
    IN \A f \in Files :
         /\ Entry(disk, k, Last(chain[f])) = EOC
         /\ IsInjective(chain[f])
         /\ Root \notin Range(chain[f])
         /\ \A g \in Files \ {f} : Range(chain[f]) \cap Range(chain[g]) = {}

\* At any power failure, the size in a directory entry is covered by the
\* clusters of the file's chain.
SizeCovered ==
  \A f \in Files : disk[DirSect][f] <= ClustSize * Len(Chain(disk, 0, StartClust[f]))

\* The mirror is never behind: a cluster the active table uses is used in the
\* mirror, at the latest when the active table reaches the disk.
MirrorAhead ==
  Mirror => \A c \in Clusters :
    Entry(disk, 0, c) # FREE => Entry(disk, 1, c) # FREE

\* free_cnt is exact until the power first fails, and from then on never
\* denies a free cluster.
FreeCountSafe ==
  LET n == Cardinality(FreeClusters(fs.vol))
  IN fs.free_cnt >= n /\ (~crashed => fs.free_cnt = n)

\* A handle is never left on a cluster of another file or off the chains, even
\* by a seek that fails.
HandleOnChain ==
  \A h \in Handles : IsOpen(h) =>
    Contains(Chain(fs.vol, 0, handle[h].sclust), handle[h].clust)

\* Whatever sector was written last when the power fails, and however calls of
\* several handles follow each other, the volume is sound.
VolumeSound == DiskChainsSound /\ SizeCovered /\ MirrorAhead /\ FreeCountSafe /\ HandleOnChain

\* No call has met a full disk yet: clusters are never given back.
HasRoom == FreeClusters(fs.vol) # {}

\* The bytes that a close may not lose: those that were written, except the ones
\* beyond the cached size of a file that was opened again after it had grown.
MustKeep(f, o) == content[f][o] # Unknown /\ (f \in stale => o < isize[f])

\* With one handle at a time on a file, a closed file is long enough for the bytes
\* that were written to it and holds them, wherever seeks went in between; files do
\* not disturb each other.  fat32_close leaves idata->file_size as it was read
\* when the file was first looked up: a later open starts from that size, and a
\* write through it lets the size in the directory fall back, so that bytes beyond
\* it may be lost; those within it never are.  All this as long as the disk has
\* room; two handles on one file have a buffer each, and a close writes it back,
\* dirty or not.
DataKept ==
  Unlocked /\ HasRoom => \A f \in Files :
    (\A h \in Handles : IsOpen(h) => handle[h].file # f) =>
      \A o \in 0 .. MaxOff :
        /\ MustKeep(f, o) => o < disk[DirSect][f]
        /\ o < disk[DirSect][f] => content[f][o] \in {Unknown, ByteAt(disk, f, o)}

\* And a read returns the bytes last written, whether they have reached the
\* disk or are still in the handle's buffer.
ReadsWhatWasWritten ==
  HasRoom =>
    \A i \in 1 .. Len(reply.bytes) : reply.from + i - 1 <= MaxOff =>
      content[handle[reply.handle].file][reply.from + i - 1] \in {Unknown, reply.bytes[i]}
=============================================================================
