------------------------------- MODULE Ramfs --------------------------------
(***************************************************************************)
(* The initial ram file system, kernel/src/fs/ramfs.c: a tar archive in    *)
(* memory, searched from its first block at every lookup and listing.      *)
(*                                                                         *)
(* The archive is a sequence of blocks: a header, or BlockSize bytes of    *)
(* data (512 in the code).  A name in a header is a sequence of names and  *)
(* slashes, as in VfsPath.  The archive never changes, so that the locks   *)
(* protect nothing and an operation is one step.                           *)
(***************************************************************************)
EXTENDS VfsPath

CONSTANTS
  BlockSize,     \* bytes in a block
  Trees,         \* the lists of files of which archives are made
  Lengths,       \* what ramfs_read is asked for: any i32 that sys_read passes on
  Offsets        \* what ramfs_lseek is asked for

ASSUME RamfsAssumption ==
  BlockSize \in Nat \ {0} /\ Lengths \subseteq Int /\ Offsets \subseteq Int

Normal == 0
SymLink == 2
Directory == 5

-----------------------------------------------------------------------------
(* The archive, as tar -C dir . writes it: a header for the directory      *)
(* itself, then one for each file with its contents behind it, then zeros. *)

\* A name in a header: "./", the path, and a slash behind a directory.
HeaderName(f) ==
  FoldLeft(LAMBDA p, n : p \o <<Slash, n>>, <<Dot>>, f.path)
    \o (IF f.type = Directory THEN <<Slash>> ELSE <<>>)

Smaller(a, b) == IF a < b THEN a ELSE b

DataBlocks(f) ==
  [i \in 1 .. (Len(f.data) + BlockSize - 1) \div BlockSize |->
     [ustar |-> FALSE, data |-> SubSeq(f.data, (i - 1) * BlockSize + 1, Smaller(i * BlockSize, Len(f.data)))]]

Header(f) ==
  <<[ustar |-> TRUE, filename |-> HeaderName(f), size |-> Len(f.data), type |-> f.type]>>

tar(files) ==
  FoldLeft(LAMBDA a, f : a \o Header(f) \o DataBlocks(f),
           Header([path |-> <<>>, type |-> Directory, data |-> <<>>]), files)
    \o <<[ustar |-> FALSE, data |-> <<>>]>>

-----------------------------------------------------------------------------
(* Searching it.                                                           *)

ustar_strip_prefix(p) ==
  IF Len(p) >= 2 /\ p[1] = Dot /\ p[2] = Slash THEN SubSeq(p, 3, Len(p)) ELSE p

ustar_remove_last_slash(p) ==
  IF p # <<>> /\ Last(p) = Slash THEN Front(p) ELSE p

\* Mutant: a block that is not full is not counted.
align_to_512_down(size) == size \div BlockSize

\* The blocks that size bytes take.
align_to_512(size) == (size + BlockSize - 1) \div BlockSize

Stripped(rd_buff, i) ==
  ustar_remove_last_slash(ustar_strip_prefix(rd_buff[i].filename))

\* The headers at which the loops of ustar_lookup and ramfs_iterate stop to
\* look, in order: the scan ends at the first block that is no header, and
\* passes over empty names and links.
Scanned(rd_buff) ==
  LET Step(w, i) ==
        IF i # w.next \/ ~rd_buff[i].ustar THEN w
        ELSE [next |-> i + 1 + align_to_512(rd_buff[i].size), at |-> Append(w.at, i)]
      Looked(i) == Stripped(rd_buff, i) # <<>> /\ rd_buff[i].type \in {Normal, Directory}
  IN SelectSeq(FoldLeft(Step, [next |-> 1, at |-> <<>>], [i \in 1 .. Len(rd_buff) |-> i]).at,
               Looked)

\* ustar_lookup below the directory whose filename is dir: its header, or 0.
ustar_lookup(rd_buff, dir, name) ==
  LET search_path == IF dir = <<>> THEN <<name>> ELSE dir \o <<Slash, name>>
      found == SelectSeq(Scanned(rd_buff), LAMBDA i : Stripped(rd_buff, i) = search_path)
  IN IF found = <<>> THEN 0 ELSE Head(found)

ustar_is_direct_child(entry, dir) ==
  LET rest == IF dir = <<>> THEN entry ELSE SubSeq(entry, Len(dir) + 2, Len(entry))
  IN /\ dir = <<>> \/ (IsPrefix(dir, entry) /\ Len(entry) > Len(dir) /\ entry[Len(dir) + 1] = Slash)
     /\ rest # <<>> /\ \A i \in 1 .. Len(rest) : rest[i] # Slash

\* ramfs_iterate: name, size and type of each entry, in order.
ramfs_iterate(rd_buff, dir) ==
  LET child == SelectSeq(Scanned(rd_buff), LAMBDA i : ustar_is_direct_child(Stripped(rd_buff, i), dir))
  IN [k \in 1 .. Len(child) |->
        [name |-> Last(Stripped(rd_buff, child[k])), sz |-> rd_buff[child[k]].size,
         type |-> rd_buff[child[k]].type]]

\* The lookups of vfs_resolve_path along names, from the root of the archive:
\* the header of the last, or 0 if one of them fails.
RamFind(rd_buff, names) ==
  FoldLeft(LAMBDA w, n :
             IF w.at = 0 THEN w
             ELSE LET i == ustar_lookup(rd_buff, w.dir, n)
                  IN [at |-> i, dir |-> IF i = 0 THEN <<>> ELSE Stripped(rd_buff, i)],
           [at |-> 1, dir |-> <<>>], names).at

-----------------------------------------------------------------------------
(* Reading a file of it.                                                   *)

VARIABLES
  tree,    \* the files in the archive
  opened_file, \* the position in tree of the file that is open, or 0
  f_pos,   \* its position
  got,     \* ghost: the last read, where it started and what it copied, or None
  overrun  \* a read has copied past the buffer and the archive: nothing is known of
           \* the memory behind them, and the model ends here

ramVars == <<tree, opened_file, f_pos, got, overrun>>

rd_buff_of == tar(tree)

RamInit ==
  /\ tree \in Trees
  /\ opened_file = 0 /\ f_pos = 0 /\ got = None /\ overrun = FALSE

\* vfs_open and ramfs_open of the k-th file, which ramfs_lookup finds.
ramfs_open(k) ==
  /\ ~overrun /\ opened_file = 0 /\ RamFind(rd_buff_of, tree[k].path) # 0 /\ tree[k].type = Normal
  /\ opened_file' = k /\ f_pos' = 0 /\ got' = None
  /\ UNCHANGED <<tree, overrun>>

\* ramfs_close.
ramfs_close ==
  /\ ~overrun /\ opened_file # 0
  /\ opened_file' = 0 /\ f_pos' = 0 /\ got' = None
  /\ UNCHANGED <<tree, overrun>>

\* The inode of the open file.
OpenHeader == RamFind(rd_buff_of, tree[opened_file].path)
OpenSize == rd_buff_of[OpenHeader].size

\* Byte o of the archive behind block i.
ByteAt(i, o) == rd_buff_of[i + 1 + (o \div BlockSize)].data[(o % BlockSize) + 1]

\* How much ramfs_read copies.  f_pos + len is unsigned: a len that leads before
\* the start of the file is a very large one, and cut to what is left of it; one
\* that leads to a place in the file is not, and memcpy takes it for a very large
\* size.
ReadSize(len) ==
  IF f_pos + len < 0 \/ f_pos + len > OpenSize THEN OpenSize - f_pos ELSE len

\* ramfs_read; it returns -1 and copies nothing at the end of the file.
ramfs_read(len) ==
  /\ ~overrun /\ opened_file # 0 /\ len # 0 /\ f_pos < OpenSize
  /\ overrun' = (ReadSize(len) < 0)
  /\ got' = [from |-> f_pos, len |-> len,
             bytes |-> [b \in 1 .. ReadSize(len) |-> ByteAt(OpenHeader, f_pos + b - 1)]]
  /\ f_pos' = f_pos + ReadSize(len)
  /\ UNCHANGED <<tree, opened_file>>

\* f_pos is unsigned: a position before the start is a very large one, and a
\* position behind the end becomes the end.
Clamped(pos) == IF pos < 0 \/ pos > OpenSize THEN OpenSize ELSE pos

\* ramfs_lseek.
ramfs_lseek(offset, wence) ==
  /\ ~overrun /\ opened_file # 0
  /\ \/ wence = "SET" /\ offset >= 0 /\ f_pos' = Clamped(offset)
     \/ wence = "CUR" /\ f_pos + offset >= 0 /\ f_pos' = Clamped(f_pos + offset)
     \/ wence = "END" /\ offset <= 0 /\ f_pos' = Clamped(OpenSize + offset)
  /\ got' = None
  /\ UNCHANGED <<tree, opened_file, overrun>>

RamNext ==
  \/ \E k \in 1 .. Len(tree) : ramfs_open(k)
  \/ ramfs_close
  \/ \E len \in Lengths : ramfs_read(len)
  \/ \E offset \in Offsets, wence \in {"SET", "CUR", "END"} : ramfs_lseek(offset, wence)

RamSpec == RamInit /\ [][RamNext]_ramVars

-----------------------------------------------------------------------------
(* Properties.                                                             *)

\* The files under a directory of the archive.
ChildrenOf(dir) ==
  {k \in 1 .. Len(tree) : /\ tree[k].type \in {Normal, Directory}
                          /\ Front(tree[k].path) = dir}

\* The last read copied what the file holds from got.from on, got.len bytes or as
\* many as there are; one for a negative number copied the rest of the file if the
\* number led before its start, and ran over all bounds otherwise.
ReadOfOpenFile ==
  LET data == tree[opened_file].data
      rest == SubSeq(data, got.from + 1, Len(data))
  IN IF overrun THEN got.len < 0 /\ got.from + got.len >= 0
     ELSE /\ got.bytes = IF got.len < 0 THEN rest ELSE SubSeq(rest, 1, Smaller(got.len, Len(rest)))
          /\ f_pos = got.from + Len(got.bytes)

\* What was put into the archive is what the file system shows of it, whatever
\* sizes the files before it have and whatever links are among them: ramfs_lookup
\* finds every file and directory, ramfs_iterate lists each directory's entries
\* once with their sizes, and ramfs_read copies bytes of the open file only, from
\* where the seeks before it led.  The exception is a negative length that leads
\* back to a place in the file, which becomes the size of a memcpy (ramfs.c:257):
\* it is the only read that gets out of the file.
RamShowsArchive ==
  /\ \A k \in 1 .. Len(tree) : tree[k].type \in {Normal, Directory} =>
       /\ RamFind(rd_buff_of, tree[k].path) # 0
       /\ rd_buff_of[RamFind(rd_buff_of, tree[k].path)].size = Len(tree[k].data)
  /\ \A dir \in {<<>>} \union {tree[k].path : k \in {j \in 1 .. Len(tree) : tree[j].type = Directory}} :
       LET filename == IF dir = <<>> THEN <<>> ELSE Stripped(rd_buff_of, RamFind(rd_buff_of, dir))
           list == ramfs_iterate(rd_buff_of, filename)
       IN /\ Len(list) = Cardinality(ChildrenOf(dir))
          /\ \A k \in ChildrenOf(dir) : \E i \in 1 .. Len(list) :
               list[i] = [name |-> Last(tree[k].path), sz |-> Len(tree[k].data),
                          type |-> tree[k].type]
  /\ f_pos <= IF opened_file = 0 THEN 0 ELSE Len(tree[opened_file].data)
  /\ got # None => ReadOfOpenFile
=============================================================================
