------------------------------- MODULE MCVfs --------------------------------
(***************************************************************************)
(* The virtual file system: path names across the mounts of kernel_main,   *)
(* the open files of a shell and a task that is made, ends and is made     *)
(* again, and the archives that ramfs shows.  The three share no variable, *)
(* so that their interleavings add nothing; part says which one a          *)
(* behaviour is about.                                                     *)
(***************************************************************************)
EXTENDS VfsFiles, Ramfs

CONSTANTS fat32, ttyfs, ramfs, dev, tty, ram, sub, file

VARIABLE part

MCConsoles == <<0>>

-----------------------------------------------------------------------------
(* Archives of up to four files, with sizes below, at and above a block.   *)

F(path, type, size) ==
  [path |-> path, type |-> type, data |-> [b \in 1 .. size |-> <<path, b>>]]

MCTrees ==
  {<<F(<<file>>, Normal, n), F(<<ram>>, SymLink, 0), F(<<sub>>, Directory, 0), F(<<sub, sub>>, Directory, 0),
     F(<<sub, file>>, Normal, m)>> : n, m \in {0, 1, 2, 3}}
MCLengths == {-3, -1, 0, 1, 2, 4}
MCOffsets == {-3, -1, 0, 1, 2, 4}

-----------------------------------------------------------------------------
(* The mounts of kernel_main, with a directory in /dev; the files of ramfs *)
(* are those that ramfs_lookup finds in one of the archives.               *)

RamTree == CHOOSE t \in MCTrees : Len(t[1].data) = 1 /\ Len(t[5].data) = 2
RamNodes ==
  {<<>>} \union {p \in {<<a>> : a \in {sub, file, ram}} \union {<<a, b>> : a, b \in {sub, file}} :
                   RamFind(tar(RamTree), p) # 0}

MCNodes == {<<fat32, <<>>>>, <<fat32, <<dev>>>>, <<fat32, <<dev, tty>>>>, <<fat32, <<dev, ram>>>>,
            <<fat32, <<dev, sub>>>>, <<ttyfs, <<>>>>} \union {<<ramfs, p>> : p \in RamNodes}
MCDirs == MCNodes \ {<<ttyfs, <<>>>>, <<ramfs, <<file>>>>, <<ramfs, <<sub, file>>>>}
MCBoot == <<[path |-> <<Slash>>, fs |-> fat32],
            [path |-> <<Slash, dev, Slash, tty>>, fs |-> ttyfs],
            [path |-> <<Slash, dev, Slash, ram>>, fs |-> ramfs]>>

\* Path names of up to five tokens: relative or absolute, with one slash between
\* names, or with one behind.
Names == {dev, ram, sub, file, Dot, DotDot}
Relative ==
  {<<a>> : a \in Names} \union {<<a, Slash, b>> : a, b \in Names}
    \union {<<a, Slash, b, Slash, c>> : a, b, c \in {dev, ram, sub, DotDot}}
MCPaths ==
  Relative \union {<<Slash>> \o p : p \in Relative} \union {Append(<<a>>, Slash) : a \in Names}
    \union {<<Slash>>, <<Slash, dev, Slash, tty>>}

-----------------------------------------------------------------------------
mcVars == <<vars, fileVars, ramVars, part>>

MCInit ==
  /\ part \in {"paths", "files", "archive"}
  /\ Init /\ FilesInit
  /\ \/ part = "archive" /\ RamInit
     \/ part # "archive" /\ tree = <<>> /\ opened_file = 0 /\ f_pos = 0 /\ got = None /\ overrun = FALSE

MCNext ==
  \/ part = "paths" /\ Next /\ UNCHANGED <<fileVars, ramVars, part>>
  \/ part = "files" /\ FilesNext /\ UNCHANGED <<vars, ramVars, part>>
  \/ part = "archive" /\ RamNext /\ UNCHANGED <<vars, fileVars, part>>

MCSpec == MCInit /\ [][MCNext]_mcVars
=============================================================================
