------------------------------ MODULE VfsPath ------------------------------
(***************************************************************************)
(* Path names in the virtual file system, kernel/src/fs/vfs.c: mounts,     *)
(* vfs_resolve_path, vfs_get_full_path, and the working directories that   *)
(* tasks keep as path names (sys_chdir).                                   *)
(*                                                                         *)
(* A path name is a sequence of names and slashes.  A dentry is            *)
(* <<fs, names>>: the names that lead to it from the root of its file      *)
(* system; the cache of dentries holds one for each.  vfs_lock is held     *)
(* throughout, so an operation is one step.                                *)
(***************************************************************************)
EXTENDS Integers, Sequences, FiniteSets, SequencesExt

CONSTANTS
  FileSystems,   \* the registered file systems
  Nodes,         \* the dentries that exist on their media, roots included
  Dirs,          \* those that are directories
  NullOnMiss,    \* file systems whose lookup returns null for a missing name
  Boot,          \* the calls of vfs_mount_fs: path names and file systems
  Tasks, Init0,  \* tasks; Init0 is the first
  Paths,         \* the path names that tasks use
  Slash, Dot, DotDot, None

RootOf(fs) == <<fs, <<>>>>

IsSeq(s) == s \in Seq(Range(s))

ASSUME VfsPathAssumption ==
  /\ \A fs \in FileSystems : RootOf(fs) \in Nodes
  /\ IsFiniteSet(Nodes) /\ \A n \in Nodes :
       /\ n = <<n[1], n[2]>> /\ n[1] \in FileSystems /\ IsSeq(n[2])
       /\ Range(n[2]) \cap {Slash, Dot, DotDot, None} = {}
       /\ \A i \in 1 .. Len(n[2]) : <<n[1], SubSeq(n[2], 1, i - 1)>> \in Dirs
  /\ Dirs \subseteq Nodes /\ NullOnMiss \subseteq FileSystems
  /\ Init0 \in Tasks /\ \A p \in Paths : IsSeq(p)
  /\ None \notin Nodes \union FileSystems

\* kernel_main mounts the root first, and each file system once.
ASSUME BootAssumption ==
  /\ IsSeq(Boot) /\ Boot # <<>>
  /\ \A i \in 1 .. Len(Boot) : /\ Boot[i].fs \in FileSystems /\ IsSeq(Boot[i].path)
                               /\ Boot[i].path = <<Slash>> <=> i = 1
  /\ \A i, j \in 1 .. Len(Boot) : Boot[i].fs = Boot[j].fs => i = j

VARIABLES
  mounted,       \* how many of the Boot calls have been made
  vfs_root,      \* the root dentry, or None
  i_mountpoint,  \* per dentry: the file system mounted there, or None
  s_parent,      \* s_root->d_parent of each file system
  cwd,           \* per task: its working directory, or None if it does not exist
  opened,        \* ghost: per task: the dentry that sys_chdir opened
  halted         \* the kernel has dereferenced a null d_inode

vars == <<mounted, vfs_root, i_mountpoint, s_parent, cwd, opened, halted>>

Init ==
  /\ mounted = 0
  /\ vfs_root = None
  /\ i_mountpoint = [d \in Nodes |-> None]
  /\ s_parent = [fs \in FileSystems |-> RootOf(fs)]
  /\ cwd = [t \in Tasks |-> None]
  /\ opened = [t \in Tasks |-> None]
  /\ halted = FALSE

-----------------------------------------------------------------------------
(* vfs_resolve_path.                                                       *)

IsRoot(d) == d[2] = <<>>

d_parent(d) == IF IsRoot(d) THEN s_parent[d[1]] ELSE <<d[1], Front(d[2])>>

\* The dentry at hand, or the root of what is mounted on it.
Crossed(d) == IF i_mountpoint[d] = None THEN d ELSE RootOf(i_mountpoint[d])

DropSlash(p) == IF p # <<>> /\ Head(p) = Slash THEN Tail(p) ELSE p

\* vfs_next_path: skips one slash, cuts off a name and the slash behind it;
\* None if there is no name.
vfs_next_path(p) ==
  LET q == DropSlash(p)
  IN IF q = <<>> \/ Head(q) = Slash THEN [next |-> None, rest |-> q]
     ELSE [next |-> Head(q), rest |-> DropSlash(Tail(q))]

\* Mutant: the names that follow are looked up where they were before.
Up_kept(w) == [w EXCEPT !.current = IF @ = None THEN None ELSE d_parent(@)]

\* The name ".." in the loop.
Up(w) ==
  IF w.current = None THEN w
  ELSE [w EXCEPT !.current = d_parent(w.current), !.parent = d_parent(w.current)]

\* Any other name: looked up in the cache and in the file system.
Down(w, name) ==
  LET d == <<w.parent[1], Append(w.parent[2], name)>>
  IN IF d \in Nodes THEN [w EXCEPT !.current = Crossed(d), !.parent = Crossed(d)]
     ELSE IF w.parent[1] \in NullOnMiss
       THEN [w EXCEPT !.current = None, !.done = TRUE]
     ELSE [w EXCEPT !.halts = TRUE, !.done = TRUE]

\* One turn of the loop.
Turn(w) ==
  LET n == vfs_next_path(w.rest)
      v == [w EXCEPT !.rest = n.rest]
  IN IF w.done THEN w
     ELSE IF n.next = None THEN [w EXCEPT !.done = TRUE]
     ELSE IF n.next = Dot THEN v
     ELSE IF n.next = DotDot THEN Up(v)
     ELSE Down(v, n.next)

\* A relative path name behind the working directory dir.
WholePath(dir, path) ==
  IF path # <<>> /\ Head(path) = Slash THEN path
  ELSE (IF dir = <<Slash>> THEN dir ELSE Append(dir, Slash)) \o path

\* vfs_resolve_path: current is the dentry or None; or the kernel halts.
vfs_resolve_path(dir, path) ==
  LET start == [rest |-> WholePath(dir, path), current |-> None, parent |-> vfs_root,
                done |-> FALSE, halts |-> FALSE]
      turns == Len(start.rest) + 1
      walk[i \in 0 .. turns] == IF i = 0 THEN start ELSE Turn(walk[i - 1])
  IN IF path = <<Slash>> THEN [start EXCEPT !.current = vfs_root] ELSE walk[turns]

\* vfs_open: the dentry it opens, or None.
OpenedDentry(w) == IF w.current = None THEN None ELSE Crossed(w.current)

-----------------------------------------------------------------------------
(* vfs_get_full_path.                                                      *)

\* One turn of the loop: the name of the dentry in front, then a slash and the
\* parent.  The root of a mounted file system has an empty name.
PathTurn(w) ==
  LET named == (IF IsRoot(w.d) THEN <<>> ELSE <<Last(w.d[2])>>) \o w.path
      up == d_parent(w.d)
  IN IF w.d = vfs_root \/ w.done THEN w
     ELSE IF up = w.d THEN [w EXCEPT !.path = named, !.done = TRUE]
     ELSE [w EXCEPT !.path = <<Slash>> \o named, !.d = up]

\* The loop from d on; at most one turn per dentry.
PathLoop(d) ==
  LET turns == Cardinality(Nodes)
      walk[i \in 0 .. turns] ==
        IF i = 0 THEN [d |-> d, path |-> <<>>, done |-> FALSE] ELSE PathTurn(walk[i - 1])
  IN walk[turns]

vfs_get_full_path(d) ==
  LET w == PathLoop(d)
  IN IF d = vfs_root THEN <<Slash>>
     ELSE IF Len(w.path) > 1 /\ Last(w.path) = Slash THEN Front(w.path) ELSE w.path

-----------------------------------------------------------------------------
(* Operations.                                                             *)

Booted == mounted = Len(Boot)

\* Mutant: the root of the new file system stays its own parent.
ParentOfMount_self(fs, d) == RootOf(fs)

\* sb->s_root->d_parent = dentry.
ParentOfMount(fs, d) == d

\* vfs_mount_fs: the next of the calls in kernel_main; the mount points exist.
vfs_mount_fs ==
  LET call == Boot[mounted + 1]
      d == vfs_resolve_path(<<Slash>>, call.path).current
  IN /\ ~Booted
     /\ mounted' = mounted + 1
     /\ \/ call.path = <<Slash>> /\ vfs_root' = RootOf(call.fs)
           /\ UNCHANGED <<i_mountpoint, s_parent>>
        \/ call.path # <<Slash>> /\ d # None
           /\ i_mountpoint' = [i_mountpoint EXCEPT ![d] = call.fs]
           /\ s_parent' = [s_parent EXCEPT ![call.fs] = ParentOfMount(call.fs, d)]
           /\ UNCHANGED vfs_root
     /\ UNCHANGED <<cwd, opened, halted>>

\* sched_execve of the shell with the working directory "/".
start_init ==
  /\ Booted /\ \A t \in Tasks : cwd[t] = None
  /\ cwd' = [cwd EXCEPT ![Init0] = <<Slash>>]
  /\ opened' = [opened EXCEPT ![Init0] = vfs_root]
  /\ UNCHANGED <<mounted, vfs_root, i_mountpoint, s_parent, halted>>

\* task_fork and sched_spawn: the child inherits the working directory.
task_setup_cwd(t, c) ==
  /\ ~halted /\ cwd[t] # None /\ cwd[c] = None
  /\ cwd' = [cwd EXCEPT ![c] = cwd[t]]
  /\ opened' = [opened EXCEPT ![c] = opened[t]]
  /\ UNCHANGED <<mounted, vfs_root, i_mountpoint, s_parent, halted>>

\* sys_chdir, of a directory; otherwise it returns an error.
sys_chdir(t, path) ==
  LET w == vfs_resolve_path(cwd[t], path)
      d == OpenedDentry(w)
  IN /\ ~halted /\ cwd[t] # None
     /\ \/ w.halts /\ halted' = TRUE /\ UNCHANGED <<cwd, opened>>
        \/ ~w.halts /\ d \in Dirs
           /\ cwd' = [cwd EXCEPT ![t] = vfs_get_full_path(d)]
           /\ opened' = [opened EXCEPT ![t] = d]
           /\ UNCHANGED halted
     /\ UNCHANGED <<mounted, vfs_root, i_mountpoint, s_parent>>

\* task_free.
exit(t) ==
  /\ ~halted /\ cwd[t] # None /\ \E u \in Tasks \ {t} : cwd[u] # None
  /\ cwd' = [cwd EXCEPT ![t] = None]
  /\ opened' = [opened EXCEPT ![t] = None]
  /\ UNCHANGED <<mounted, vfs_root, i_mountpoint, s_parent, halted>>

Next ==
  \/ vfs_mount_fs
  \/ start_init
  \/ \E t \in Tasks : \/ \E c \in Tasks : task_setup_cwd(t, c)
                      \/ \E p \in Paths : sys_chdir(t, p)
                      \/ exit(t)

Spec == Init /\ [][Next]_vars

-----------------------------------------------------------------------------
(* The reference: one tree of names, the mounted file systems in it.       *)

\* One dentry up, with its name.
PlaceTurn(w) ==
  IF IsRoot(w.d) /\ (w.d = vfs_root \/ s_parent[w.d[1]] = w.d) THEN w
  ELSE IF IsRoot(w.d) THEN [w EXCEPT !.d = s_parent[w.d[1]]]
  ELSE [d |-> d_parent(w.d), names |-> <<Last(w.d[2])>> \o w.names]

\* The place of a dentry in the one tree; at most one turn per dentry.
Place(d) ==
  LET turns == Cardinality(Nodes)
      walk[i \in 0 .. turns] ==
        IF i = 0 THEN [d |-> d, names |-> <<>>] ELSE PlaceTurn(walk[i - 1])
  IN walk[turns].names

\* The dentries one can see: those that no mount covers.
Visible == {d \in Nodes : i_mountpoint[d] = None /\ (d[1] = vfs_root[1] \/ s_parent[d[1]] # RootOf(d[1]))}

\* Where a name leads from a place, where places are the ones there are, or None.
MeantStep(places, place, name) ==
  IF place = None \/ name \in {Slash, Dot} THEN place
  ELSE IF name = DotDot THEN IF place = <<>> THEN place ELSE Front(place)
  ELSE IF Append(place, name) \in places THEN Append(place, name)
  ELSE None

\* The place that the first n tokens of a path lead to, step by step.
MeantAfter(places, dir, path, n) ==
  LET place[i \in 0 .. n] ==
        IF i = 0 THEN IF path # <<>> /\ Head(path) = Slash THEN <<>> ELSE dir
        ELSE MeantStep(places, place[i - 1], path[i])
  IN place[n]

Meaning(places, dir, path) == MeantAfter(places, dir, path, Len(path))

\* Path names whose resolution is known to differ: ".." out of the root of a
\* mounted file system, and a path with no name in it.
MountPlaces == {Place(d) : d \in {n \in Nodes : i_mountpoint[n] # None}}
LeavesMount(places, mounts, dir, path) ==
  \E i \in 1 .. Len(path) :
    path[i] = DotDot /\ MeantAfter(places, dir, path, i - 1) \in mounts \union {None}
HasName(path) == \E i \in 1 .. Len(path) : path[i] \notin {Slash, Dot, DotDot}

-----------------------------------------------------------------------------
(* Properties.                                                             *)

\* The path name that sys_chdir stores leads back to the dentry it was made
\* from, also across mounts, where vfs_get_full_path leaves two slashes.
CwdLeadsBack ==
  \A t \in Tasks : cwd[t] # None =>
    OpenedDentry(vfs_resolve_path(<<Slash>>, cwd[t])) = opened[t]

\* vfs_open agrees with the meaning of path names in one tree: it opens the
\* dentry at the place the names lead to, or nothing if there is none.  Only
\* where there is none may the lookup of a file system that answers a missing
\* name with an empty dentry (ramfs) stop the kernel.
ResolvesAsMeant ==
  LET places == {Place(d) : d \in Visible}
      mounts == MountPlaces
  IN \A t \in {u \in Tasks : cwd[u] # None} :
       LET dir == Place(opened[t]) IN
       \A p \in Paths :
         LET w == vfs_resolve_path(cwd[t], p)
         IN HasName(WholePath(cwd[t], p)) /\ ~LeavesMount(places, mounts, dir, p) =>
            IF w.halts \/ OpenedDentry(w) = None THEN Meaning(places, dir, p) = None
            ELSE Place(OpenedDentry(w)) = Meaning(places, dir, p)
=============================================================================
