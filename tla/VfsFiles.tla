------------------------------ MODULE VfsFiles ------------------------------
(***************************************************************************)
(* Open files of tasks, kernel/src/fs/vfs.c, through fork, execve and exit *)
(* (kernel/src/proc/task.c, sched.c, elf.c).                               *)
(*                                                                         *)
(* A vfs_file_t is on the open_files list of one task.  What the FAT file  *)
(* system keeps for it (File, f_pdata) is named by the handle it was       *)
(* opened with.  A list is used by its own task only, so that an operation *)
(* is one step although vfs_close lets go of vfs_lock on the way.  The     *)
(* tasks are those of VfsPath; no variable of it is used here.             *)
(***************************************************************************)
EXTENDS VfsPath

CONSTANTS
  MaxHandles,    \* bound on the handles given out
  MaxForks,      \* bound on the count of a file
  Consoles,      \* the handles of the consoles: VFS_STDIN, VFS_STDOUT, VFS_STDERR
  NoFile         \* f_pdata is null

VFS_MIN_HANDLE == 100

ASSUME VfsFilesAssumption ==
  /\ {MaxHandles, MaxForks} \subseteq Nat /\ NoFile \notin Nat
  /\ Consoles \in Seq(0 .. VFS_MIN_HANDLE - 1) /\ IsInjective(Consoles)

VARIABLES
  open_files,  \* per task: its list of vfs_file_t
  state,       \* per task: "none", "starts" (in _sched_do_execve) or "runs"
  is_fork,     \* per task: was it made by fork and not replaced since?
  vfs_next_handle_count,
  live,        \* File structures that are allocated
  unsynced     \* those with changes that have not reached the disk

fileVars == <<open_files, state, is_fork, vfs_next_handle_count, live, unsynced>>

\* A new entry; write is its f_openmode.
Entry(fh, file, write) ==
  [fh |-> fh, count |-> 1, file |-> file, write |-> write, console |-> file = NoFile]

FilesInit ==
  /\ open_files = [t \in Tasks |-> <<>>]
  /\ state = [t \in Tasks |-> IF t = Init0 THEN "starts" ELSE "none"]
  /\ is_fork = [t \in Tasks |-> FALSE]
  /\ vfs_next_handle_count = VFS_MIN_HANDLE
  /\ live = {} /\ unsynced = {}

-----------------------------------------------------------------------------
Runs(t) == state[t] = "runs"
Places(t) == 1 .. Len(open_files[t])
Bounded == vfs_next_handle_count < VFS_MIN_HANDLE + MaxHandles
NewHandle == vfs_next_handle_count + 1

\* vfs_open for writing (w) or reading, with the File that fat32_open allocates.
vfs_open(t, w) ==
  /\ Runs(t) /\ Bounded
  /\ vfs_next_handle_count' = NewHandle
  /\ open_files' = [open_files EXCEPT ![t] = Append(@, Entry(NewHandle, NewHandle, w))]
  /\ live' = live \union {NewHandle}
  /\ UNCHANGED <<state, is_fork, unsynced>>

\* vfs_write on entry i; fat32_write refuses an entry without File,
\* fat_file_write one that was opened for reading.
vfs_write(t, i) ==
  /\ Runs(t) /\ open_files[t][i].file # NoFile /\ open_files[t][i].write
  /\ unsynced' = unsynced \union {open_files[t][i].file}
  /\ UNCHANGED <<open_files, state, is_fork, vfs_next_handle_count, live>>

\* Mutant: every close takes the entry off, not only the last.
EntriesAfterClose_off(files, i) == RemoveAt(files, i)

\* The list after a close of entry i: the last of count closes takes it off.
EntriesAfterClose(files, i) ==
  IF files[i].count > 1 THEN [files EXCEPT ![i].count = @ - 1] ELSE RemoveAt(files, i)

\* vfs_close on entry i: the last close also syncs and frees the File.
vfs_close(t, i) ==
  LET f == open_files[t][i] IN
  /\ Runs(t)
  /\ open_files' = [open_files EXCEPT ![t] = EntriesAfterClose(@, i)]
  /\ \/ f.count > 1 /\ UNCHANGED <<live, unsynced>>
     \/ /\ f.count = 1
        /\ live' = live \ {f.file}
        /\ unsynced' = unsynced \ {f.file}
  /\ UNCHANGED <<state, is_fork, vfs_next_handle_count>>

\* Mutant: the copy keeps the File.
Copied_shared(f) == [f EXCEPT !.count = @ + 1]

\* vfs_copy on one entry: the child's.
Copied(f) == [f EXCEPT !.count = @ + 1, !.file = NoFile]

\* Entries that vfs_copy copies.
IsCopied(f) == ~f.console

\* One turn of the loop of vfs_copy, which adds to the tail of the child's list ...
CopyEntry(f, list) == IF IsCopied(f) THEN Append(list, Copied(f)) ELSE list

\* ... and the list that it makes.
ChildEntries(files) ==
  LET list[k \in 0 .. Len(files)] == IF k = 0 THEN <<>> ELSE CopyEntry(files[k], list[k - 1])
  IN list[Len(files)]

\* vfs_copy: filep->count++ on the parent's entries, and copies with that
\* count for the child.
vfs_copy(files) ==
  [parent |-> [i \in 1 .. Len(files) |->
                 IF IsCopied(files[i]) THEN [files[i] EXCEPT !.count = @ + 1] ELSE files[i]],
   child |-> ChildEntries(files)]

\* sched_fork in a forked task: only the mark goes.
fork_again(t) ==
  /\ Runs(t) /\ is_fork[t]
  /\ is_fork' = [is_fork EXCEPT ![t] = FALSE]
  /\ UNCHANGED <<open_files, state, vfs_next_handle_count, live, unsynced>>

\* sched_fork.
sched_fork(t, c) ==
  LET copy == vfs_copy(open_files[t]) IN
  /\ Runs(t) /\ ~is_fork[t] /\ state[c] = "none"
  /\ \A i \in Places(t) : open_files[t][i].count < MaxForks
  /\ open_files' = [open_files EXCEPT ![t] = copy.parent, ![c] = copy.child]
  /\ state' = [state EXCEPT ![c] = "starts"]
  /\ is_fork' = [is_fork EXCEPT ![c] = TRUE]
  /\ UNCHANGED <<vfs_next_handle_count, live, unsynced>>

\* sched_spawn: a task with an empty list.
sched_spawn(t, c) ==
  /\ Runs(t) /\ state[c] = "none"
  /\ open_files' = [open_files EXCEPT ![c] = <<>>]
  /\ state' = [state EXCEPT ![c] = "starts"]
  /\ is_fork' = [is_fork EXCEPT ![c] = FALSE]
  /\ UNCHANGED <<vfs_next_handle_count, live, unsynced>>

ConsoleEntries == [i \in 1 .. Len(Consoles) |-> Entry(Consoles[i], NoFile, TRUE)]

\* _sched_do_execve: opens the consoles and, in a task that was not forked,
\* elf_load opens the program and leaves it open.
sched_do_execve(t) ==
  /\ state[t] = "starts"
  /\ state' = [state EXCEPT ![t] = "runs"]
  /\ \/ /\ is_fork[t]
        /\ open_files' = [open_files EXCEPT ![t] = @ \o ConsoleEntries]
        /\ UNCHANGED <<vfs_next_handle_count, live>>
     \/ /\ ~is_fork[t] /\ Bounded
        /\ vfs_next_handle_count' = NewHandle
        /\ live' = live \union {NewHandle}
        /\ open_files' = [open_files EXCEPT ![t] =
             (@ \o ConsoleEntries) \o <<Entry(NewHandle, NewHandle, FALSE)>>]
  /\ UNCHANGED <<is_fork, unsynced>>

\* _task_close_all_files: every entry is taken off the list, and then vfs_close
\* does not find its handle there.
AfterCloseAll(files) == <<>>

\* sched_execve: task_replace.
sched_execve(t) ==
  /\ Runs(t)
  /\ open_files' = [open_files EXCEPT ![t] = AfterCloseAll(@)]
  /\ state' = [state EXCEPT ![t] = "starts"]
  /\ is_fork' = [is_fork EXCEPT ![t] = FALSE]
  /\ UNCHANGED <<vfs_next_handle_count, live, unsynced>>

\* sched_exit: task_free_phase0.
sched_exit(t) ==
  /\ Runs(t)
  /\ open_files' = [open_files EXCEPT ![t] = AfterCloseAll(@)]
  /\ state' = [state EXCEPT ![t] = "none"]
  /\ UNCHANGED <<is_fork, vfs_next_handle_count, live, unsynced>>

FilesNext ==
  \E t \in Tasks :
    \/ \E w \in BOOLEAN : vfs_open(t, w)
    \/ sched_do_execve(t) \/ sched_execve(t) \/ sched_exit(t) \/ fork_again(t)
    \/ \E i \in Places(t) : vfs_write(t, i) \/ vfs_close(t, i)
    \/ \E c \in Tasks : sched_fork(t, c) \/ sched_spawn(t, c)

FilesSpec == FilesInit /\ [][FilesNext]_fileVars

-----------------------------------------------------------------------------
(* Properties.                                                             *)

Held(t) == {open_files[t][i].file : i \in Places(t)} \ {NoFile}
Reach == UNION {Held(t) : t \in Tasks}

\* A handle names one file of a task: through forks, copies and new programs no
\* handle, the consoles' included, is twice on a list.
HandlesDistinct ==
  \A t \in Tasks : \A i, j \in Places(t) :
    open_files[t][i].fh = open_files[t][j].fh => i = j

\* A File is freed once and not used afterwards: at most one entry of one task
\* leads to it, and only while it is allocated; a handle names one entry.
FilesOwned ==
  /\ HandlesDistinct
  /\ \A t \in Tasks : Held(t) \subseteq live
  /\ \A t, u \in Tasks : t # u => Held(t) \cap Held(u) = {}
  /\ \A t \in Tasks : \A i, j \in Places(t) :
       open_files[t][i].file = open_files[t][j].file /\ i # j => open_files[t][i].file = NoFile

\* Changes that have not reached the disk stay within reach of a later vfs_close,
\* whatever forks and closes come in between; only the end or the replacement of
\* a task, which drop its files without closing them, may strand them.
ChangesHeld ==
  [][\/ unsynced \cap Reach \cap unsynced' \subseteq Reach'
     \/ \E t \in Tasks : Runs(t) /\ state'[t] # "runs"]_fileVars
=============================================================================
