# A TLA+ development for seekos

seekos is a small x86-64 kernel in C and assembly (`kernel/`), with a user shell and a
libc (`user/`, `libc/`). This directory holds TLA+ models of its core, the TLC
configurations that check them on small instances, and proofs that TLAPS checks for every
instance. Paths below are relative to `kernel/src/` unless they start with another top-level
directory. `PROJECT.json` gives, definition by definition, the source lines that are modelled.

## 1. Inventory

| Component | State | Operations | Talks to |
|---|---|---|---|
| Physical pages, `mm/pmm.c` | one free list per order, `page_t.order/in_buddy`, `nr_free_pages`, the boot bitmap | `_buddy_init`, `pmm_alloc_pages`, `pmm_free_pages` | called by `ptm`, `vmm` and the slabs |
| Page tables, `mm/ptm.c` | page tables | `ptm_map*`, `ptm_unmap*` | pages from `pmm` |
| Address spaces, `mm/vmalloc.c`, `mm/vmm.c` | `mm_struct_t.vm_area_head`, `k_vmlist` | `vmalloc`, `vfree`, `mm_copy` (fork), `mm_replace` (execve), `mm_free` | `ptm`, slabs; called by `task`, ELF loader, `sys_vmalloc` |
| Slabs and `kmalloc`, `mm/vmm.c`, `mm/kmalloc.c` | caches, slabs, free lists inside slabs | `slab_alloc/free`, `kmalloc/kfree` | `pmm`, `vmalloc` for large sizes |
| Scheduler, `proc/sched.c`, `sched_support.S` | `active_tasks`, `cleanup_tasks`, `running_tasks`, task states, saved stacks | `sched_again`, tick, sleep, fork, spawn, execve, exit, wait | timer interrupt, `task`, `kevent` |
| Kernel events, `proc/kevent.c` | `sub_list`, `pub_list` | subscribe, publish, dispatch | keyboard interrupt, scheduler |
| Tasks and ELF, `proc/task.c`, `proc/elf.c` | `task_t` | `task_create`, `task_fork`, `task_replace`, `task_free` | `vmalloc`, VFS |
| System calls, `proc/syscall_support.S`, `proc/syscall.c` | `cpu->kstack`, `cpu->ustack`, `tss->rsp0` | entry, return, dispatch | everything |
| VFS, `fs/vfs.c` | nodes, mounts, per-task open files | open, close, read, write, seek, mount, `vfs_copy` | file systems, tasks |
| FAT32, `fs/fat32.c` | one sector buffer, FS info, FAT, directories, files | chains, directories, files | disk driver |
| Initial ram file system, `fs/ramfs.c` | an ustar archive in memory, position of an open file | lookup, open, read, seek, list | VFS |
| Keyboard, `device/keyboard/` | prefix seen, modifiers, lock keys | interrupt handler, key codes | `kevent`, log |
| Terminal device, `fs/ttyfs.c` | ring of one line | read with echo and editing, write | `kevent`, terminal |
| Framebuffer terminal, `device/display/`, `log/kprint.c` | cursor, last refreshed cell, two buffers, colours | put, wrap, scroll, refresh, flush, log | tasks, the echo, the log |
| Interrupts and timer, `system/{isr,apic,timer,idt_*}` | handlers, redirection entries, requests and interrupts in service | set up, dispatch, acknowledge | keyboard, scheduler |
| Locks, `base/{spinlock,kmutex,ksemaphore}.c` | lock words, counters | acquire, release | everything |

**What makes it hard.** One processor schedules (`system/smp.c`: the others halt), so every
danger comes from preemption and interrupts: the timer tick preempts kernel code wherever
interrupts are on, the keyboard interrupt runs `kevent_publish` and the scheduler's
`sched_resume_event`, values checked before a lock are used after it, and one cell per processor
holds state of whichever task last entered the kernel. A second source of trouble is
partial failure: execve drops the old image before it knows that the new one loads, and fork
copies an address space area by area. Memory structures must survive any sequence of splits,
merges, allocations and frees. FAT32 adds crashes between sector writes.

**What makes each part correct.**
pmm: blocks disjoint, no page lost, flags truthful, buddies coalesced.
Scheduler: every task in one place, in the state the place implies; a context is restored only by
its owner; every ready task runs, every sleep ends (not early), every wait for an ended child returns.
Events: a reader that waits can be woken, no freed event stays on the list.
System calls: a call uses its task's kernel stack and returns to its caller's rip and rsp.
Address spaces: areas disjoint, exactly their pages mapped, fork copies all.
Slabs: objects disjoint, an object returns to its slab.
VFS: handles belong to their task and are closed once.
FAT32: chains disjoint and acyclic, a full disk changes nothing, a crash loses at most clusters, a path
leads to its own entry and a listing shows what exists.
Ram file system: it shows what was put into the archive.
Console: a read returns the line that was typed, the screen shows it, modifiers are those held down.
Interrupts: each is acknowledged before the processor is given away, the gs base fits the mode, no
key is stuck in the controller. Locks: nobody spins with interrupts off on a lock that a preempted task holds.

`PROJECT.json` lists the individual hazards under `hazards`, each at its line with the properties
that cover it.

## 2. Plan

Done so far, in this order:

1. `Buddy` + `BuddyProofs`, later `PageAlloc` + `BuddyRefines`: the page allocator, what it promises, and
   that it keeps the promise.
2. `Sched`: scheduler, events and the life cycle of tasks.
3. `VmArea`, later `KernelVm`: address spaces of tasks, then the kernel's own list with preemption.
4. `SyscallEntry`, later `Isr`: ways into and out of the kernel.
5. `FatVolume` + `FatFile`, later `FatDir`: cluster chains, files, and directories, while the power may fail.
6. `Slab`: slab caches and `kmalloc`.
7. `VfsPath`, `VfsFiles`, later `Ramfs`: path names over mounts, open files, the archive.
8. `Keyboard` + `Term` + `Tty`: from scan codes to a line read and a screen.

9. Proofs (section 6): the page allocator with its refinement, interrupt entry, the scheduler, slabs, address spaces
   and the kernel's areas, open files and path names, the console, and files on a FAT32 volume.

Left, most important first:

- proofs about FAT32's directories (`ClustersOwned` of `FatDir`), whose walks are still folds of the community
  modules and have to become recursive functions first, as those of `FatVolume`, `FatFile` and `VfsPath` have;
- files without a cluster (start cluster 0), which other systems leave on a disk, in `FatFile` and `FatDir`;
- mutexes and semaphores, once the kernel uses them outside its self tests.

## 3. The modules

### Buddy (`mm/pmm.c`)

`free_area`, `nr_free`, `nr_free_pages`, `in_buddy` and `order` are the fields of
`kmem` and `page_t`. The free lists are sequences, head first, because
`_buddy_free_pages` pushes at the head and `_buddy_get_from_free_area` pops there.
`pfn_lock` is taken with interrupts off, so a loop under it runs alone; each loop turn is a
step of the model (`merge`, `buddy_split`), `op` says which loop runs, and
`page`, `high`, `low` are its locals. What does interleave is `pmm_alloc_pages`' test of
`nr_free_pages`, made before the lock: `pmm_alloc_pages(c, n)` and `buddy_alloc_pages(c)` are two
steps, and a request may find memory gone or too fragmented, which ends in a fault (`halted`).
`granted` is a ghost: which frame was handed out with which order. `Usable` is the content of
the boot bitmap, `WordOrder` the order of one all-free bitmap word. `Pow2` is a constant function
with its defining equations as assumptions, so that the proofs need no recursion.

### PageAlloc and BuddyRefines

`PageAlloc` is what callers rely on: usable frames, a number of free ones, and the blocks that are held.
`BuddyRefines` maps `Buddy` to it. The block in hand under `pfn_lock` counts as free until it is granted, so
that splitting and merging are stuttering steps, and the boot scan, a grant and a return are one abstract step each.
A request that cannot be served stops both.

### Sched (`proc/sched.c`, `proc/kevent.c`, `proc/task.c`, `proc/sched_support.S`)

A `spin_lock_irq` section is one step. `pc` and `op` say where each task's kernel stack stands and
in which call; `cpu` is the task whose stack the processor is really on, which can differ from
`running_tasks` while a switch is under way. `tstack` records whose stack the saved pointer of a
task leads to: `Stale` after it was restored (the memory above it is in use again), `Old` for one
execve has replaced. `SwitchTo` is `__switch_to`; restoring a stale stack halts the model.
The tick is one step (interrupts are off in the handler); a voluntary `sched_again` is two,
the choice under the lock and the switch, and the tick may come between them, as the code allows (finding
`sched_window`). The ghost `torn` records that it has; the model follows the kernel up to there, since the interrupted task
would go on with a `next` that was chosen before. A task that `__switch_to` resumes in `sched_sleep` is still in that call (`slept`) until
`sleep_return`. `kevent_subscribe` frees its event when it returns, whether or not it is still linked: `Stale` on `sub_list` is a freed
event, and a walk that touches one may halt the model (`Touches`).
Time is abstracted to `due[t]`: the clock has reached the sleeper's timestamp.
The null pointers the code can dereference (`wakeup_event` after a terminal read,
`running_tasks` before the first tick and while a task ends, the area of a user stack that
execve has dropped) are modelled as values of `halted`. `elf_load` either loads or fails.

### VmArea (`mm/vmalloc.c`, mapping in `mm/vmm.c` and `mm/ptm.c`)

Areas are records of addresses in the order of `vm_area_head`; `PageSize` addresses make a page, and all sums and
differences wrap at `Wrap`, as those of a `uptr` do. `vmalloc` rounds the size up to pages (`AlignUp`) and leaves the address as it is, so
that an area may start in the middle of a page: `PagesOf` are the pages that are mapped for it, `Reached` those its
addresses lie in. `FindFixed` and `FindFree` are the
two halves of `mm_find_vm_area`, with the missing lower bound of a given address, the wrap of the gap computation, the strict limit
test and the refusal when the first large-looking gap does not hold the area. A page that is mapped already panics, and a copy of
a page that is not mapped faults. Operations on a task's space run with interrupts off, so each is one step.
A call that fails changes nothing and is a stuttering step. The pages mapped are tracked rather than the page tables
that map them. `fixed` is a ghost: the spaces with areas that were asked for at an address. The loop of `mm_copy` over the
parent's list is a recursive function over its positions.

### KernelVm (`mm/vmalloc.c` with a null `mm`, `mm/ptm.c`)

`vmalloc(null, ..)` and `vfree(null, ..)` take `k_vmlist_lock` with `spin_lock`, which leaves interrupts as they
are, and map or unmap page by page after the lock is released; each of these is a step, and `preempt` may come between
any two when the caller has interrupts on. Both kinds of caller exist: fork, execve and wait have them off, the
listings that `ramfs_iterate` and `fat32_iterate` grow with `krealloc` have them on. Page tables have one level under the PML4:
`_prepare_hh_init` makes the tables of the upper half at boot, `mm_create` copies the entries, and
what `ptm_alloc_*` adds further down hangs from the same entry. No kernel area is asked for at an address, so that all of them start at a
page, and the unit of addresses is a page here.

### SyscallEntry (`proc/syscall_support.S`, with `sched_again`, `task_fork`, the user-mode start)

The per-processor cells `kstack`, `ustack`, `rsp0`, and per task the user registers and the frame
on its kernel stack. Entry and return run with interrupts off and are one step each; `switch` may
come anywhere in between.

### Isr (`system/isr.c`, `apic.c`, `timer.c`, `idt_macro.S`, `keyboard_init`, with `__switch_to` and `__sched_task_start`)

The boot sequence as a list of steps, during which keys may be pressed; requests and interrupts in service of
the local APIC; the interrupt flag, the active gs base, and per task a stack of frames (user code, system call, start,
interrupt). The timer's handler acknowledges and then switches, in one step each. `vfs_lock` stands for the locks that are taken
with `spin_lock`: `spin_reach`, `spin_acquire` and `spin_release` are the moments of `vfs_read` around them. `section` is the
`spin_lock_irq` section that a fork, spawn, execve, exit or wait is in: interrupts are off there, and `vfs_copy`, `vfs_close` and `vfree` take such
locks inside it.
`blocked` is a ghost: tasks that have been switched away from by their own call.

### FatVolume and FatFile (`fs/fat32.c`)

`FatVolume` holds the operators on a volume: chains in the FAT, allocation of the next free cluster,
freeing of a chain, the FS info counters. `FatFile` has the state machine. An operation of the
driver is sequential, so it is one step on the cached view of the volume; the sector writes it makes
are left in a log in their order, `disk_write` carries them out one at a time, and `power_failure` may come
between any two. After it the volume is what reached the disk. Ghosts record what was written
(`content`), the files that were opened with an outdated cached size (`stale`), the last reply, and whether a failure has happened.
The driver has one sector buffer (`sect`, `dirty`), and the order in which it is flushed decides what
a failure leaves behind, so the buffer is part of the state. `fat32_disk_read` and
`fat32_disk_write` return true whatever the disk says, so I/O errors never reach this code.
Files start with one cluster; empty files are left out. Every entry of a table has its sectors in the data area: the code takes the
number of entries (`sect_per_fat_32 * 128`, line 1132) for the number of clusters, and on a volume whose last table sector is not used up
it can hand out a cluster behind the end of the data.

### FatDir (`fs/fat32.c`)

Directories are chains of slots. A slot keeps its mark (free, last, in use), whether it is a fragment of a long
name, and the data of the entry; a name is a model value with its number of fragments (`Lfns`) and its short form (`Short`),
and the checksum is the short form it is computed from. `dir_search`, `follow_path`, `dir_add` with its search for a gap,
`dir_next_stretch`, `remove_chain`, `remove_entries`, `fat_file_open` with create, `fat_dir_create`, `fat_unlink` and the
listing are operators on the driver's state, one call is one step, and the sectors it writes are carried out
one at a time as in `FatFile`. `Foreign` is an entry without long name, as another system may have left it in the root.
`dir_next` finds the end of a cluster by the low bits of the absolute sector number (line 553); the model has data areas that begin at a multiple
of a cluster's sectors, for which this is right.
`tree` is a ghost: what the calls so far have made. A call that fails changes what the code has changed by then.
Creating and removing are part of the driver's interface; no system call reaches them yet.

### Slab (`mm/vmm.c`, `mm/kmalloc.c`, `mm/vmalloc.c` as a client)

Sizes are bytes. A cache is its sequence of slabs, head first, with the counters of `slab_cache_t`; a slab
has its range, its counter and the free list that is threaded through its objects. `slab_free` finds
the slab of a pointer by address, which is why the blocks the page allocator returns are chosen
everywhere, neighbours included. `slab_lock` is held with interrupts off, so each operation is one
step. Large requests go to `vmalloc`, whose address space lies apart and whose `vm_area_t` is a slab
object itself. `granted` is a ghost: what callers hold.

### VfsPath (`fs/vfs.c`, `_vfs_lookup` and the current directory)

A path is a sequence of names and slashes, a directory entry is a file system with the names that lead
to it there. The reference (`Meaning`) resolves the path in the one tree that the mounts make up.
`NullOnMiss` are the file systems that report a missing name: the ram file system does not (section 5).
Paths without a name and `..` out of the root of a mount are
left out. `BootAssumption` is what `kernel_main` does: it mounts `/` first, and each file system once. Loops are functions of the
number of turns; as many as there are tokens, or dentries, are enough.

### VfsFiles (`fs/vfs.c`, `proc/task.c`, `proc/sched.c`, `proc/elf.c`)

Each task's `open_files` list, with `count`, and which file structure of FAT an entry leads to.
`vfs_copy` is the copy that fork makes: counts go up on both sides and the copy has no file structure.
`AfterCloseAll` is `_task_close_all_files`, which empties the list before it asks `vfs_close` to find the
handles there. A second fork in a forked task only clears its mark (`fork_again`), as `sched_fork` does.
The loop of `vfs_copy` over the parent's list is a recursive function over its positions (`CopyEntry`, `ChildEntries`).

### Ramfs (`fs/ramfs.c`)

An archive is a sequence of blocks, made by the external operator `tar` from a list of files; lookup, listing and open
scan it from its first block as the code does, with `align_to_512` leading from header to header. Nothing changes
the archive, so the only state is the open file and its position. `Lengths` may be negative, as `sys_read` passes on any `i32`; a read that
copies past all bounds sets `overrun`, and the model ends.

### Keyboard, Term and Tty (`device/keyboard/`, `device/display/`, `fs/ttyfs.c`, `log/kprint.c`)

`Keyboard` is the driver between the controller's bytes and published keys, with the typist as its environment.
`Term` is a function from terminal state to terminal state per operation, since each runs under `term_lock` with
interrupts off: cells are drawn in the swap buffer and shown when they are flushed. `Tty` composes the two with the ring of
`ttyfs`, a reader, writers, and a task that logs (`kprint_core` in its four calls, between which
the keyboard interrupt may log as well). `line` is a ghost, the line as the typist sees it; `plain` tells when
something else was drawn in it. `color` is the terminal's pair of colours, pushed and popped as the code does it. The loops that write a text or the spaces of a tab are recursive
functions over the number of characters written. `IsKeyboard` is what is assumed of a keyboard: a name is the name of one key,
no key has the code of the prefix, and the driver's tables know the modifiers.

### MC modules

`MCVm`, `MCEntry`, `MCFat` and `MCVfs` check two or three modules in one run. These share no variable, so
interleaving them would multiply states and add nothing: `part` says which of them a behaviour is about, and the
properties of the others hold of their initial states.

## 4. Runs

| Run | Bounds | Checks | Shows |
|---|---|---|---|
| `buddy` | 9 frames with holes, 3 orders, 2 callers, requests 1, 2, 3, 5 | `BlocksDisjoint`, `PagesConserved`, `FullyCoalesced`, `ImplementsPageAlloc` | pages are neither lost nor handed out twice, freeing everything restores the boot state, and the allocator implements `PageAlloc` |
| `sched` | 4 tasks, one reader | `OnePlace`, `OwnedUntilTorn`, `NoDanglingSub`, `EndIsFinal` | all interleavings of calls, ticks and keys, up to the first tick that tears a switch apart |
| `sched_live` | 3 tasks, 2 readers, fair | `ReadersCanBeWoken`, `ReadyRuns`, `SleepEnds`, `WaitReturns` | nobody starves while the kernel runs, a sleeper gets the processor back, and waiting readers have an event on `sub_list` as long as no freed one is on it |
| `sched_window` | 3 tasks | violated: `ContextsOwned` | a tick between `spin_unlock_irq` and `cli` makes a task resume a stale stack |
| `vm` | tasks: 2 spaces, pages of 2 addresses, space 8-18 of 32 addresses, sizes 2, 5, 8 and -1, addresses 3, 10, 13, 30, 3 areas; kernel: 2 tasks, pages 8-17 under 2 PML4 entries | `AreasDisjoint`, `MappedExactly`, `ForkCopies`; `KernelAreasSeen`, `PanicsInWindowOnly` | the search keeps areas apart; what is mapped is what was mapped for the areas, at any address; forks copy areas that start at a page; every space sees the kernel's areas, and mapping panics only in the window of `vfree` |
| `entry` | calls: 3 tasks, 2 rips, 2 rsps; interrupts: 3 tasks and the core task, keyboard and timer | `KernelStacksOwned`, `RipKept`; `GsMatchesMode`, `ServiceEnds`, `KeysArrive`, `SpinsAreInterrupted` | stacks, return addresses and the gs base are kept; interrupts keep coming; who can spin for ever |
| `syscall_rsp` | 2 tasks | violated: `RspKept` | the user rsp is not kept |
| `fat_file` | 2 files, 2 handles also on one file, 2 spare clusters, 2 tables, power failures | `VolumeSound` | whatever sector was written last: chains on the disk end and are disjoint, they cover the sizes, every cluster in use in the table is in use in the mirror, the free count never denies a free cluster, and handles stand on their chains |
| `fat_dirs_data` | files: 2 with a handle each, sectors of 1 byte, old and new bytes; directories: 3 names of 1 and 2 fragments, 4 paths on 2 levels, 2 slots per sector, 4 calls, power failures | `DataKept`, `ReadsWhatWasWritten`; `DirsMatchTree`, `ClustersOwned`, `KeptAtPowerFailure` | closed files are as long as, and hold, what was written; directories show what exists, clusters have one owner, a failure costs no other entry |
| `slab` | 5 pages of 6 bytes, 2 caches, 2 pages for `vmalloc`, sizes 0, 1, 3, 7 | `GrantsDisjoint`, `ObjectsConserved` | objects stay apart and return to their slab in any order of calls |
| `vfs` | 3 mounts, 2 tasks, paths of up to three names; 3 handles, counts up to 2; archives of 5 files with 0-3 bytes in blocks of 2, reads of -3 to 4 bytes | `CwdLeadsBack`, `ResolvesAsMeant`; `FilesOwned`, `ChangesHeld`; `RamShowsArchive` | lookup finds what the path means, a working directory kept as text leads back; no file structure is freed twice, closes strand no changes; the archive is shown as it is |
| `console` | screen of 2 by 2 cells, ring of 3, reads of 1 and 2, four sets of keys and texts | `ModifiersTracked`, `ReadsLineTyped`, `EchoMatchesLine`, `OnlyErasedStale` | keys become the line that is read and the screen that is seen |

Every property has a mutant in `PROJECT.json`: a plausible mistake in a definition under which the run fails.

The bounds are the smallest with every case: nine frames give holes at both ends of a block, a last
frame without buddy and a block of the largest order; four tasks give parent, child,
sleeper or reader, and the core task at once; five pages with areas of one and three (four are refused) give
caves that are too small, exact and too large, and a space that fills up; the addresses lie below the space, at a page, in the middle of one, and where the
end of the area wraps; the size -1 becomes an area of no pages. `MaxAreas` bounds the areas. `MaxTasks` bounds the tids
ever handed out and `MaxSubs` the length of `sub_list`. On the FAT volume two spare clusters are enough
for both files to grow, for one to grow twice, and for a seek of two clusters to find the disk full half
way; `MaxOff` bounds offsets, `Lens` is the length of reads and writes. Data bytes
(`fat_dirs_data`) and power failures (`fat_file`) are explored in separate runs, because together they exceed
what TLC can visit; `Sharing` says whether two handles may be open on one file. Five pages give
slabs of one and of two pages next to each other and apart, memory that runs out, and a request that no
slab can serve. `MaxHandles` bounds the handles handed out, `MaxForks` the count of a file: two tasks, one
of which ends and is made again, see forks of a file open, closed and half closed.
`MaxCalls` bounds the calls that change a directory: four are enough to fill a cluster, stretch the chain, leave a gap that
is too short for a long name, fill it, and run out of clusters. Ten pages under two PML4 entries put areas on either side of the
border and across it. A ring of three characters on a screen of four cells wraps, fills up and scrolls within one line;
`MaxBytes` bounds the bytes that wait in the controller. The archive has sizes below, at and above one block. `CHECK_DEADLOCK FALSE` is set where the kernel may stop (a panic, a fault)
or where the bounds are used up.

**Fairness** (`sched_live`): the APIC timer is periodic (`WF(tick)`), the time-stamp counter
advances (`WF(TimePasses)`), and a task that gets the processor again and again makes progress in
its call (`SF(KernelStep)`): a slice lasts a millisecond and a kernel step some microseconds.
Weak fairness would not do, because the tick disables a task's step by switching away. Nothing is assumed of
user code or of keys. The properties end in `\/ ~Live` because a fault stops everything.

## 5. Findings

Two are runs with `expect: violation` and entries in `PROJECT.json`.

- `sched_window`: `sched_again` unlocks with interrupts on before `__switch_to` disables them.
- `syscall_rsp`: the user rsp waits in a per-processor cell.

The others are part of the models, which do what the code does; the properties say where they stop
holding.

- Execve of a program that does not load frees a user stack whose area is gone (`proc/sched.c:387`,
  `mm/vmalloc.c:338`): `Sched` halts with "null area".
- A task that has read the terminal has no `wakeup_event` any more (`proc/sched.c:420`): its next sleep writes through a null pointer, and
  `Sched` halts with "null event". A spawned or forked task that spawns a child waits for it for ever, since the tgids differ (line 472):
  `WaitReturns` is about tasks of one group.
- One key wakes all tasks that read the terminal, but `kevent_dispatch` takes one event off `sub_list` (`proc/kevent.c:97`): the other
  tasks free theirs while it is linked (line 51). `NoDanglingSub` is about one reader, and `ReadersCanBeWoken` holds until a freed event is on the list.
- The overlap test of `mm_find_vm_area` misses a range that encloses an area (`mm/vmalloc.c:84`; the
  comment at line 80 says "if memory is already allocated, return null."): `VmArea` halts with
  "pte exists", and `AreasDisjoint` is about spaces without fixed addresses.
- A given address need not start a page (`mm/vmalloc.c:73`): `SIZE_TO_PAGE(va_end - va_start)` pages are mapped from its page on, one less than the area
  reaches, and a fork faults when it copies the rest (line 210). It may lie below the space, and its end may wrap around: then nothing is mapped.
  A cave in front of such an area is not tested against the end of the space. A negative size of `sys_vmalloc` rounds up to
  0 and makes an empty area, with which fork fails. `MappedExactly` says what is mapped in all these cases, and when it is what the areas reach; `ForkCopies`
  is about areas that start at a page, lie in the space and are not empty.
- `fat_file_sync` writes the file's buffer whether it is dirty or not (`fs/fat32.c:1524`; the comment at
  1340 says "Writes back the write buffer if dirty."), so with two handles on a file a close puts old
  bytes back: the data properties have one handle per file.
- `fat_file_write` hides the error of a full disk behind a second `err` (`fs/fat32.c:1412`), and a seek
  that fails half way leaves a new cluster with the old offset (line 1491): the data properties are
  about a disk with room (`HasRoom`).
- The size of a file is cached at its first lookup and used for every later open (`fs/fat32.c:1912`). A file that has grown is opened with its
  old size; a write then lets the size in the directory fall back (line 1545) and the bytes beyond it are lost. `DataKept` says that
  those within the cached size never are.
- `ramfs_read` takes any `i32` for a length (`fs/ramfs.c:257`). A negative one that leads back to a place in the file becomes the size of a `memcpy`, which runs
  over every buffer; one that leads before its start reads the rest of the file. `RamShowsArchive` says that the first is the only read that leaves the file.
- `ramfs_lookup` returns a dentry without inode for a missing name (`fs/ramfs.c:122`), which
  `vfs_resolve_path` dereferences: `VfsPath` halts.
- `_task_close_all_files` takes a file off the list before `vfs_close` looks for it there
  (`proc/task.c:128`), so that exit and execve never sync: `ChangesHeld` excepts them.
- `vfree` of a kernel area unmaps after it has unlocked (`mm/vmalloc.c:327`): a task that is given the range in between
  panics at the page that is still mapped. `PanicsInWindowOnly` says that this is the only way.
- A call that `__switch_to` has resumed, and a task that starts, run with interrupts off, and so do fork, execve, exit and wait under `spin_lock_irq`, where
  they copy and close files and free memory (`proc/sched.c:430` and 446, 318 and 354, 194 and 202, 463 and 475). If they then find `vfs_lock` taken by a
  task that was preempted, they spin for ever (`fs/vfs.c:280`, 336, 579). `SpinsAreInterrupted` says that only these can.
- Unlinking frees and writes the chain before the entry (`fs/fat32.c:1267`), and a name written over two sectors can be half
  there: after a power failure an entry may lead to free clusters, or hide the names behind it, for which `dir_search` then
  answers "broken". `KeptAtPowerFailure` is about all other entries. A create that finds no room for its
  entry leaves a cluster without owner (`fs/fat32.c:1308`), and `fat_file_open` does not sync what it created.
- `dir_at_root` (`fs/fat32.c:818`) is also true of an entry without long name in the first slot of the root: it cannot be
  unlinked, and opening it as a directory opens the root.
- Between a message's push of its colour and its pop (`log/kprint.c:138`, 140) the echo and other tasks draw in that colour. A message that comes in between
  (a key's message inside a task's) leaves nothing to go back to: its pop restores the outer colour, and the outer pop sets the colour to 0, black on
  black, for all text that follows. No property is about colours. `term_refresh` does not show a backspace to the row above. A backspace erases one cell of a tab.
- Shift with enter, space or backspace gives no character, and neither do the key codes of `[` and `]`; the 4097th
  character of a line panics (`fs/ttyfs.c:99`); two readers are given the same key.

Seen while reading and outside the models: `isr_enable_irq` unmasks the pin of the irq while `isr_setup_irq` programs the
one the MADT overrides it with (the same one for the keyboard); `_irq_bitmap_set` clears other bits (`system/isr.c:187`), but
nobody allocates an irq; `ksemapore_release` admits a waiter and a newcomer for one release
(`base/ksemaphore.c:40`), but only self tests use it.

## 6. Proofs

Every theorem is about every value of the constants its module's assumption allows: any number of tasks, frames,
spaces, handles or keys, any sizes. Where a property of a run is proved, `PROJECT.json` names the theorem.
A proof has an inductive invariant, one step or lemma per action, and lemmas about the
operators on lists and records that several actions use.

**`BuddyProofs`** (all four properties of `buddy`). `IInv == TypeOK /\ BlocksDisjoint /\ PagesConserved /\
FlagsMatchLists /\ OrderKept` is inductive (`BuddyInvariant`); none of its conjuncts is alone: that a merge absorbs
a block that really is free needs the flags to match the lists; that a free returns the right frames needs the order
on the page to be the granted one; that the merged block overlaps nothing needs disjointness and coverage of both halves.
`BuddyAligned` adds that blocks are aligned to their size and that no two free blocks of one order are buddies, also in the middle of
a split. From it `BuddyFullyCoalesced`: free buddies are merged whenever the lock is free, and once everything is given back
the free blocks are exactly the largest that usable frames allow, by induction over the orders (a least order at which it fails). `BuddyImplements` shows that each step is a step of `PageAlloc` or
invisible; the free pages of `PageAlloc` are `nr_free_pages` and the block in hand under `pfn_lock`.

**`EntryProofs`** (all properties of `entry`). `KernelStacksOwned` is inductive with `TypeOK`, and gives the
action property `RipKept`. For interrupts, `IsrIInv` says what the stack of frames can look like (a handler's
frame lies on at most one other, and only the running task has one that it has not been switched away from), that the top frame and the local
APIC agree on what is in service, what each step of the boot sequence has established, that a section under `spin_lock_irq` is the
running task's and has interrupts off, and that a call that will be resumed with interrupts off was left by `sched_again`.

**`SchedProofs`** (all safety properties of `sched` and `sched_live`). `SchedIInv` relates the place of a task
(`active_tasks`, `cleanup_tasks`, running, waiting for an event) to its state, its call and the stack its context is on; it holds
wherever the tick comes, and gives `OnePlace`. `ReadIInv` counts events against readers as long as none of them is freed:
`ReadersCanBeWoken` for any number of readers. `NoDanglingSub` has a hypothesis, one reader of the terminal, the case for which the run checks it (with two, `kevent_dispatch`
removes an event of a reader it has not woken). `OwnedUntilTorn` and `EndIsFinal` need none: they hold of every behaviour up to the first tick in the
window of `sched_window`.

**`SlabProofs`** (both properties of `slab`). `SlabIInv` says that every slab has pages of its own, that its free list
holds exactly its objects that are not handed out, once each, that the counters count them, and that a grant is such an
object or a `vmalloc` range with a `vm_area_t` of its own. The range by which `slab_free` finds a slab reaches past the slab's last
page by its header; that no other slab's objects lie there is the part that needs pages to be blocks.

**`VmProofs`** (all five properties of `vm`), for any page size, addresses and sizes. `VmInv`: areas lie in the space and are sorted unless one was
asked for at an address, and, as long as nothing has stopped the kernel, no two have pages in common and exactly the pages of all are mapped. `VmForkCopies` follows the loop of `mm_copy` by induction over
the parent's list: every area it asks for is free in the child and one that the search grants, and all its addresses are mapped on both sides. `KvmInv`: every space has the
tables made at boot, at most one call is at work on an area, and the mapped pages are those the list and the calls under way
account for; the one exception is a `vfree` that has unlocked and not yet unmapped, which is what `PanicsInWindowOnly` says.

**`VfsProofs`** (the two properties of `VfsFiles` and the two of `VfsPath`). `FilesInv`: handles of a list differ and have been given out, a file structure
bears the number of the handle it was opened with, no two tasks reach the same one, and those reached are allocated. That a fork
keeps this is an induction over the parent's list; the action property `ChangesHeld` follows from what each step does to the lists.

The theorems about path names hold for any file systems, directory trees and sequence of mounts. `PathInv`: each file system is mounted on
a dentry of an earlier one, which is its root's parent, and a task has the path name of the dentry it opened. So the way up gets
higher with every turn (`Higher`), meets no dentry twice and comes to the root within as many turns as there are dentries
(`ComesUp`). `VfsCwdLeadsBack`: `vfs_resolve_path` retraces that way (`Descends`), a dentry a turn, or two where it crosses a
mount, and there the two slashes that `vfs_get_full_path` leaves are eaten by one call of `vfs_next_path`.
`VfsResolvesAsMeant`: of the dentries that a walk can come to, no two are at one place (`OnePlace`), so an entry that
is missing has no place in the tree (`EntryMissing`); turn by turn the walk is at the place that the tokens read so far lead to (`Follows`).
The theorems have hypotheses, which the mounts of `kernel_main` satisfy (TLC finds them true in every state of the run's instance). `MountsBare`: a file system is
mounted on a dentry with none below it, and not on a root. Otherwise `..` out of the mount, to the dentry it covers, and then a
name lead to a hidden entry, whose stored path name leads into the mount. `NoneHidden`: no file system is mounted over another; a boot path through `..` could do
that. `PlainPaths`: no path has two slashes in a row (`vfs_next_path` stops at the second one at the start of a path), and the model's `None` is not a
sequence of names.

**`TtyProofs`** (all four properties of `console`), for any ring, screen, tab stop, texts and keyboard that `TtyAssumption` allows.
`RingInv`: the ring holds the line from `ibegin` on, wherever it wraps. `ScreenInv`: the cursor is on
the screen and not before the last refresh's, and a cell that is not flushed is blank and not before the cursor; that writing a text keeps it is an
induction over its characters. `EchoInv`: the k-th cell before the cursor has the k-th last character of the line; drawing
shifts that by one, scrolling by a row. `KeyInv`: the last byte of a
modifier that waits in the controller tells whether it is down, and if none waits the driver's state does; that a prefix belongs to
the byte behind it needs that a prefix is never the last byte sent.

**`FatProofs`** (`VolumeSound` of `fat_file`, `DataKept` and `ReadsWhatWasWritten` of `fat_dirs_data`), for any volume, cluster and sector size, any number of files and handles,
with and without a mirror, with and without power failures and shared files. What is true of the disk at every moment depends on what
is still to be written, so the invariant speaks of the sectors in `fs.log`: `Good(disk, fs)` says that, carried out one by
one, they lead from the disk to the volume the driver sees, and that each volume on the way is `Sound` (`Track`). A volume is sound if in each table the chains of the files are linked from their first
cluster to one that ends the chain, visit no cluster twice and share none, if the mirror's chains begin with the active table's, the
chains cover the sizes in the directory, and the FSInfo sector denies no free cluster. Three facts carry the proof: `EndsNew`, ending a
free cluster changes no chain; `LinksNew`, linking an ended cluster makes one chain longer; `FourPuts` and `TwoPuts`, so the orders in which `put_fat` writes the two tables pass
through sound volumes only. Above that, `WorkOK` says what an operation in progress keeps: its handle is on its chain at
the cluster of its offset or behind it (a seek that fails has moved it), and the chain covers its size. `FatInv` also says that the chains cover the cached sizes of
closed files, which may be older than the directory's.

The contents of files need more than that. `DataInv` says, as long as the disk has room, that an open handle is `Exact`: at the
cluster and the sector of its offset, with a buffer that equals the sector unless it is dirty. The file then
`Shows` through the handle the bytes last written (the buffer where it stands, the volume elsewhere), and a file without a handle
`Stores` them. `Carried` says that a turn of a loop (write the buffer back, go on to the next sector or stretch the chain, read)
changes nothing that is shown; that it touches no other file rests on the chains being `Apart`. A seek
is exact only if `stretch_chain` finds a cluster whenever one is free, which needs the counters that bound its scan to be right
(`Counts`: `free_cnt` denies no free cluster, and `last_used`, where the scan starts and which it does not test, is in use). That a closed file is also long enough is `SizeInv`: the size that an open file will write to the directory, and the one
a closed file has there, covers the bytes that must be kept and the cached size from which the next open starts. The theorems are for `~Sharing`, the case that
the run checks: two handles on one file have a buffer each and the later close wins. Their other hypotheses, that the value `Closed` is not
itself a `File` structure nor a number, are about the model's encoding of a null pointer.

Induction over lists, orders and texts is done with the least counterexample: the set of positions at which a claim
fails has a least member (well-foundedness of the naturals), which a step from the one before refutes. A function that a
definition describes recursively is first shown to exist, in the same way.

Only model-checked:

- liveness under fairness (`ReadyRuns`, `SleepEnds`, `WaitReturns`), out of the prover's reach;
- `FatDir`: `DirsMatchTree`, `ClustersOwned`, `KeptAtPowerFailure`. Its loops are folds, which the provers cannot
  unfold; see the plan;
- `Ramfs` (`RamShowsArchive`), which compares folds over the blocks of an archive with its files.

## 7. Not modelled

- The ATA driver and the serial port are port I/O. `fat32_disk_read` and `fat32_disk_write` ignore what the driver says.
- SMP bring-up, CPU features, ACPI tables, HPET, TSC and the memory map are read once at boot; the other processors halt.
- Formatting of log messages, glyphs, the string library and panic output carry no state that a property is about; a panic is a value
  of the models.
- Exceptions end in a panic. The allocators of vectors and irqs are not called.
- Mutexes and semaphores are used by kernel self tests only.
- Of FAT32: files without a cluster, the attributes read-only and system, time stamps, partition tables and the probing of a volume.
- The user shell and libc appear as the arbitrary callers of the system calls.
- `old/` is an earlier kernel and a set of UEFI headers that are not built. They are more than half of the repository's lines (about
  19,000), and some 4,600 more are the kernel's headers, so the share of all lines that the models cover stays small; of the
  kernel's own C and assembly, about 10,800 lines, the models cover most of what changes state after boot.
