------------------------------- MODULE Sched -------------------------------
(***************************************************************************)
(* The scheduler and the task life cycle: kernel/src/proc/sched.c,         *)
(* kevent.c, the life-cycle part of task.c, and __switch_to.               *)
(*                                                                         *)
(* The application processors only halt (smp.c), so one processor          *)
(* schedules.  A section between spin_lock_irq and spin_unlock_irq is one  *)
(* step; between two sections interrupts are on and the timer tick or the  *)
(* keyboard interrupt may come.  sched_again called by a task is two       *)
(* steps: the choice of the next task under sched_lock, and __switch_to,   *)
(* whose first instruction is cli.  Called by the tick it is one.          *)
(***************************************************************************)
EXTENDS Integers, Sequences, FiniteSets, SequencesExt

CONSTANTS
  MaxTasks,    \* bound: the tasks ever created have the tids 1 .. MaxTasks
  MaxSubs,     \* bound: length of sub_list
  Readers,     \* the tasks that read the terminal (ttyfs_read)
  Idle, Boot, Null, Stale, Old

Core == 1      \* core_task: loops in kevent_dispatch and makes no other call
Shell == 2     \* the first user task
Tasks == 1 .. MaxTasks

ASSUME SchedAssumption ==
  /\ MaxTasks \in Nat /\ MaxTasks >= 2
  /\ MaxSubs \in Nat
  /\ Readers \subseteq Tasks
  /\ {Idle, Boot, Null, Stale, Old} \cap Tasks = {}
  /\ Cardinality({Idle, Boot, Null, Stale, Old}) = 5

VARIABLES
  state,     \* task->state; "none" before task_create, "freed" after task_free
  active,    \* active_tasks
  cleanup,   \* cleanup_tasks
  running,   \* running_tasks[cpu->id]
  cpu,       \* whose kernel stack the processor is really on
  tstack,    \* task->tstack: whose stack a switch to the task restores; Stale
             \* once it is restored and until it is saved again; Old for a
             \* stack execve has replaced
  torn,      \* ghost: a tick has come between a task's choice and its switch
  wakeup,    \* task->wakeup_event: its type, or "null" for a null pointer
  due,       \* tsc_get_millis() has reached wakeup_event->timestamp
  sub_list,  \* the subscribers of the events on kevent.c's sub_list; Stale for
             \* an event that is freed and still linked
  tgid, is_fork,
  next_tid,  \* global_id + 1
  pc, op,    \* per task: where its kernel stack stands, and in which call
  arg,       \* per task: the tid it waits for, or the child it is adding
  halted     \* "no", or what stopped the kernel

vars == <<state, active, cleanup, running, cpu, tstack, torn, wakeup, due,
          sub_list, tgid, is_fork, next_tid, pc, op, arg, halted>>
queues == <<active, cleanup, running>>
context == <<cpu, tstack, torn>>
event == <<wakeup, due, sub_list>>
identity == <<tgid, is_fork, next_tid>>

Init ==
  /\ state = [t \in Tasks |-> IF t <= Shell THEN "READY" ELSE "none"]
  /\ active = <<Core, Shell>>
  /\ cleanup = <<>>
  /\ running = Null
  /\ cpu = Boot
  /\ tstack = [t \in Tasks \union {Idle} |-> t]
  /\ torn = FALSE
  /\ wakeup = [t \in Tasks |-> "unknown"]
  /\ due = [t \in Tasks |-> FALSE]
  /\ sub_list = <<>>
  /\ tgid = [t \in Tasks |-> t]
  /\ is_fork = [t \in Tasks |-> FALSE]
  /\ next_tid = Shell + 1
  /\ pc = [t \in Tasks |-> IF t = Core THEN "user" ELSE "start"]
  /\ op = [t \in Tasks |-> "none"]
  /\ arg = [t \in Tasks |-> Null]
  /\ halted = "no"

\* The model follows the kernel until it stops, or until a tick comes between a
\* task's choice and its switch: the task would resume with the `next` of before.
Live == halted = "no" /\ ~torn

\* Task t executes on its kernel stack, at l.
At(t, l) == Live /\ cpu = t /\ pc[t] = l

\* Task t executes in user mode and enters a system call.
Calls(t) == At(t, "user") /\ t # Core

\* A fresh stack runs with interrupts off up to its iretq, a failing execve
\* included; a switch has them on up to __switch_to's cli.
InterruptsOn ==
  /\ Live
  /\ cpu \in Tasks => pc[cpu] # "start" /\ op[cpu] # "fail"

-----------------------------------------------------------------------------
(* sched_again.                                                            *)

\* Mutant: the branch for sleeping tasks is missing.
Available_ready(t) == state[t] = "READY"

\* The test of __active_task_next_available on an entry of active_tasks.
Available(t) ==
  \/ state[t] = "READY"
  \/ state[t] = "WAITING" /\ wakeup[t] = "sleep" /\ due[t]

\* The first available task of a list, or Null.
FirstAvailable(list) ==
  LET hits == {i \in DOMAIN list : Available(list[i])}
  IN IF hits = {} THEN Null ELSE list[Min(hits)]

\* Mutant: the preempted task goes back to the head of the list.
fifo_push_front(list, t) == <<t>> \o list

\* __active_task_fifo_push.
fifo_push(list, t) == Append(list, t)

\* Mutant: the chosen task stays on active_tasks.
TakeOff_skipped(list, t) == list

\* dlist_remove_entry takes out the entry of a task that is on the list.
dlist_remove_entry(list, t) == RemoveAt(list, CHOOSE i \in DOMAIN list : list[i] = t)

\* The chosen task's entry in __active_task_next_available.
TakeOff(list, t) == dlist_remove_entry(list, t)

\* The part of sched_again under sched_lock.
ChooseNext ==
  LET curr == running
      isRunning == curr \in Tasks /\ state[curr] = "RUNNING"
      list == IF curr \in Tasks /\ ~isRunning THEN fifo_push(active, curr) ELSE active
      found == FirstAvailable(list)
      next == IF found # Null THEN found ELSE IF isRunning THEN curr ELSE Idle
  IN /\ active' = IF found = Null THEN list
                  ELSE IF isRunning THEN fifo_push(TakeOff(list, found), curr)
                  ELSE TakeOff(list, found)
     /\ state' = [t \in Tasks |-> IF t = next THEN "RUNNING"
                                  ELSE IF t = curr /\ isRunning THEN "READY"
                                  ELSE state[t]]
     /\ wakeup' = [t \in Tasks |-> IF t = next /\ wakeup[t] = "sleep" THEN "unknown"
                                   ELSE wakeup[t]]
     /\ due' = [t \in Tasks |-> due[t] /\ t # next]
     /\ running' = next
     /\ UNCHANGED <<cleanup, sub_list, identity, arg>>

\* Mutant: the stack execve has replaced is saved over the new one.
Saves_replaced(curr) == curr # Null

\* __switch_to saves curr's stack unless there is no curr or execve replaced it.
Saves(curr) == curr # Null /\ ~(curr \in Tasks /\ op[curr] = "execve")

\* The stack the processor is on; execve's caller runs on the replaced one.
CpuStack == IF cpu \in Tasks /\ op[cpu] = "execve" THEN Old ELSE cpu

\* __switch_to(next, curr): save the stack the processor is on as curr's,
\* restore next's.
SwitchTo(next, curr) ==
  LET saved == IF Saves(curr) THEN [tstack EXCEPT ![curr] = CpuStack] ELSE tstack
  IN IF saved[next] \in {Stale, Old}
     THEN halted' = "stack" /\ UNCHANGED cpu /\ tstack' = saved
     ELSE /\ cpu' = saved[next]
          /\ tstack' = [saved EXCEPT ![next] = Stale]
          /\ UNCHANGED halted

\* Where a stack that gives up the processor in sched_again continues.
After(call) ==
  CASE call = "sleep" -> "slept"
    [] call = "read" -> "woken"
    [] call = "wait" -> "poll"
    [] call = "execve" -> "start"
    [] call \in {"exit", "fail"} -> "gone"

\* __timer_switch_context.  It abandons a stack that has already been replaced
\* or whose task has ended, and interrupts any other where it stands.
tick ==
  /\ InterruptsOn
  /\ ChooseNext
  /\ SwitchTo(running', running)
  /\ torn' = (cpu \in Tasks /\ pc[cpu] = "switch")
  /\ pc' = [t \in Tasks |->
              IF /\ t = cpu
                 /\ \/ op[t] = "execve" /\ pc[t] \in {"again", "switch"}
                    \/ op[t] = "exit" /\ pc[t] = "again"
              THEN After(op[t]) ELSE pc[t]]
  /\ UNCHANGED op

\* sched_again called by task t: the choice ...
sched_again(t) ==
  /\ At(t, "again")
  /\ ChooseNext
  /\ pc' = [pc EXCEPT ![t] = "switch"]
  /\ UNCHANGED <<context, op, halted>>

\* ... and the switch.
switch_to(t) ==
  /\ At(t, "switch")
  /\ SwitchTo(running, IF op[t] \in {"exit", "fail"} THEN Null ELSE t)
  /\ pc' = [pc EXCEPT ![t] = After(op[t])]
  /\ UNCHANGED <<state, queues, torn, event, identity, op, arg>>

-----------------------------------------------------------------------------
(* Sleeping and waiting for the keyboard.                                  *)

\* sched_sleep.  The wakeup_event of a task that has read the terminal is null.
sched_sleep(t) ==
  /\ Calls(t)
  /\ \/ /\ wakeup[t] = "null"
        /\ halted' = "null event"
        /\ UNCHANGED <<state, wakeup, due, pc, op>>
     \/ /\ wakeup[t] # "null"
        /\ wakeup' = [wakeup EXCEPT ![t] = "sleep"]
        /\ due' = [due EXCEPT ![t] = FALSE]
        /\ state' = [state EXCEPT ![t] = "WAITING"]
        /\ pc' = [pc EXCEPT ![t] = "again"]
        /\ op' = [op EXCEPT ![t] = "sleep"]
        /\ UNCHANGED halted
  /\ UNCHANGED <<queues, context, sub_list, identity, arg>>

\* The task has the processor again, and sched_sleep returns.
sleep_return(t) ==
  /\ At(t, "slept")
  /\ pc' = [pc EXCEPT ![t] = "user"]
  /\ op' = [op EXCEPT ![t] = "none"]
  /\ UNCHANGED <<state, queues, context, event, identity, arg, halted>>

\* The time-stamp counter reaches the timestamp of a sleeping task.
TimePasses(t) ==
  /\ Live
  /\ wakeup[t] = "sleep" /\ ~due[t]
  /\ due' = [due EXCEPT ![t] = TRUE]
  /\ UNCHANGED <<state, queues, context, wakeup, sub_list, identity, pc, op, arg, halted>>

\* A walk or an insertion reads and writes the links of these entries of sub_list.
\* In a freed event they may still be intact; otherwise anything may follow, and
\* the model stops.
Touches(entries) ==
  \/ halted' = "no"
  \/ Stale \in {sub_list[i] : i \in entries \cap DOMAIN sub_list} /\ halted' = "freed event"

\* kevent_subscribe up to sched_wait_event; dlist_add_prev writes to the last entry.
kevent_subscribe(t) ==
  /\ Calls(t)
  /\ t \in Readers
  /\ Len(sub_list) < MaxSubs
  /\ Touches({Len(sub_list)})
  /\ sub_list' = Append(sub_list, t)
  /\ pc' = [pc EXCEPT ![t] = "subscribed"]
  /\ op' = [op EXCEPT ![t] = "read"]
  /\ UNCHANGED <<state, queues, context, wakeup, due, identity, arg>>

\* sched_wait_event up to sched_again.
sched_wait_event(t) ==
  /\ At(t, "subscribed")
  /\ state' = [state EXCEPT ![t] = "WAITING"]
  /\ wakeup' = [wakeup EXCEPT ![t] = "key"]
  /\ pc' = [pc EXCEPT ![t] = "again"]
  /\ UNCHANGED <<queues, context, due, sub_list, identity, op, arg, halted>>

\* kfree(event) at the end of kevent_subscribe does not look whether
\* kevent_dispatch has taken the event off sub_list.
FreeEvent(t) == [i \in DOMAIN sub_list |-> IF sub_list[i] = t THEN Stale ELSE sub_list[i]]

\* The rest of sched_wait_event and of kevent_subscribe.
event_return(t) ==
  /\ At(t, "woken")
  /\ sub_list' = FreeEvent(t)
  /\ wakeup' = [wakeup EXCEPT ![t] = "null"]
  /\ pc' = [pc EXCEPT ![t] = "user"]
  /\ op' = [op EXCEPT ![t] = "none"]
  /\ UNCHANGED <<state, queues, context, due, identity, arg, halted>>

\* The tasks sched_resume_event makes ready: every one that waits for a key.
Resumed == {t \in ToSet(active) : state[t] = "WAITING" /\ wakeup[t] = "key"}

\* Mutant: the subscriber of a delivered event stays on sub_list.
Subscribed_kept == sub_list

\* Mutant: kevent_dispatch drops a subscriber although nobody was resumed.
Subscribed_dropped == Tail(sub_list)

\* kevent_dispatch removes the first subscriber if anybody was resumed.
Subscribed == IF Resumed # {} THEN Tail(sub_list) ELSE sub_list

\* The keyboard interrupt: kevent_publish and kevent_dispatch with interrupts
\* off.  kevent_publish dereferences running_tasks[cpu]; the walk ends at the first
\* entry, and to take it off writes to the one behind it.
keyboard_irq ==
  /\ InterruptsOn
  /\ \/ /\ running = Null
        /\ halted' = "null task"
        /\ UNCHANGED <<state, sub_list>>
     \/ /\ running # Null
        /\ sub_list # <<>>
        /\ state' = [t \in Tasks |-> IF t \in Resumed THEN "READY" ELSE state[t]]
        /\ sub_list' = Subscribed
        /\ Touches(IF Resumed # {} THEN {1, 2} ELSE {1})
  /\ UNCHANGED <<queues, context, wakeup, due, identity, pc, op, arg>>

-----------------------------------------------------------------------------
(* Creating, replacing, ending and reaping tasks.                          *)

\* Mutant: _alloc_tid does not advance global_id.
alloc_tid_stuck == next_tid

\* _alloc_tid: global_id + 1 after the call.
alloc_tid == next_tid + 1

\* task_create and task_fork: a ready task whose fresh stack starts at
\* __sched_task_start_user.  Its creator has yet to add it to active_tasks.
Create(t, group, forked) ==
  /\ next_tid \in Tasks
  /\ state' = [state EXCEPT ![next_tid] = "READY"]
  /\ tgid' = [tgid EXCEPT ![next_tid] = group]
  /\ is_fork' = [is_fork EXCEPT ![next_tid] = forked]
  /\ arg' = [arg EXCEPT ![t] = next_tid]
  /\ next_tid' = alloc_tid
  /\ pc' = [pc EXCEPT ![t] = "add"]
  /\ UNCHANGED <<queues, context, event, op, halted>>

\* sched_fork up to sched_add; a forked task's first call only clears is_fork,
\* and mm_copy may fail after a tid has been taken.
sched_fork(t) ==
  /\ Calls(t)
  /\ \/ ~is_fork[t] /\ Create(t, tgid[t], TRUE)
     \/ /\ is_fork[t]
        /\ is_fork' = [is_fork EXCEPT ![t] = FALSE]
        /\ UNCHANGED <<state, queues, context, event, tgid, next_tid, pc, op, arg, halted>>
     \/ /\ ~is_fork[t]
        /\ next_tid \in Tasks
        /\ next_tid' = alloc_tid
        /\ UNCHANGED <<state, queues, context, event, tgid, is_fork, pc, op, arg, halted>>

\* sched_spawn up to sched_add: the child's group is its parent's tid.
sched_spawn(t) == Calls(t) /\ Create(t, t, FALSE)

\* sched_add.
sched_add(t) ==
  /\ At(t, "add")
  /\ active' = fifo_push(active, arg[t])
  /\ arg' = [arg EXCEPT ![t] = Null]
  /\ pc' = [pc EXCEPT ![t] = "user"]
  /\ UNCHANGED <<state, cleanup, running, context, event, identity, op, halted>>

\* sched_execve up to sched_again; task_replace gives the task a new stack.
sched_execve(t) ==
  /\ Calls(t)
  /\ state' = [state EXCEPT ![t] = "READY"]
  /\ is_fork' = [is_fork EXCEPT ![t] = FALSE]
  /\ wakeup' = [wakeup EXCEPT ![t] = "unknown"]
  /\ tstack' = [tstack EXCEPT ![t] = t]
  /\ pc' = [pc EXCEPT ![t] = "again"]
  /\ op' = [op EXCEPT ![t] = "execve"]
  /\ UNCHANGED <<queues, cpu, torn, due, sub_list, tgid, next_tid, arg, halted>>

\* What __sched_kernel_end leaves in running_tasks[cpu].
RunningAfterEnd == Null

\* __sched_kernel_end up to sched_again.
kernel_end(t, call) ==
  /\ state' = [state EXCEPT ![t] = "ZOMBIE"]
  /\ wakeup' = [wakeup EXCEPT ![t] = "null"]
  /\ cleanup' = Append(cleanup, t)
  /\ running' = RunningAfterEnd
  /\ pc' = [pc EXCEPT ![t] = "again"]
  /\ op' = [op EXCEPT ![t] = call]
  /\ UNCHANGED <<active, context, due, sub_list, identity, arg, halted>>

\* sched_exit from a system call.
sched_exit(t) == Calls(t) /\ kernel_end(t, "exit")

\* __sched_task_start_user: _sched_do_execve, then user mode.  A forked task
\* keeps its image; elf_load may fail for any other.  Then sched_exit frees the
\* user stack, but execve has dropped its area already: vfree dereferences null.
sched_do_execve(t) ==
  /\ At(t, "start")
  /\ \/ /\ pc' = [pc EXCEPT ![t] = "user"]
        /\ op' = [op EXCEPT ![t] = "none"]
        /\ UNCHANGED <<state, queues, context, event, identity, arg, halted>>
     \/ /\ ~is_fork[t] /\ op[t] # "execve"
        /\ kernel_end(t, "fail")
     \/ /\ ~is_fork[t] /\ op[t] = "execve"
        /\ halted' = "null area"
        /\ UNCHANGED <<state, queues, context, event, identity, pc, op, arg>>

\* sched_wait is called with any tid.
sched_wait(t) ==
  /\ Calls(t)
  /\ \E c \in Tasks : arg' = [arg EXCEPT ![t] = c]
  /\ pc' = [pc EXCEPT ![t] = "poll"]
  /\ op' = [op EXCEPT ![t] = "wait"]
  /\ UNCHANGED <<state, queues, context, event, identity, halted>>

\* Mutant: only the leader of a group finds its tasks.
Reaps_leader(t, z) == tgid[z] = t /\ z = arg[t]

\* The test of sched_wait on a zombie.
Reaps(t, z) == tgid[z] = tgid[t] /\ z = arg[t]

\* One turn of sched_wait's loop: scan cleanup_tasks under its lock.
wait_poll(t) ==
  LET hits == {i \in 1 .. Len(cleanup) :
                 state[cleanup[i]] # "ZOMBIE" \/ Reaps(t, cleanup[i])}
      z == cleanup[Min(hits)]
  IN /\ At(t, "poll")
     /\ \/ /\ hits = {}
           /\ pc' = [pc EXCEPT ![t] = "again"]
           /\ UNCHANGED <<state, cleanup, op, arg, halted>>
        \/ /\ hits # {}
           /\ state[z] # "ZOMBIE"
           /\ halted' = "panic"
           /\ UNCHANGED <<state, cleanup, pc, op, arg>>
        \/ /\ hits # {}
           /\ state[z] = "ZOMBIE"
           /\ cleanup' = dlist_remove_entry(cleanup, z)
           /\ state' = [state EXCEPT ![z] = "freed"]
           /\ pc' = [pc EXCEPT ![t] = "user"]
           /\ op' = [op EXCEPT ![t] = "none"]
           /\ arg' = [arg EXCEPT ![t] = Null]
           /\ UNCHANGED halted
     /\ UNCHANGED <<active, running, context, event, identity>>

-----------------------------------------------------------------------------
\* What a task does in the kernel once it has entered a call.
KernelStep(t) ==
  \/ sched_again(t) \/ switch_to(t)
  \/ sleep_return(t) \/ sched_wait_event(t) \/ event_return(t)
  \/ sched_add(t) \/ sched_do_execve(t) \/ wait_poll(t)

SystemCall(t) ==
  \/ sched_sleep(t) \/ kevent_subscribe(t)
  \/ sched_fork(t) \/ sched_spawn(t) \/ sched_execve(t)
  \/ sched_exit(t) \/ sched_wait(t)

Next ==
  \/ tick
  \/ keyboard_irq
  \/ \E t \in Tasks : TimePasses(t) \/ KernelStep(t) \/ SystemCall(t)

Spec == Init /\ [][Next]_vars

\* The timer is periodic, time goes on, and a task that is given the processor
\* again and again (a slice is a millisecond) gets on with its call.
Fairness ==
  /\ WF_vars(tick)
  /\ \A t \in Tasks : WF_vars(TimePasses(t)) /\ SF_vars(KernelStep(t))

FairSpec == Spec /\ Fairness

-----------------------------------------------------------------------------
(* Properties.                                                             *)

\* The lists hold tasks, and states, calls and events have values of their kinds.
TypeOK ==
  /\ state \in [Tasks -> {"none", "READY", "RUNNING", "WAITING", "ZOMBIE", "freed"}]
  /\ active \in Seq(Tasks) /\ cleanup \in Seq(Tasks)
  /\ running \in Tasks \union {Idle, Null}
  /\ cpu \in Tasks \union {Idle, Boot}
  /\ tstack \in [Tasks \union {Idle} -> Tasks \union {Idle, Stale, Old}]
  /\ wakeup \in [Tasks -> {"unknown", "sleep", "key", "null"}]
  /\ due \in [Tasks -> BOOLEAN]
  /\ torn \in BOOLEAN
  /\ sub_list \in Seq(Tasks \union {Stale})
  /\ tgid \in [Tasks -> Tasks]
  /\ is_fork \in [Tasks -> BOOLEAN]
  /\ next_tid \in Nat
  /\ pc \in [Tasks -> {"start", "user", "again", "switch", "slept", "subscribed", "woken",
                       "add", "poll", "gone"}]
  /\ op \in [Tasks -> {"none", "sleep", "read", "execve", "exit", "fail", "wait"}]
  /\ arg \in [Tasks -> Tasks \union {Null}]
  /\ halted \in {"no", "stack", "null event", "null task", "null area", "freed event", "panic"}

\* In how many places a task is held: running_tasks, the two lists, and its
\* creator's local variable before sched_add.
Places(t) ==
    (IF running = t THEN 1 ELSE 0)
  + Cardinality({i \in DOMAIN active : active[i] = t})
  + Cardinality({i \in DOMAIN cleanup : cleanup[i] = t})
  + Cardinality({p \in Tasks : pc[p] = "add" /\ arg[p] = t})

\* Every task that exists is in exactly one place, and the place agrees with
\* its state: a runnable or waiting task on active_tasks (or about to be), a
\* zombie, and nothing else, on cleanup_tasks, where sched_wait panics on
\* anything else, and only the task that is giving up the processor runs in
\* another state than TASK_RUNNING.
OnePlace ==
  \A t \in Tasks :
    /\ Places(t) = IF state[t] \in {"none", "freed"} THEN 0 ELSE 1
    /\ Contains(active, t) => state[t] \in {"READY", "WAITING"}
    /\ Contains(cleanup, t) <=> state[t] = "ZOMBIE"
    /\ running = t => state[t] = "RUNNING" \/ pc[t] = "again"

\* A context that __switch_to will restore is the task's own: whatever tick,
\* sleep, execve or exit left the processor, tstack of a task that is not
\* executing points into its own stack, and the processor is never on a stack
\* that task_free has released.  A tick between sched_again's
\* spin_unlock_irq and __switch_to's cli breaks it.
ContextsOwned ==
  /\ \A t \in Tasks :
       t # cpu /\ state[t] \in {"READY", "RUNNING", "WAITING"} => tstack[t] = t
  /\ cpu # Idle => tstack[Idle] = Idle
  /\ cpu \in Tasks => state[cpu] # "freed"

\* Up to the first tick between a task's choice and its cli, every context that
\* __switch_to will restore is the task's own, on sched_again's every other way.
OwnedUntilTorn == torn \/ ContextsOwned

\* kevent_dispatch wakes nobody while sub_list is empty, and removes an event
\* whose subscriber need not be one of those it woke: there are still at least as
\* many events on sub_list as readers that wait or are about to.  A second reader
\* that one dispatch woke too frees its event while it is linked (kevent.c:51);
\* from then on, and until that event is taken off, nothing is said.
ReadersCanBeWoken ==
  Stale \notin ToSet(sub_list) =>
    Cardinality({t \in Tasks : \/ state[t] = "WAITING" /\ wakeup[t] = "key"
                               \/ pc[t] = "subscribed"}) <= Len(sub_list)

\* kevent_subscribe frees its event when it returns; with one reader the event
\* is off sub_list by then, so no freed event is ever on it.
NoDanglingSub ==
  /\ \A t \in ToSet(sub_list) : t # Stale /\ op[t] = "read"
  /\ IsInjective(sub_list)

\* A task that has ended never gets the processor back, and once it is freed
\* nothing makes it a task again; up to the first tick between a task's choice
\* and its cli, as before.
EndIsFinal ==
  [][~torn' => \A t \in Tasks :
       state[t] \in {"ZOMBIE", "freed"} =>
         /\ state'[t] \in {state[t], "freed"}
         /\ cpu' = t => cpu = t]_vars

\* Round robin: every ready task on active_tasks gets to run.
ReadyRuns ==
  \A t \in Tasks : state[t] = "READY" /\ Contains(active, t) ~> running = t \/ ~Live

\* Every sched_sleep returns: the sleeper's time comes, sched_again finds it on
\* active_tasks, and it runs again.
SleepEnds ==
  \A t \in Tasks : op[t] = "sleep" ~> op[t] # "sleep" \/ ~Live

\* sched_wait by a task of the same group finds the child that has ended.
WaitReturns ==
  \A t, c \in Tasks :
    op[t] = "wait" /\ arg[t] = c /\ state[c] = "ZOMBIE" /\ tgid[c] = tgid[t]
      ~> state[c] = "freed" \/ ~Live
=============================================================================
